SPECIFICATION PciSpec
CONSTANTS
  BUSES = 3
  DEVICES = 2
  FUNCTIONS = 2
  SPACE = 8
  Opened <- MCOpened
  Present <- MCPresent
  Plain = {4, 5}
  Status = {6, 7}
  PciHandles = {h1}
  h1 = h1
  Accesses <- MCAccesses
PROPERTY
  StatusKept
