SPECIFICATION Spec
CONSTANTS
  Mixes <- MCMixes
  PORTS = 8
  Byte = {0, 1}
  IoHandles = {h1, h2}
  h1 = h1
  h2 = h2
  Registers <- MCRegisters
  BUSES = 3
  DEVICES = 2
  FUNCTIONS = 2
  SPACE = 8
  Opened <- MCOpened
  Present <- MCPresent
  Plain = {4, 5}
  Status = {6, 7}
  PciHandles = {h1}
  Accesses <- MCAccesses
  BUS_COUNTER = 16
  BYTE_COUNTER = 3
  Slots <- MCSlots
  Events = {e1}
  e1 = e1
  MAX_DEPTH = 3
  TICKS_PER_NS = 3
  Durations = {0, 1, 2}
  MAX_TSC = 19
  MAX_SPINS = 4
INVARIANTS
  TypeOK
  AccessesLand
  SectionsMask
  WaitNotShort
  MutualExclusion
PROPERTIES
  WholeWritesStayInRange
  ReadsExact
  WritesExact
  ScanExact
  WaitEnds
  AcquireReturns
  FirmwareNotified
