SPECIFICATION Spec
CONSTANTS
  VGA_WIDTH = 4
  VGA_HEIGHT = 4
  BUFFER = 4
  Letters = {"a", "b"}
  Ver <- MCVer
  Halt <- MCHalt
  Poweroff <- MCPoweroff
  VerText <- MCVerText
  UnknownText <- MCUnknownText
  FailText <- MCFailText
  PmmText <- MCPmmText
  MemText <- MCMemText
  VmmText <- MCVmmText
  LogText <- MCLogText
  AllocText <- MCAllocText
  ErrText <- MCErrText
  INT_BITS = 9
  LONG_BITS = 12
  BUF_D = 3
  BUF_U = 4
  Formats <- MCFormats
INVARIANTS
  TypeOK
  LineAsTyped
  BlankAhead
  LineShown
  NumbersExact
PROPERTY
  ArgumentsUsed
CHECK_DEADLOCK FALSE
