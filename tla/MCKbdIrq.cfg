SPECIFICATION Spec
CONSTANTS
  KBD_BUF_SIZE = 3
  Irqs = {0, 1}
  MaxKeys = 4
INVARIANTS
  ByteHasRequest
  NeverResets
  ServiceMatchesHandler
PROPERTIES
  RingIsFifo
  ScancodesRead
  BytesServed
