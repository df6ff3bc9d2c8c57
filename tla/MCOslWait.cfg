SPECIFICATION SyncSpec
CONSTANTS
  Events = {e1, e2}
  e1 = e1
  e2 = e2
  MAX_DEPTH = 3
INVARIANT
  WaitReportsSuccess
