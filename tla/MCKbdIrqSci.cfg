SPECIFICATION Spec
CONSTANTS
  KBD_BUF_SIZE = 3
  Irqs = {0, 1, 9}
  MaxKeys = 1
INVARIANT
  InstalledLinesHandled
