SPECIFICATION Spec
CONSTANTS
  MAX_PAGES = 5
  LOW_PAGES = 4
  PMM_PAGE_SIZE = 2
  WORD = 16
  kernel_start = 4
  kernel_end = 7
  MemoryMaps <- MCMaps
  Addresses <- MCAddresses
INVARIANT
  LowFallsBack
