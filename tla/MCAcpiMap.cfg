SPECIFICATION Spec
CONSTANTS
  MAX_PAGES = 18
  LOW_PAGES = 9
  PMM_PAGE_SIZE = 2
  WORD = 2048
  PAGE_ENTRIES = 4
  PML4 = 1
  PDPT = 2
  PD = 3
  PHYS_LIMIT = 100
  JunkPage = 8
  ACPI_MAP_WINDOW_BASE = 1792
  ACPI_MAP_WINDOW_PAGES = 5
  ACPI_MAP_RECORDS = 2
  Requests <- MCRequests
  FreeLow <- MCFreeLow
INVARIANTS
  SlotsMatchRecords
  LiveMappingsTranslate
  TlbCoherent
  OnlyHeldTranslates
  TableFramesAccounted
  IdentityIntact
PROPERTY
  CallsReturn
