SPECIFICATION Spec
CONSTANTS
  POOL_SIZE = 28
  HEADER = 4
  ALLOCATION_ALIGNMENT = 2
  SIZE_MAX = 63
  Owners = {o1, o2, o3}
  o1 = o1
  o2 = o2
  o3 = o3
  Sizes <- MCSizes
  Counts <- MCCounts
SYMMETRY
  OwnersSymmetry
INVARIANTS
  BlocksTilePool
  PayloadIntact
  UsedBlocksAreLive
  FreeCoalesces
