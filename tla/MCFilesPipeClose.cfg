SPECIFICATION CloseSpec
CONSTANTS
  PCB_SIZE = 2
  INIT_PRIORITY = 0
  MaxPriority = 0
  Stacks = {s1, s2}
  NoStack = NoStack
  NFD = 4
  NFT = 6
  NPIPE = 1
  NSTD = 1
  MaxLost = 1
  NULL = NULL
SYMMETRY StackSymmetry
CHECK_DEADLOCK FALSE
INVARIANTS
  NoFreedEntry
