SPECIFICATION FilesSpec
CONSTANTS
  PCB_SIZE = 2
  INIT_PRIORITY = 0
  MaxPriority = 0
  Stacks = {s1, s2}
  NoStack = NoStack
  NFD = 2
  NFT = 4
  NPIPE = 1
  NSTD = 1
  MaxLost = 2
  NULL = NULL
SYMMETRY StackSymmetry
CHECK_DEADLOCK FALSE
INVARIANTS
  FilesTypeOK
  RefCounts
  NoFreedEntry
  EndsLinked
