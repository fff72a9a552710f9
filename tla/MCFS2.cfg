\* Directories of up to four entries, two blocks of inodes in one-block
\* regions, a volume that never fills.
SPECIFICATION Spec
CONSTANTS
  BLOCK_NUM = 26
  NBLOCKS = 24
  IREG = 1
  FREG = 1
  DREG = 2
  IPB = 2
  DPB = 5
  UNL = 4
  NREG = 2
  HREG = 4
  NAME_LEN = 2
  MkPaths <- Edges
  RmPaths <- Deep
  LookPaths <- Look
  LsRooms <- Rooms
  MaxInodes = 4
INVARIANTS CacheSaved RegionsDisjoint LinkedOnce CreateAtomic
PROPERTIES ImplementsTree NothingReused
