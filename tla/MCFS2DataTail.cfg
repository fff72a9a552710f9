\* As MCFS2Data, with writes that end within a later block than they begin in.
SPECIFICATION AnyWriteSpec
CONSTANTS
  BLOCK_NUM = 10
  NBLOCKS = 8
  IREG = 1
  FREG = 1
  DREG = 2
  IPB = 4
  DPB = 5
  UNL = 4
  NREG = 2
  HREG = 4
  NAME_LEN = 2
  MkPaths <- TwoFiles
  RmPaths <- NoPaths
  LookPaths <- NoPaths
  LsRooms = {}
  MaxInodes = 3
  BLOCK_SZ = 2
  NFT = 2
  Files <- TwoFiles
  OpenFlags = {1, 6}
  Datas <- Tailed
  ReadLens = {3}
  MaxSize = 5
  NULL = NULL
  Unset = Unset
PROPERTIES ImplementsContents
