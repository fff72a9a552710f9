\* The session that formats the disk.
SPECIFICATION FirstBootSpec
CONSTANTS
  BLOCK_NUM = 26
  NBLOCKS = 24
  IREG = 1
  FREG = 1
  DREG = 2
  IPB = 4
  DPB = 5
  UNL = 4
  NREG = 2
  HREG = 4
  NAME_LEN = 2
  MkPaths <- Edges
  RmPaths <- Deep
  LookPaths <- Look
  LsRooms <- Rooms
  MaxInodes = 4
PROPERTIES ImplementsTree
