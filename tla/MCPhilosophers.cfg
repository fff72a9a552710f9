SPECIFICATION FairPhilSpec
CONSTANTS
  PCB_SIZE = 5
  INIT_PRIORITY = 1
  MaxPriority = 1
  Stacks = {s1, s2, s3, s4, s5}
  NoStack = NoStack
  NSEM = 4
  SEM_MOD = 3
  MaxUnits = 1
  NoWait = NoWait
  PHIL_COUNT = 4
INVARIANTS
  ForksConserved
  NotAllWaiting
PROPERTIES
  EveryoneEats
