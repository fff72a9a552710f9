SPECIFICATION UnitsSpec
CONSTANTS
  PCB_SIZE = 3
  INIT_PRIORITY = 0
  MaxPriority = 0
  Stacks = {s1, s2, s3}
  NoStack = NoStack
  NSEM = 1
  SEM_MOD = 4
  MaxUnits = 2
  NoWait = NoWait
INVARIANTS
  NoLostWakeup
