SPECIFICATION MutexSpec
CONSTANTS
  PCB_SIZE = 4
  INIT_PRIORITY = 0
  MaxPriority = 0
  Stacks = {s1, s2, s3, s4}
  NoStack = NoStack
  NSEM = 2
  SEM_MOD = 3
  MaxUnits = 2
  NoWait = NoWait
SYMMETRY StackSymmetry
INVARIANTS
  SemTypeOK
  OneExecuting
  NoLostWakeup
PROPERTIES
  InitSets
