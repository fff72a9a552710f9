SPECIFICATION FairOrderlySpec
CONSTANTS
  PCB_SIZE = 3
  INIT_PRIORITY = 1
  MaxPriority = 1
  Stacks = {s1, s2, s3}
  NoStack = NoStack
INVARIANTS
  TypeOK
  OneExecuting
  PidIsIndex
  StackOwnership
PROPERTIES
  NoOvertaking
  RunnableRuns
CHECK_DEADLOCK FALSE
