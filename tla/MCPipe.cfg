SPECIFICATION Spec
CONSTANTS
  PIPE_SIZE = 3
  Char = {a, b}
  NoChar = NoChar
  MaxChars = 4
INVARIANTS
  RingOK
PROPERTIES
  ImplementsFifo
  StepIsLoop
