SPECIFICATION Spec
CONSTANTS
  NTasks = 3
  Readers = {}
  Quantum = 2
  MaxSteps = 1
CHECK_DEADLOCK FALSE
INVARIANT NoWorkRepeated
