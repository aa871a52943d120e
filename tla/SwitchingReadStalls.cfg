SPECIFICATION FairSpec
CONSTANTS
  NTasks = 3
  Readers = {2}
  Quantum = 2
  MaxSteps = 1
CHECK_DEADLOCK FALSE
PROPERTY NoStarvation
