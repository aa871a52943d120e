SPECIFICATION FairSpec
CONSTANTS
  NTasks = 3
  Readers = {2}
  Quantum = 2
  MaxSteps = 2
CHECK_DEADLOCK FALSE
INVARIANTS ContextIntegrity OneTaskOnCpu KernelStackPrivate
PROPERTIES ExitIsFinal OnlyReadStarves ImplementsRoundRobin
