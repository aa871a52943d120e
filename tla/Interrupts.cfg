SPECIFICATION MCSpec
CONSTANTS NTasks = 2 Faults = {} Aborts = {} Depth = 44
          SCHED_QUANTUM = 3
          Firmwares <- MCFirmwares Chips = {1, 2, 3} MaxPin = 1 Limit = 2
          Irqs = {1, 2, 3} Vectors = {33, 34} Dests = {0, 1}
INVARIANTS RegistersSurvive SelectorsAndFrames ReportsTrue NeverResets DeadlineAlive RoutedAsAsked
PROPERTIES DevicesGoOn NeverHalfOpen
CHECK_DEADLOCK FALSE
