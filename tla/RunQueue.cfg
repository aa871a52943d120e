SPECIFICATION Spec
CONSTANTS NTasks = 4 Quantum = 3
INVARIANTS QueueNeverFollowsNull QueueBoundedWait
PROPERTY QueueImplementsRoundRobin
CHECK_DEADLOCK FALSE
