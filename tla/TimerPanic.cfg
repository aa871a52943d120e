SPECIFICATION TimerSpec
CONSTANT SCHED_QUANTUM = 3
INVARIANT TicksDoNotPanic
