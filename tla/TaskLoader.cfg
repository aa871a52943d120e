SPECIFICATION Spec
CONSTANTS NFrames = 29 Span = 2 MaxTasks = 3
          USER_STACK_VADDR = 4 USER_STACK_PAGES = 2 KSTACK_PAGES = 2
          Among <- MCAmong UserPages <- MCUserPages Files <- MCFiles Memories <- MCMemories
INVARIANTS ImageIntact ProgramComplete
CHECK_DEADLOCK FALSE
