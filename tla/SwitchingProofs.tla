-------------------------- MODULE SwitchingProofs --------------------------
(***************************************************************************)
(* Proofs about Switching, for any number of tasks, any quantum and any    *)
(* set of readers, as long as no SCHED_QUANTUM-th tick falls into the      *)
(* window of boot's task_enter (QuietSpec).                                *)
(***************************************************************************)
EXTENDS Switching, TLAPS

\* Time for a leaf, in seconds.
USE SMTT(40), ZenonT(40)

USE TasksAssumption, ReadersAssumption, QuantumAssumption, StepsAssumption

\* Ring 3, or a system call made from there that has not returned.
OnUser == phase \in {"run", "spin"}

\* The stacks on which task t may be interrupted: its own, the one boot left in
\* tss.rsp0, and those that task_enter leaves there, of tasks that have exited.
OwnStack(t) == {t, MainStack} \cup {s \in Task : state[s] = "DEAD"}

\* current_task points into the run queue.
CurrentQueued == current = NULL \/ current \in RR!Queued

\* What boot has done so far.
BootInv ==
  phase \in BootPhase =>
    /\ rsp0 = MainStack
    /\ \A t \in Task : state[t] # "DEAD" /\ done[t] = 0
    /\ \A t \in made : ctx[t] = t /\ frame[t] = [task |-> t, step |-> 0]
    /\ RR!Queued \subseteq made
    /\ phase = "add" /\ k > 1 => 1 \in RR!Queued
    /\ phase \in {"enter", "entering"} => 1 \in RR!Queued
    /\ phase = "entering" => current = 1

\* The processor, the saved contexts and the stacks once boot is over.
RunInv ==
  OnUser =>
    /\ current \in Task /\ Live(current)
    /\ cr3 = current
    /\ regs = [task |-> current, step |-> done[current]]
    /\ rsp0 \in OwnStack(current)
    /\ \A t \in Task : Live(t) /\ t # current =>
         /\ ctx[t] \in OwnStack(t)
         /\ ctx[t] # rsp0
         /\ frame[ctx[t]] = [task |-> t, step |-> done[t]]

\* The inductive invariant.
IInv == TypeOK /\ CurrentQueued /\ BootInv /\ RunInv
-----------------------------------------------------------------------------
(* The scheduler. *)

\* scheduler_next returns a task of the ring that has not exited.
LEMMA NextIsQueued ==
  ASSUME TypeOK, CurrentQueued,
         NEW st \in [Task -> RR!TaskState],
         NEW n \in Task, RR!SchedulerNext(st, n)
  PROVE  n \in RR!Queued /\ RR!Runnable(st, n)
<1>1. PICK d \in 0 .. (Len(queue) - 1) : n = RR!Visited(d) /\ RR!Runnable(st, n)
  BY DEF RR!SchedulerNext, Task, NULL, RR!NULL
<1>2. Len(queue) \in Nat \ {0} /\ DOMAIN queue = 1 .. Len(queue)
  BY <1>1 DEF TypeOK
<1>3. RR!StartIndex \in Int
  <2>1. CASE current = NULL
    BY <2>1 DEF RR!StartIndex, NULL, RR!NULL
  <2>2. CASE current # NULL
    <3>1. \E i \in DOMAIN queue : queue[i] = current
      BY <2>2 DEF CurrentQueued, RR!Queued
    <3>2. (CHOOSE i \in DOMAIN queue : queue[i] = current) \in Nat
      BY <3>1, <1>2
    <3> QED
      BY <2>2, <3>2, <1>2 DEF RR!StartIndex, NULL, RR!NULL
  <2> QED
    BY <2>1, <2>2
<1>4. ((RR!StartIndex + d - 1) % Len(queue)) + 1 \in DOMAIN queue
  BY <1>2, <1>3
<1> QED
  BY <1>1, <1>4 DEF RR!Queued, RR!Visited

\* What a timer tick may do to the scheduler: current_task stays as it is or
\* becomes a live task of the ring, and nobody dies or comes back to life.
LEMMA HandlerFacts ==
  ASSUME TypeOK, CurrentQueued, TimerHandler
  PROVE  /\ ticks' \in 0 .. (Quantum - 1)
         /\ queue' = queue
         /\ state' \in [Task -> RR!TaskState]
         /\ \A t \in Task : state'[t] = "DEAD" <=> state[t] = "DEAD"
         /\ \/ current' = current
            \/ current' \in Task /\ Live(current')
<1>1. ticks' \in 0 .. (Quantum - 1) /\ queue' = queue
  BY DEF TimerHandler, TypeOK
<1>2. CASE ~ScheduleTick
  BY <1>1, <1>2 DEF TimerHandler, TypeOK
<1>3. CASE ScheduleTick
  <2>1. PICK n \in Task \cup {NULL} :
          /\ RR!SchedulerNext(state, n)
          /\ IF n = NULL \/ n = current
             THEN UNCHANGED <<state, current>>
             ELSE /\ current' = n
                  /\ state' = [t \in Task |->
                       IF t = n THEN "RUNNING"
                       ELSE IF t = current /\ state[t] = "RUNNING" THEN "READY"
                       ELSE state[t]]
    BY <1>3 DEF TimerHandler, RR!Schedule, RR!Task, Task, RR!NULL, NULL
  <2>2. CASE n = NULL \/ n = current
    BY <1>1, <2>1, <2>2 DEF TypeOK
  <2>3. CASE ~(n = NULL \/ n = current)
    <3>1. n \in Task /\ n \in RR!Queued /\ RR!Runnable(state, n)
      BY <2>1, <2>3, NextIsQueued DEF TypeOK
    <3>2. state' \in [Task -> RR!TaskState]
      BY <2>1, <2>3 DEF TypeOK, RR!TaskState
    <3>3. \A t \in Task : state'[t] = "DEAD" <=> state[t] = "DEAD"
      BY <2>1, <2>3, <3>1 DEF TypeOK, RR!TaskState, RR!Runnable
    <3> QED
      BY <1>1, <2>1, <2>3, <3>1, <3>2, <3>3 DEF Live
  <2> QED
    BY <2>2, <2>3
<1> QED
  BY <1>2, <1>3
-----------------------------------------------------------------------------
(* The inductive invariant. *)

\* The state in which scheduler_init leaves boot satisfies the invariant.
LEMMA InitIInv == Init => IInv
<1> SUFFICES ASSUME Init PROVE IInv
  OBVIOUS
<1> USE DEF Init, RR!Init, Task, RR!Task, NULL, RR!NULL
<1>1. TypeOK
  BY DEF TypeOK, RR!TaskState, Phase, BootPhase, Stack, MainStack, Context, Junk
<1>2. RR!Queued = {}
  BY DEF RR!Queued
<1>3. BootInv
  BY <1>1, <1>2 DEF BootInv, TypeOK
<1>4. RunInv /\ CurrentQueued
  BY DEF RunInv, OnUser, CurrentQueued
<1> QED
  BY <1>1, <1>3, <1>4 DEF IInv

\* Boot, one task at a time.
LEMMA CreateStep == IInv /\ CreateTask => IInv'
<1> SUFFICES ASSUME IInv, CreateTask PROVE IInv'
  OBVIOUS
<1> USE DEF IInv, CreateTask, Advance, schedVars, cpuVars, memVars
<1>1. TypeOK'
  <2>1. k \in Task /\ k \in Stack /\ 0 \in 0 .. MaxSteps
    BY DEF TypeOK, Stack
  <2>4. [task |-> k, step |-> 0] \in Context
    BY <2>1 DEF Context
  <2>2. made' \subseteq Task /\ ctx' \in [Task -> Stack] /\ frame' \in [Stack -> Context]
    <3>1. CASE UNCHANGED <<made, memVars>>
      BY <3>1 DEF TypeOK
    <3>2. CASE /\ made' = made \cup {k}
               /\ ctx' = [ctx EXCEPT ![k] = k]
               /\ frame' = [frame EXCEPT ![k] = [task |-> k, step |-> 0]]
      BY <2>1, <2>4, <3>2 DEF TypeOK
    <3> QED
      BY <3>1, <3>2
  <2>3. k' \in Task /\ phase' \in Phase
    BY DEF TypeOK, Phase, BootPhase, Task
  <2> QED
    BY <2>2, <2>3 DEF TypeOK
<1>2. RR!Queued' = RR!Queued
  BY DEF RR!Queued
<1>3. CurrentQueued'
  BY <1>2 DEF CurrentQueued
<1>4. BootInv'
  BY <1>1, <1>2 DEF BootInv, TypeOK, BootPhase, Stack, Task
<1>5. RunInv'
  BY DEF RunInv, OnUser
<1> QED
  BY <1>1, <1>3, <1>4, <1>5

\* Boot appends a task it has created, whose first context is in place.
LEMMA AddStep == IInv /\ AddTask => IInv'
<1> SUFFICES ASSUME IInv, AddTask PROVE IInv'
  OBVIOUS
<1> USE DEF IInv, AddTask, RR!Add, Advance, cpuVars, memVars
<1>1. k \in Task /\ queue \in Seq(Task)
  BY DEF TypeOK
<1>2. TypeOK'
  BY <1>1 DEF TypeOK, Phase, BootPhase, Task, RR!TaskState
<1>3. RR!Queued' = RR!Queued \cup {k}
  BY <1>1 DEF RR!Queued
<1>4. CurrentQueued'
  BY <1>3 DEF CurrentQueued
<1>5. BootInv'
  BY <1>1, <1>2, <1>3 DEF BootInv, TypeOK, BootPhase, Task
<1>6. RunInv'
  BY DEF RunInv, OnUser
<1> QED
  BY <1>2, <1>4, <1>5, <1>6

\* A halted machine runs no task, so only what does not depend on phase is claimed.
LEMMA HaltStep == IInv /\ (AddNull \/ UserFault) => IInv'
<1> SUFFICES ASSUME IInv, AddNull \/ UserFault PROVE IInv'
  OBVIOUS
<1> USE DEF IInv, AddNull, UserFault, schedVars, cpuVars, memVars
<1>1. TypeOK'
  BY DEF TypeOK, Phase
<1>2. CurrentQueued' /\ BootInv' /\ RunInv'
  BY DEF CurrentQueued, RR!Queued, BootInv, BootPhase, RunInv, OnUser
<1> QED
  BY <1>1, <1>2

\* Boot makes t1 the current task while it is still in the kernel.
LEMMA TaskEnterStep == IInv /\ TaskEnter => IInv'
<1> SUFFICES ASSUME IInv, TaskEnter PROVE IInv'
  OBVIOUS
<1> USE DEF IInv, TaskEnter, cpuVars, memVars
<1>1. TypeOK'
  BY DEF TypeOK, Phase, BootPhase, Task
<1>2. RR!Queued' = RR!Queued
  BY DEF RR!Queued
<1>3. CurrentQueued' /\ BootInv' /\ RunInv'
  BY <1>2 DEF CurrentQueued, BootInv, BootPhase, RunInv, OnUser
<1> QED
  BY <1>1, <1>3

\* The first ring 3 instruction: t1's registers are the ones boot built, and all
\* contexts lie on their own stacks, none on kernel_main_stack.
LEMMA EnterUserStep == IInv /\ EnterUser => IInv'
<1> SUFFICES ASSUME IInv, EnterUser PROVE IInv'
  OBVIOUS
<1> USE DEF IInv, EnterUser, schedVars, memVars
<1>1. 1 \in Task /\ 1 \in RR!Queued /\ current = 1 /\ rsp0 = MainStack
  BY DEF BootInv, BootPhase, Task
<1>2. \A t \in RR!Queued : ctx[t] = t /\ frame[t] = [task |-> t, step |-> 0]
  BY ZenonT(40) DEF BootInv, BootPhase
<1>3. \A t \in Task : done[t] = 0 /\ state[t] # "DEAD"
  BY DEF BootInv, BootPhase
<1>4. TypeOK'
  BY <1>1 DEF TypeOK, Phase, Task, Stack
<1>5. RR!Queued' = RR!Queued /\ CurrentQueued'
  BY DEF RR!Queued, CurrentQueued
<1>6. \A t \in Task : Live(t)' = Live(t)
  BY <1>5 DEF Live, RR!Runnable
<1>7. RunInv'
  <2>1. Live(1)
    BY <1>1, <1>3 DEF Live, RR!Runnable, TypeOK, RR!TaskState
  <2>2. \A t \in Task : Live(t) => t \in RR!Queued /\ t # MainStack
    BY DEF Live, Task, MainStack
  <2> QED
    BY <1>1, <1>2, <1>3, <1>6, <2>1, <2>2 DEF RunInv, OnUser, OwnStack, TypeOK
<1> QED
  BY <1>4, <1>5, <1>7 DEF BootInv, BootPhase
\* A tick in the kernel moves current_task around, and nothing else.
LEMMA TimerKernelStep == IInv /\ TimerKernel => IInv'
<1> SUFFICES ASSUME IInv, TimerKernel PROVE IInv'
  OBVIOUS
<1> USE DEF IInv, TimerKernel, cpuVars, memVars
<1>1. /\ ticks' \in 0 .. (Quantum - 1)
      /\ queue' = queue
      /\ state' \in [Task -> RR!TaskState]
      /\ \A t \in Task : state'[t] = "DEAD" <=> state[t] = "DEAD"
      /\ \/ current' = current
         \/ current' \in Task /\ Live(current')
  BY HandlerFacts
<1>2. TypeOK'
  BY <1>1 DEF TypeOK
<1>3. RR!Queued' = RR!Queued
  BY <1>1 DEF RR!Queued
<1>4. CurrentQueued'
  BY <1>1, <1>3 DEF CurrentQueued, Live
<1>5. phase = "entering" => current' = current
  BY DEF TimerHandler
<1>6. BootInv'
  BY <1>1, <1>3, <1>5 DEF BootInv
<1>7. RunInv'
  BY DEF RunInv, OnUser, BootPhase
<1> QED
  BY <1>2, <1>4, <1>6, <1>7

\* The context switch.  The context saved at tss.rsp0 overwrites nobody's, since
\* no other live task's context is there, and the new tss.rsp0 is the stack of a
\* live task, on which only that task's own context can be.
LEMMA TimerUserStep == IInv /\ TimerUser => IInv'
<1> SUFFICES ASSUME IInv, TimerUser PROVE IInv'
  OBVIOUS
<1> USE DEF IInv, TimerUser, SaveContext, SwitchSpace, SwitchStack
<1>1. /\ ticks' \in 0 .. (Quantum - 1)
      /\ queue' = queue
      /\ state' \in [Task -> RR!TaskState]
      /\ \A t \in Task : state'[t] = "DEAD" <=> state[t] = "DEAD"
      /\ \/ current' = current
         \/ current' \in Task /\ Live(current')
  BY HandlerFacts
<1>2. /\ current \in Task /\ Live(current)
      /\ regs = [task |-> current, step |-> done[current]]
      /\ rsp0 \in OwnStack(current)
      /\ \A t \in Task : Live(t) /\ t # current =>
           /\ ctx[t] \in OwnStack(t)
           /\ ctx[t] # rsp0
           /\ frame[ctx[t]] = [task |-> t, step |-> done[t]]
  BY DEF RunInv, OnUser
<1>3. current' \in Task /\ Live(current')
  BY <1>1, <1>2
<1>4. RR!Queued' = RR!Queued
  BY <1>1 DEF RR!Queued
<1>5. \A t \in Task : Live(t)' <=> Live(t)
  BY <1>1, <1>4, ZenonT(40) DEF Live, RR!Runnable, TypeOK, RR!TaskState
<1>6. \A t \in Task : OwnStack(t)' = OwnStack(t)
  BY <1>1 DEF OwnStack
<1>7. TypeOK'
  <2>1. rsp0' \in Stack /\ cr3' \in {NULL} \cup Task /\ current' \in {NULL} \cup Task
    BY <1>3 DEF Stack
  <2>2. ctx' \in [Task -> Stack] /\ frame' \in [Stack -> Context]
    BY ZenonT(40) DEF TypeOK
  <2>3. regs' \in Context
    BY <1>3, <2>2
  <2> QED
    BY <1>1, <2>1, <2>2, <2>3 DEF TypeOK
<1>8. ctx' = [ctx EXCEPT ![current] = rsp0] /\ frame' = [frame EXCEPT ![rsp0] = regs]
  OBVIOUS
<1>9. \A t \in Task : Live(t) =>
        /\ ctx'[t] \in OwnStack(t)
        /\ frame'[ctx'[t]] = [task |-> t, step |-> done[t]]
  <2> SUFFICES ASSUME NEW t \in Task, Live(t)
               PROVE  /\ ctx'[t] \in OwnStack(t)
                      /\ frame'[ctx'[t]] = [task |-> t, step |-> done[t]]
    OBVIOUS
  <2>1. CASE t = current
    BY <1>2, <1>8, <2>1 DEF TypeOK
  <2>2. CASE t # current
    BY <1>2, <1>8, <2>2 DEF TypeOK
  <2> QED
    BY <2>1, <2>2
<1>10. \A t \in Task : Live(t) /\ t # current' => ctx'[t] # current'
  <2>1. current' # MainStack /\ state[current'] # "DEAD"
    BY <1>3 DEF Live, RR!Runnable, Task, MainStack
  <2> QED
    BY <1>9, <2>1, ZenonT(40) DEF OwnStack
<1>11. RunInv'
  <2>1. current' \in OwnStack(current')
    BY DEF OwnStack
  <2> QED
    BY <1>3, <1>5, <1>6, <1>9, <1>10, <2>1 DEF RunInv, OnUser
<1>12. CurrentQueued' /\ BootInv'
  BY <1>3, <1>4 DEF CurrentQueued, Live, BootInv, BootPhase
<1> QED
  BY <1>7, <1>11, <1>12

\* A program moves its own registers and its own count together.
LEMMA UserStepStep == IInv /\ UserStep => IInv'
<1> SUFFICES ASSUME IInv, UserStep PROVE IInv'
  OBVIOUS
<1> USE DEF IInv, UserStep, schedVars, memVars
<1>1. /\ current \in Task
      /\ regs = [task |-> current, step |-> done[current]]
  BY DEF RunInv, OnUser
<1>2. /\ done' = [done EXCEPT ![current] = done[current] + 1]
      /\ regs' = [task |-> current, step |-> done[current] + 1]
      /\ done[current] \in 0 .. MaxSteps /\ done[current] < MaxSteps
  BY <1>1 DEF TypeOK
<1>3. TypeOK'
  <2>1. regs' \in Context
    BY <1>1, <1>2 DEF Context
  <2> QED
    BY <1>1, <1>2, <2>1 DEF TypeOK
<1>4. RR!Queued' = RR!Queued
  BY DEF RR!Queued
<1>5. \A t \in Task : (Live(t)' <=> Live(t)) /\ OwnStack(t)' = OwnStack(t)
  BY <1>4 DEF Live, RR!Runnable, OwnStack
<1>6. RunInv'
  BY <1>1, <1>2, <1>5 DEF RunInv, OnUser, TypeOK
<1>7. CurrentQueued' /\ BootInv'
  BY <1>4 DEF CurrentQueued, BootInv, BootPhase
<1> QED
  BY <1>3, <1>6, <1>7
\* A system call that returns, one that never does, and a keyboard interrupt all
\* write at tss.rsp0, where no other live task's context is.
LEMMA KernelVisitStep == IInv /\ (Syscall \/ ReadSpins \/ KeyboardUser) => IInv'
<1> SUFFICES ASSUME IInv, Syscall \/ ReadSpins \/ KeyboardUser PROVE IInv'
  OBVIOUS
<1> USE DEF IInv
<1>1. /\ phase = "run" /\ phase' \in {"run", "spin"}
      /\ UNCHANGED <<queue, state, current, k, made, ticks, rsp0, cr3, regs, ctx, done>>
      /\ \E c \in Context : frame' = [frame EXCEPT ![rsp0] = c]
  <2>1. Junk \in Context /\ regs \in Context
    BY DEF Junk, Context, TypeOK
  <2> QED
    BY <2>1 DEF Syscall, ReadSpins, KeyboardUser, PushAtRsp0, schedVars, cpuVars
<1>2. frame' \in [Stack -> Context]
  BY <1>1 DEF TypeOK
<1>3. TypeOK'
  BY <1>1, <1>2 DEF TypeOK, Phase
<1>4. RR!Queued' = RR!Queued
  BY <1>1 DEF RR!Queued
<1>5. \A t \in Task : (Live(t)' <=> Live(t)) /\ OwnStack(t)' = OwnStack(t)
  BY <1>1, <1>4 DEF Live, RR!Runnable, OwnStack
<1>6. RunInv'
  BY <1>1, <1>5 DEF RunInv, OnUser, TypeOK
<1>7. CurrentQueued' /\ BootInv'
  BY <1>1, <1>4 DEF CurrentQueued, BootInv, BootPhase
<1> QED
  BY <1>3, <1>6, <1>7

\* An exit keeps tss.rsp0, which now points to the stack of a dead task (or still
\* to kernel_main_stack): the next task runs there without touching the others.
LEMMA ExitStep == IInv /\ Exit => IInv'
<1> SUFFICES ASSUME IInv, Exit PROVE IInv'
  OBVIOUS
<1> USE DEF IInv
<1>1. /\ current \in Task /\ Live(current)
      /\ rsp0 \in OwnStack(current)
      /\ \A t \in Task : Live(t) /\ t # current =>
           /\ ctx[t] \in OwnStack(t)
           /\ ctx[t] # rsp0
           /\ frame[ctx[t]] = [task |-> t, step |-> done[t]]
  BY DEF RunInv, OnUser, Exit
<1>2. /\ state' = [state EXCEPT ![current] = "DEAD"]
      /\ frame' = [frame EXCEPT ![rsp0] = Junk]
      /\ UNCHANGED <<queue, k, made, ticks, rsp0, ctx, done>>
  BY DEF Exit, SwitchSpace, PushAtRsp0
<1>3. state' \in [Task -> RR!TaskState] /\ frame' \in [Stack -> Context]
  <2>1. "DEAD" \in RR!TaskState /\ Junk \in Context
    BY DEF RR!TaskState, Junk, Context
  <2> QED
    BY <1>2, <2>1, ZenonT(40) DEF TypeOK
<1>4. PICK n \in {NULL} \cup Task :
        /\ RR!SchedulerNext(state', n)
        /\ IF n = NULL
           THEN phase' = "halted" /\ UNCHANGED <<current, cr3, regs>>
           ELSE /\ current' = n
                /\ cr3' = n
                /\ regs' = frame'[ctx[n]]
                /\ UNCHANGED phase
  BY DEF Exit, SwitchSpace
<1>5. RR!Queued' = RR!Queued
  BY <1>2 DEF RR!Queued
<1>6. CASE n = NULL
  <2>1. TypeOK'
    BY <1>2, <1>3, <1>4, <1>6 DEF TypeOK, Phase
  <2>2. CurrentQueued' /\ BootInv' /\ RunInv'
    BY <1>4, <1>5, <1>6 DEF CurrentQueued, BootInv, BootPhase, RunInv, OnUser
  <2> QED
    BY <2>1, <2>2
<1>7. CASE n # NULL
  <2>1. n \in Task /\ n \in RR!Queued /\ RR!Runnable(state', n)
    BY <1>3, <1>4, <1>7, NextIsQueued
  <2>2. phase = "run" /\ phase' = "run" /\ current' = n /\ cr3' = n /\ regs' = frame'[ctx[n]]
    BY <1>4, <1>7 DEF Exit, SwitchSpace
  <2>3. TypeOK'
    <3>1. regs' \in Context
      BY <1>3, <2>1, <2>2 DEF TypeOK
    <3> QED
      BY <1>2, <1>3, <2>1, <2>2, <3>1 DEF TypeOK
  <2>4. \A t \in Task : Live(t)' => Live(t) /\ t # current
    BY <1>1, <1>2, <1>5 DEF Live, RR!Runnable, TypeOK
  <2>5. Live(n)'
    BY <1>5, <2>1 DEF Live, RR!Runnable
  <2>6. \A t \in Task : OwnStack(t) \subseteq OwnStack(t)'
    BY <1>1, <1>2 DEF OwnStack, TypeOK
  <2>7. rsp0' \in OwnStack(n)'
    BY <1>1, <1>2 DEF OwnStack, TypeOK
  <2>8. \A t \in Task : Live(t)' =>
          /\ ctx'[t] \in OwnStack(t)'
          /\ ctx'[t] # rsp0'
          /\ frame'[ctx'[t]] = [task |-> t, step |-> done'[t]]
    BY <1>1, <1>2, <2>4, <2>6 DEF TypeOK
  <2>9. RunInv'
    BY <1>2, <2>1, <2>2, <2>5, <2>7, <2>8 DEF RunInv, OnUser
  <2>10. CurrentQueued' /\ BootInv'
    BY <1>5, <2>1, <2>2 DEF CurrentQueued, BootInv, BootPhase
  <2> QED
    BY <2>3, <2>9, <2>10
<1> QED
  BY <1>6, <1>7

\* A step that changes no variable preserves the invariant.
LEMMA StutterStep == IInv /\ UNCHANGED vars => IInv'
<1> SUFFICES ASSUME IInv, UNCHANGED vars PROVE IInv'
  OBVIOUS
<1> USE DEF vars, schedVars, cpuVars, memVars
<1>1. RR!Queued' = RR!Queued /\ \A t \in Task : (Live(t)' <=> Live(t)) /\ OwnStack(t)' = OwnStack(t)
  BY DEF RR!Queued, Live, RR!Runnable, OwnStack
<1>2. TypeOK'
  BY DEF IInv, TypeOK
<1> QED
  BY <1>1, <1>2 DEF IInv, CurrentQueued, BootInv, RunInv, OnUser

\* IInv is an invariant of the system without the entry race.
THEOREM Invariance == QuietSpec => []IInv
<1>1. IInv /\ [QuietNext]_vars => IInv'
  BY CreateStep, AddStep, HaltStep, TaskEnterStep, EnterUserStep, TimerKernelStep,
     TimerUserStep, UserStepStep, KernelVisitStep, ExitStep, StutterStep
     DEF QuietNext, Boot, Timer, User
<1> QED
  BY InitIInv, <1>1, PTL DEF QuietSpec

\* Every variable of the context switch keeps its type.
THEOREM TypeCorrect == QuietSpec => []TypeOK
<1>1. IInv => TypeOK
  BY DEF IInv
<1> QED
  BY Invariance, <1>1, PTL

\* In boot, in ring 3 and in a system call that never returns, every live task
\* continues from its own registers, exactly as it left them.
THEOREM ContextsIntact == QuietSpec => []ContextIntegrity
<1>1. IInv => ContextIntegrity
  <2> SUFFICES ASSUME IInv, phase # "halted", NEW t \in Task, Live(t)
               PROVE  ContextOf(t) = [task |-> t, step |-> done[t]]
    BY DEF ContextIntegrity
  <2>1. CASE phase \in BootPhase
    BY <2>1 DEF IInv, BootInv, BootPhase, Live, ContextOf
  <2>2. CASE OnUser
    BY <2>2 DEF IInv, RunInv, OnUser, ContextOf
  <2> QED
    BY <2>1, <2>2 DEF IInv, TypeOK, Phase, OnUser
<1> QED
  BY Invariance, <1>1, PTL

\* In ring 3, registers, page tables and current_task agree on one live task.
THEOREM OneTask == QuietSpec => []OneTaskOnCpu
<1>1. IInv => OneTaskOnCpu
  BY DEF IInv, RunInv, OnUser, OneTaskOnCpu
<1> QED
  BY Invariance, <1>1, PTL

\* What is pushed at tss.rsp0 overwrites no live task's saved context.
THEOREM StacksPrivate == QuietSpec => []KernelStackPrivate
<1>1. IInv => KernelStackPrivate
  BY ZenonT(40) DEF IInv, RunInv, OnUser, KernelStackPrivate
<1> QED
  BY Invariance, <1>1, PTL
-----------------------------------------------------------------------------
(* Steps. *)

\* The tasks' states change in four actions only: boot's, the two timer actions
\* and the exit.
LEMMA StateChanges ==
  ASSUME QuietNext
  PROVE  AddTask \/ TimerKernel \/ TimerUser \/ Exit \/ state' = state
BY DEF QuietNext, Boot, Timer, User, CreateTask, AddNull, TaskEnter, EnterUser,
       UserStep, Syscall, ReadSpins, KeyboardUser, UserFault, schedVars

\* An exited task is never revived, scheduled or entered.
THEOREM ExitsFinal == QuietSpec => ExitIsFinal
<1> DEFINE Final == \A t \in Task : state[t] = "DEAD" =>
                      state'[t] = "DEAD" /\ (phase' = "run" => current' # t)
<1>1. IInv /\ IInv' /\ [QuietNext]_vars => [Final]_vars
  <2> SUFFICES ASSUME IInv, IInv', QuietNext, NEW t \in Task, state[t] = "DEAD"
               PROVE  state'[t] = "DEAD" /\ (phase' = "run" => current' # t)
    OBVIOUS
  <2>1. state'[t] = "DEAD"
    <3>1. CASE AddTask
      BY <3>1 DEF AddTask, IInv, BootInv, BootPhase
    <3>2. CASE TimerKernel \/ TimerUser
      BY <3>2, HandlerFacts DEF TimerKernel, TimerUser, IInv
    <3>3. CASE Exit
      BY <3>3 DEF Exit, IInv, TypeOK
    <3> QED
      BY <3>1, <3>2, <3>3, StateChanges
  <2>2. phase' = "run" => RR!Runnable(state', current')
    BY DEF IInv, RunInv, OnUser, Live, RR!Runnable
  <2> QED
    BY <2>1, <2>2 DEF RR!Runnable
<1> QED
  BY Invariance, <1>1, PTL DEF QuietSpec, ExitIsFinal

\* Boot, timer interrupts and exits together implement the round-robin
\* scheduler: every other step leaves queue, states and current_task alone.
THEOREM RefinesRoundRobin == QuietSpec => ImplementsRoundRobin
<1>1. Init => RR!Init
  BY DEF Init
<1>2. IInv /\ [QuietNext]_vars => [RR!Next]_RR!rrVars
  <2> SUFFICES ASSUME IInv, QuietNext, ~UNCHANGED RR!rrVars PROVE RR!Next
    BY DEF vars, schedVars, RR!rrVars
  <2> USE DEF IInv, RR!Next, RR!Task, Task, RR!NULL, NULL
  <2>1. CASE AddTask
    BY <2>1 DEF AddTask, TypeOK
  <2>2. CASE TimerKernel \/ TimerUser
    BY <2>2 DEF TimerKernel, TimerUser, TimerHandler, RR!Preempt, RR!rrVars
  <2>3. CASE TaskEnter
    <3>1. 1 \in RR!Queued /\ RR!Runnable(state, 1)
      BY <2>3 DEF TaskEnter, BootInv, BootPhase, RR!Runnable, TypeOK, RR!TaskState
    <3> QED
      BY <2>3, <3>1 DEF TaskEnter, RR!Enter
  <2>4. CASE Exit
    <3>1. current # NULL /\ RR!Runnable(state, current)
      BY <2>4 DEF Exit, RunInv, OnUser, Live
    <3>2. \E n \in Task \cup {NULL} :
            /\ RR!SchedulerNext(state', n)
            /\ current' = IF n = NULL THEN current ELSE n
      BY <2>4 DEF Exit
    <3> QED
      BY <2>4, <3>1, <3>2 DEF Exit, RR!Exit
  <2> QED
    BY <2>1, <2>2, <2>3, <2>4
       DEF QuietNext, Boot, Timer, User, CreateTask, AddNull, EnterUser, UserStep,
           Syscall, ReadSpins, KeyboardUser, UserFault, schedVars, RR!rrVars
<1> QED
  BY Invariance, <1>1, <1>2, PTL DEF QuietSpec, ImplementsRoundRobin, RR!Spec
=============================================================================
