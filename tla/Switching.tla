----------------------------- MODULE Switching -----------------------------
(***************************************************************************)
(* How the processor moves between tasks: boot (the end of EstellaEntry),  *)
(* lapic_timer_isr, the system calls and task_enter, on one CPU.           *)
(*                                                                         *)
(* A register context is a record [task, step]: the program it belongs to  *)
(* and how far that program had got.  Every entry from ring 3 starts at    *)
(* tss.rsp0, and task_create_from_elf builds the first context at the same *)
(* place, so a saved context always lies at the top of some kernel stack:  *)
(* task->ctx is modelled by that stack and its memory by frame[stack].     *)
(*                                                                         *)
(* Handlers run with interrupts disabled (interrupt gates, and FMASK for   *)
(* syscall), so each is one step.  Boot runs with interrupts enabled.      *)
(***************************************************************************)
EXTENDS SchedulerConstants, Sequences

CONSTANTS Readers,   \* the tasks whose programs call read()
          MaxSteps   \* bound: how many steps of a program are counted

ASSUME ReadersAssumption == Readers \subseteq 1 .. NTasks
ASSUME StepsAssumption   == MaxSteps \in Nat

VARIABLES
  queue, state, current,  \* the scheduler's, see RoundRobin
  phase,   \* where the processor is, see Phase
  k,       \* the task boot is creating or adding
  made,    \* the tasks for which task_create_from_elf did not return NULL
  ticks,   \* lapic_ticks modulo SCHED_QUANTUM
  rsp0,    \* the stack tss.rsp0 points to the top of
  cr3,     \* the task whose page tables are loaded, or NULL for the kernel's
  regs,    \* the register context in the processor
  ctx,     \* task->ctx: the stack that holds the task's saved context
  frame,   \* the context at the top of each stack
  done     \* how many steps each program has taken (history)

schedVars == <<queue, state, current>>
cpuVars   == <<rsp0, cr3, regs>>
memVars   == <<ctx, frame>>
vars == <<schedVars, phase, k, made, ticks, cpuVars, memVars, done>>

RR == INSTANCE RoundRobin

Task == 1 .. NTasks
NULL == 0

MainStack == 0                   \* kernel_main_stack; stack t is task t's
Stack == {MainStack} \cup Task

Context == [task : {NULL} \cup Task, step : 0 .. MaxSteps]
Junk == [task |-> NULL, step |-> 0]   \* nobody's registers

BootPhase == {"create", "add", "enter", "entering"}
Phase == BootPhase \cup {"run", "spin", "halted"}

Live(t) == t \in RR!Queued /\ RR!Runnable(state, t)

\* After scheduler_init, with interrupts just enabled and gdt_init's rsp0.
Init ==
  /\ RR!Init
  /\ phase = "create" /\ k = 1 /\ made = {}
  /\ ticks = 0
  /\ rsp0 = MainStack /\ cr3 = NULL /\ regs = Junk
  /\ ctx = [t \in Task |-> t]
  /\ frame = [s \in Stack |-> Junk]
  /\ done = [t \in Task |-> 0]

\* The next task of a boot loop, or on to the next phase.
Advance(p) ==
  IF k < NTasks THEN k' = k + 1 /\ phase' = phase
                ELSE k' = 1 /\ phase' = p

\* task_create_from_elf: a first context on the task's own kernel stack, or NULL
\* when the ELF file does not load.
CreateTask ==
  /\ phase = "create"
  /\ \/ /\ made' = made \cup {k}
        /\ ctx' = [ctx EXCEPT ![k] = k]
        /\ frame' = [frame EXCEPT ![k] = [task |-> k, step |-> 0]]
     \/ UNCHANGED <<made, memVars>>
  /\ Advance("add")
  /\ UNCHANGED <<schedVars, ticks, cpuVars, done>>

\* Mutant: a task is linked in front of the others.
AddTaskInFront ==
  /\ phase = "add"
  /\ k \in made
  /\ queue' = <<k>> \o queue
  /\ state' = [state EXCEPT ![k] = "READY"]
  /\ Advance("enter")
  /\ UNCHANGED <<current, made, ticks, cpuVars, memVars, done>>

AddTask ==
  /\ phase = "add"
  /\ k \in made
  /\ RR!Add(k)
  /\ Advance("enter")
  /\ UNCHANGED <<made, ticks, cpuVars, memVars, done>>

\* scheduler_add_task(NULL) writes through the null pointer: a page fault, and
\* exception_handler halts.
AddNull ==
  /\ phase = "add"
  /\ k \notin made
  /\ phase' = "halted"
  /\ UNCHANGED <<schedVars, k, made, ticks, cpuVars, memVars, done>>

\* task_enter(t1) from boot, up to the store to current_task ...
TaskEnter ==
  /\ phase = "enter"
  /\ current' = 1
  /\ phase' = "entering"
  /\ UNCHANGED <<queue, state, k, made, ticks, cpuVars, memVars, done>>

\* ... and from there to the iretq: cr3, rsp and the registers are t1's.
EnterUser ==
  /\ phase = "entering"
  /\ cr3' = 1
  /\ regs' = frame[ctx[1]]
  /\ phase' = "run"
  /\ UNCHANGED <<schedVars, k, made, ticks, rsp0, memVars, done>>

\* lapic_timer_handler: every SCHED_QUANTUM-th tick calls schedule().
ScheduleTick == (ticks + 1) % Quantum = 0
TimerHandler ==
  /\ ticks' = (ticks + 1) % Quantum
  /\ IF ScheduleTick THEN RR!Schedule ELSE UNCHANGED <<state, current>>
  /\ UNCHANGED queue

\* lapic_timer_isr interrupting the kernel: the handler runs, nothing is
\* switched.  During boot this is all that keeps current_task company.
TimerKernel ==
  /\ phase \in BootPhase
  /\ phase = "entering" => ~ScheduleTick
  /\ TimerHandler
  /\ UNCHANGED <<phase, k, made, cpuVars, memVars, done>>

\* The same interrupt when it calls schedule() inside task_enter's window.  (It
\* pushes below rsp, where the slots of the context that is being restored have
\* already been popped.)
TimerDuringEntry ==
  /\ phase = "entering"
  /\ ScheduleTick
  /\ TimerHandler
  /\ UNCHANGED <<phase, k, made, cpuVars, memVars, done>>

\* Mutants: task->ctx keeps its first value; cr3, or tss.rsp0, is not switched.
SaveWithoutCtx == frame' = [frame EXCEPT ![rsp0] = regs] /\ UNCHANGED ctx
KeepSpace == UNCHANGED cr3
KeepStack == UNCHANGED rsp0

\* The parts of lapic_timer_isr: push the registers at tss.rsp0 and point
\* current_task->ctx there; load the page tables and the stack of what is
\* current_task after the handler.
SaveContext ==
  /\ frame' = [frame EXCEPT ![rsp0] = regs]
  /\ ctx' = [ctx EXCEPT ![current] = rsp0]
SwitchSpace == cr3' = current'
SwitchStack == rsp0' = current'

\* lapic_timer_isr interrupting ring 3: save into current_task, run the handler,
\* restore from what is then current_task.
TimerUser ==
  /\ phase = "run"
  /\ SaveContext
  /\ TimerHandler
  /\ SwitchSpace
  /\ SwitchStack
  /\ regs' = frame'[ctx'[current']]
  /\ UNCHANGED <<phase, k, made, done>>

\* A program runs on its own registers.
UserStep ==
  /\ phase = "run"
  /\ regs.task # NULL
  /\ regs.step < MaxSteps /\ done[regs.task] < MaxSteps
  /\ regs' = [regs EXCEPT !.step = @ + 1]
  /\ done' = [done EXCEPT ![regs.task] = @ + 1]
  /\ UNCHANGED <<schedVars, phase, k, made, ticks, rsp0, cr3, memVars>>

\* Whatever enters the kernel from ring 3 pushes from tss.rsp0 downwards.
PushAtRsp0(c) == frame' = [frame EXCEPT ![rsp0] = c]

\* SYS_WRITE, SYS_GETPID, a SYS_READ that returns, or an unknown number.
Syscall ==
  /\ phase = "run"
  /\ PushAtRsp0(Junk)
  /\ UNCHANGED <<schedVars, phase, k, made, ticks, cpuVars, ctx, done>>

\* A SYS_READ that finds no complete line in the keyboard buffer waits for one
\* with interrupts disabled, so that no key can arrive: it never returns.
ReadSpins ==
  /\ phase = "run"
  /\ regs.task \in Readers
  /\ PushAtRsp0(Junk)
  /\ phase' = "spin"
  /\ UNCHANGED <<schedVars, k, made, ticks, cpuVars, ctx, done>>

\* keyboard_isr in ring 3: registers are pushed and popped again.
KeyboardUser ==
  /\ phase = "run"
  /\ PushAtRsp0(regs)
  /\ UNCHANGED <<schedVars, phase, k, made, ticks, cpuVars, ctx, done>>

\* SYS_EXIT: the system call's frame is on the stack of rsp0; the caller is dead
\* and task_enter(next) loads the next task, leaving tss.rsp0 as it was.
Exit ==
  /\ phase = "run"
  /\ PushAtRsp0(Junk)
  /\ state' = [state EXCEPT ![current] = "DEAD"]
  /\ \E n \in {NULL} \cup Task :
       /\ RR!SchedulerNext(state', n)
       /\ IF n = NULL
          THEN phase' = "halted" /\ UNCHANGED <<current, cr3, regs>>
          ELSE /\ current' = n
               /\ SwitchSpace
               /\ regs' = frame'[ctx[n]]
               /\ UNCHANGED phase
  /\ UNCHANGED <<queue, k, made, ticks, rsp0, ctx, done>>

\* An exception in ring 3: exception_handler reports it and halts.
UserFault ==
  /\ phase = "run"
  /\ phase' = "halted"
  /\ UNCHANGED <<schedVars, k, made, ticks, cpuVars, memVars, done>>

Boot == CreateTask \/ AddTask \/ AddNull \/ TaskEnter \/ EnterUser
Timer == TimerKernel \/ TimerUser
User == UserStep \/ Syscall \/ ReadSpins \/ KeyboardUser \/ Exit \/ UserFault

\* All interleavings, and those in which no SCHED_QUANTUM-th tick falls between
\* the store to current_task and the iretq of boot's task_enter.
Next == Boot \/ Timer \/ User \/ TimerDuringEntry
QuietNext == Boot \/ Timer \/ User

Spec == Init /\ [][Next]_vars
QuietSpec == Init /\ [][QuietNext]_vars

\* Boot is straight-line code; the handler re-arms the timer on every tick and
\* ring 3 cannot disable interrupts.
FairSpec == QuietSpec /\ WF_vars(Boot) /\ WF_vars(TimerUser)
-----------------------------------------------------------------------------
(* Properties. *)

\* Every variable has the type of the field or register it models.
TypeOK ==
  /\ queue \in Seq(Task)
  /\ state \in [Task -> RR!TaskState]
  /\ current \in {NULL} \cup Task
  /\ phase \in Phase /\ k \in Task /\ made \subseteq Task
  /\ ticks \in 0 .. (Quantum - 1)
  /\ rsp0 \in Stack
  /\ cr3 \in {NULL} \cup Task
  /\ regs \in Context
  /\ ctx \in [Task -> Stack]
  /\ frame \in [Stack -> Context]
  /\ done \in [Task -> 0 .. MaxSteps]

\* The context task t would continue from.
ContextOf(t) == IF phase \in {"run", "spin"} /\ t = current THEN regs ELSE frame[ctx[t]]

\* No task ever loses, repeats or swaps work: across interrupts, system calls
\* and exits, what a live task will continue from is its own registers, exactly
\* as it left them.
ContextIntegrity ==
  phase # "halted" =>
    \A t \in Task : Live(t) => ContextOf(t) = [task |-> t, step |-> done[t]]

\* In ring 3 the registers, the page tables and current_task belong to the same
\* live task (so getpid, which reads current_task, answers for its caller).
OneTaskOnCpu ==
  phase = "run" => /\ regs.task = current
                   /\ cr3 = current
                   /\ Live(current)

\* The next entry to the kernel, which starts at tss.rsp0, overwrites no live
\* task's saved context, although task_enter leaves tss.rsp0 stale.
KernelStackPrivate ==
  phase = "run" => \A t \in Task : Live(t) /\ t # current => ctx[t] # rsp0

\* A program never resumes from registers older than the ones it left with.
NoWorkRepeated ==
  phase = "run" /\ regs.task # NULL => regs.step = done[regs.task]

\* A task that has exited is never scheduled, entered or revived.
ExitIsFinal ==
  [][\A t \in Task : state[t] = "DEAD" =>
       state'[t] = "DEAD" /\ (phase' = "run" => current' # t)]_vars

\* Every live task gets the processor again and again, until the system halts.
NoStarvation ==
  \A t \in Task : Live(t) ~> (phase = "run" /\ current = t) \/ phase = "halted"

\* Nothing but that wait starves a task: until a program waits in read() or the
\* system halts, every live task gets the processor again and again.
OnlyReadStarves ==
  \A t \in Task : Live(t) ~> (phase = "run" /\ current = t) \/ phase \in {"halted", "spin"}

\* The choices made through interrupts and exits are those of the round robin.
ImplementsRoundRobin == RR!Spec
=============================================================================
