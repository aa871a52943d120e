----------------------------- MODULE RoundRobin -----------------------------
(***************************************************************************)
(* What the scheduler of usermode/scheduler.c decides, with the circular   *)
(* run queue as a sequence: tasks are appended at boot and never removed,  *)
(* and the next task is the nearest one after the current task, around the *)
(* ring, that has not exited.  RunQueue.tla implements this with the       *)
(* linked list of the code; Switching.tla builds on it.                    *)
(***************************************************************************)
EXTENDS Integers, Sequences

CONSTANT NTasks

Task == 1 .. NTasks
NULL == 0

VARIABLES queue,    \* run_queue_head and the list behind it, in ring order
          state,    \* task->state of every task
          current   \* current_task

rrVars == <<queue, state, current>>

\* TASK_BLOCKED is declared in scheduler.h and never assigned.
TaskState == {"READY", "RUNNING", "DEAD"}

\* Mutant: the state is not looked at.
RunnableAlways(st, t) == TRUE
Runnable(st, t) == st[t] \in {"READY", "RUNNING"}

Queued == {queue[i] : i \in DOMAIN queue}

\* Mutant: every search starts at run_queue_head.
StartIndexAtHead == 1

\* Where the search starts: behind current_task, or at run_queue_head.
StartIndex ==
  IF current = NULL THEN 1
  ELSE ((CHOOSE i \in DOMAIN queue : queue[i] = current) % Len(queue)) + 1

\* The d-th task that the do-while loop of scheduler_next visits.
Visited(d) == queue[((StartIndex + d - 1) % Len(queue)) + 1]

\* scheduler_next, for the task states st: n is its result.
SchedulerNext(st, n) ==
  \/ /\ n = NULL
     /\ \A t \in Queued : ~Runnable(st, t)
  \/ \E d \in 0 .. (Len(queue) - 1) :
       /\ n = Visited(d)
       /\ Runnable(st, n)
       /\ \A e \in 0 .. (d - 1) : ~Runnable(st, Visited(e))

\* schedule()
Schedule ==
  \E n \in Task \cup {NULL} :
    /\ SchedulerNext(state, n)
    /\ IF n = NULL \/ n = current
       THEN UNCHANGED <<state, current>>
       ELSE /\ current' = n
            /\ state' = [t \in Task |->
                 IF t = n THEN "RUNNING"
                 ELSE IF t = current /\ state[t] = "RUNNING" THEN "READY"
                 ELSE state[t]]

Init ==
  /\ queue = <<>>
  /\ state = [t \in Task |-> "READY"]
  /\ current = NULL

\* scheduler_add_task
Add(t) ==
  /\ t \notin Queued
  /\ queue' = Append(queue, t)
  /\ state' = [state EXCEPT ![t] = "READY"]
  /\ UNCHANGED current

Preempt == Schedule /\ UNCHANGED queue

\* task_enter: the caller's choice of task becomes current_task; its state is
\* left as it is.
Enter ==
  /\ \E t \in Queued : Runnable(state, t) /\ current' = t
  /\ UNCHANGED <<queue, state>>

\* SYS_EXIT: the current task is dead; the next one is entered if there is one.
Exit ==
  /\ current # NULL
  /\ Runnable(state, current)
  /\ state' = [state EXCEPT ![current] = "DEAD"]
  /\ \E n \in Task \cup {NULL} :
       /\ SchedulerNext(state', n)
       /\ current' = IF n = NULL THEN current ELSE n
  /\ UNCHANGED queue

Next == (\E t \in Task : Add(t)) \/ Preempt \/ Enter \/ Exit

Spec == Init /\ [][Next]_rrVars
=============================================================================
