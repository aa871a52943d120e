------------------------------ MODULE RunQueue ------------------------------
(***************************************************************************)
(* The run queue of usermode/scheduler.c as the code keeps it: a circular  *)
(* list through task->next.  Boot links the tasks with two stores each     *)
(* while the timer may interrupt between them, and lapic_timer_handler     *)
(* walks the list.  It implements RoundRobin.                              *)
(***************************************************************************)
EXTENDS SchedulerConstants, Sequences, FiniteSetsExt

Task == 1 .. NTasks
NULL == 0

VARIABLES
  head,     \* run_queue_head
  next,     \* task->next
  state,    \* task->state
  current,  \* current_task
  phase,    \* "add", "link", "enter": boot; "run", "halted", "crashed"
  k,        \* the task boot is adding
  ticked,   \* the timer has fired since boot's last store
  ticks,    \* lapic_ticks modulo SCHED_QUANTUM
  wait      \* ticks in ring 3 since each task was last current (history)

listVars == <<head, next>>
bootVars == <<phase, k, ticked>>
vars == <<listVars, state, current, bootVars, ticks, wait>>

Init ==
  /\ head = NULL
  /\ next = [t \in Task |-> NULL]      \* a task_t lies in a zeroed page
  /\ state = [t \in Task |-> "READY"]
  /\ current = NULL
  /\ phase = "add" /\ k = 1 /\ ticked = FALSE
  /\ ticks = 0
  /\ wait = [t \in Task |-> 0]

\* The pointers reached from s along task->next; NULL stays NULL.
Walk(s) ==
  LET hop[i \in 0 .. NTasks] ==
        IF i = 0 THEN s
        ELSE IF hop[i - 1] = NULL THEN NULL ELSE next[hop[i - 1]]
  IN  hop

\* Mutant: the walk ends at once.
LastTaskIsHead == head

\* The last task of the ring, where scheduler_add_task's own walk ends.
LastTask ==
  LET w == Walk(head)
  IN  w[Min({i \in 0 .. NTasks : w[i] # NULL /\ next[w[i]] = head})]

\* scheduler_add_task up to the store that makes the task reachable ...
AddTask ==
  /\ phase = "add"
  /\ state' = [state EXCEPT ![k] = "READY"]
  /\ IF head = NULL THEN head' = k /\ UNCHANGED next
                    ELSE next' = [next EXCEPT ![LastTask] = k] /\ UNCHANGED head
  /\ phase' = "link" /\ ticked' = FALSE
  /\ UNCHANGED <<current, k, ticks, wait>>

\* Mutant: one task too many.
AdvanceTooFar ==
  IF k <= NTasks THEN k' = k + 1 /\ phase' = "add"
                 ELSE k' = 1 /\ phase' = "enter"

\* Boot goes on with the next task, or to task_enter.
Advance ==
  IF k < NTasks THEN k' = k + 1 /\ phase' = "add"
                ELSE k' = 1 /\ phase' = "enter"

\* ... and the store that closes the ring.
LinkTask ==
  /\ phase = "link"
  /\ next' = [next EXCEPT ![k] = head]
  /\ Advance
  /\ ticked' = FALSE
  /\ UNCHANGED <<head, state, current, ticks, wait>>

\* task_enter(t1)
TaskEnter ==
  /\ phase = "enter"
  /\ current' = 1
  /\ phase' = "run"
  /\ UNCHANGED <<listVars, state, k, ticked, ticks, wait>>

\* Mutant: a task that is only ready is passed over.
RunnableRunning(st, t) == st[t] = "RUNNING"

Runnable(st, t) == st[t] \in {"READY", "RUNNING"}

\* Mutant: every search starts at run_queue_head.
StartAtHead == head

\* The pointer scheduler_next starts from.
Start == IF current = NULL THEN head ELSE next[current]

\* How far its do-while loop goes: to the first runnable task, and otherwise
\* back to the start.
LastHop(st) ==
  LET w == Walk(Start)
  IN  Min({i \in 0 .. NTasks : \/ w[i] = NULL
                               \/ Runnable(st, w[i])
                               \/ (i > 0 /\ w[i] = Start)})

\* scheduler_next: NULL, a runnable task, or a null pointer followed.
FollowsNull(st) == head # NULL /\ Walk(Start)[LastHop(st)] = NULL
SchedulerNext(st) ==
  IF head = NULL THEN NULL
  ELSE LET t == Walk(Start)[LastHop(st)]
       IN  IF Runnable(st, t) THEN t ELSE NULL

\* schedule()
Schedule ==
  LET n == SchedulerNext(state)
  IN  IF n = NULL \/ n = current
      THEN UNCHANGED <<state, current>>
      ELSE /\ current' = n
           /\ state' = [t \in Task |->
                IF t = n THEN "RUNNING"
                ELSE IF t = current /\ state[t] = "RUNNING" THEN "READY"
                ELSE state[t]]

\* lapic_timer_handler.  The next tick is 10 ms away when it returns, so at most
\* one falls between two adjacent stores of boot.
CanTick == phase \in {"add", "enter", "run"} \/ (phase = "link" /\ ~ticked)
TimerTick ==
  /\ CanTick
  /\ ticks' = (ticks + 1) % Quantum
  /\ ticked' = (phase = "link")
  /\ IF ticks' # 0
     THEN UNCHANGED <<state, current, phase>>
     ELSE IF FollowsNull(state)
     THEN phase' = "crashed" /\ UNCHANGED <<state, current>>
     ELSE Schedule /\ UNCHANGED phase
  /\ wait' = [t \in Task |-> IF phase # "run" \/ t = current' \/ ~Runnable(state, t)
                             THEN 0 ELSE wait[t] + 1]
  /\ UNCHANGED <<listVars, k>>

\* SYS_EXIT and the task_enter at its end.
Exit ==
  /\ phase = "run"
  /\ state' = [state EXCEPT ![current] = "DEAD"]
  /\ IF FollowsNull(state')
     THEN phase' = "crashed" /\ UNCHANGED <<current, wait>>
     ELSE LET n == SchedulerNext(state')
          IN  IF n = NULL
              THEN phase' = "halted" /\ UNCHANGED <<current, wait>>
              ELSE /\ current' = n
                   /\ wait' = [wait EXCEPT ![n] = 0]
                   /\ UNCHANGED phase
  /\ UNCHANGED <<listVars, k, ticked, ticks>>

Next == AddTask \/ LinkTask \/ TaskEnter \/ TimerTick \/ Exit

Spec == Init /\ [][Next]_vars
-----------------------------------------------------------------------------
(* Properties. *)

\* Every pointer is a task or NULL.
TypeOK ==
  /\ head \in {NULL} \cup Task
  /\ next \in [Task -> {NULL} \cup Task]
  /\ state \in [Task -> {"READY", "RUNNING", "DEAD"}]
  /\ current \in {NULL} \cup Task
  /\ phase \in {"add", "link", "enter", "run", "halted", "crashed"}
  /\ k \in Task /\ ticked \in BOOLEAN
  /\ ticks \in 0 .. (Quantum - 1)
  /\ wait \in [Task -> Nat]

\* lapic_timer_handler and SYS_EXIT never follow a null pointer of the run queue,
\* also when a tick interrupts scheduler_add_task between its two stores.
QueueNeverFollowsNull == TypeOK /\ phase # "crashed"

\* No live task waits longer for the processor than one SCHED_QUANTUM for each
\* of the other tasks, however exits and ticks are interleaved.
QueueBoundedWait == \A t \in Task : wait[t] <= (NTasks - 1) * Quantum

\* The list as a sequence: from the head until it ends or closes.
QueueOf ==
  LET w == Walk(head)
      n == Min({i \in 0 .. NTasks : w[i] = NULL \/ (i > 0 /\ w[i] = head)})
  IN  [i \in 1 .. n |-> w[i - 1]]

RR == INSTANCE RoundRobin WITH queue <- QueueOf

\* The linked list of scheduler.c, linked with two stores per task while ticks
\* come, implements the abstract ring.
QueueImplementsRoundRobin == RR!Spec
=============================================================================
