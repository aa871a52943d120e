------------------------- MODULE SchedulerConstants -------------------------
(***************************************************************************)
(* The sizes that all models of the scheduler share.                       *)
(***************************************************************************)
EXTENDS Integers

CONSTANTS NTasks,    \* the tasks boot creates; boot enters task 1
          Quantum    \* SCHED_QUANTUM

ASSUME TasksAssumption   == NTasks \in Nat \ {0}
ASSUME QuantumAssumption == Quantum \in Nat \ {0}
=============================================================================
