--------------------------- MODULE RunQueueProofs ---------------------------
(***************************************************************************)
(* Proofs about RunQueue, for any number of tasks and any quantum.         *)
(***************************************************************************)
EXTENDS RunQueue, WellFoundedInduction, TLAPS

\* Time for a leaf, in seconds.
USE SMTT(40), ZenonT(40)

USE TasksAssumption, QuantumAssumption DEF Task, NULL

\* Boot queues the tasks in order: Last is the last one that can be reached.
Last == IF phase = "add" THEN k - 1 ELSE IF phase = "link" THEN k ELSE NTasks

\* The pointers: a ring of the tasks 1 .. Last, open while the last store of
\* scheduler_add_task is missing.
ListInv ==
  /\ head = IF Last = 0 THEN NULL ELSE 1
  /\ \A t \in Task :
       next[t] = IF t < Last THEN t + 1 ELSE IF t = Last /\ phase # "link" THEN 1 ELSE NULL

\* Nobody dies during boot; current_task is in the list, and the task at the
\* open end cannot be current before the one tick that fits in there.
CurrentInv ==
  /\ current \in 0 .. Last
  /\ phase = "link" /\ ~ticked => current # k
  /\ phase \in {"add", "link", "enter"} => \A t \in Task : Runnable(state, t)
  /\ phase = "run" => current \in Task /\ Runnable(state, current)

\* How many tasks after c the task t comes in the ring.
Dist(c, t) == IF t > c THEN t - c ELSE t - c + NTasks

\* The closer a task is to its turn, the longer it may have waited.
WaitInv ==
  \A t \in Task :
    IF phase = "run" /\ t # current /\ Runnable(state, t)
    THEN wait[t] <= (NTasks - 1 - Dist(current, t)) * Quantum + ticks + 1
    ELSE wait[t] = 0

Inv == TypeOK /\ phase # "crashed" /\ ListInv /\ CurrentInv /\ WaitInv
-----------------------------------------------------------------------------
(* Induction.  The library's theorem about well-founded relations speaks   *)
(* of sets, so that it can be used where NatInduction cannot.              *)

\* A set of numbers that is not empty has a least member.
LEMMA LeastNumber ==
  ASSUME NEW T, T \subseteq Nat, T # {}
  PROVE  \E n \in T : \A m \in T : n <= m
<1>1. PICK n \in T : \A m \in T : ~(<<m, n>> \in OpToRel(<, Nat))
  BY NatLessThanWellFounded, WFMin, ZenonT(40)
<1>2. \A m \in T : ~(m < n)
  BY <1>1, ZenonT(40) DEF OpToRel
<1> QED
  BY <1>2

\* A set that has 0, and with each number below N the next, has all up to N.
LEMMA Induction ==
  ASSUME NEW N \in Nat, NEW T, 0 \in T, \A n \in 0 .. N - 1 : n \in T => n + 1 \in T
  PROVE  \A n \in 0 .. N : n \in T
<1> SUFFICES ASSUME (0 .. N) \ T # {} PROVE FALSE
  OBVIOUS
<1>0. (0 .. N) \ T \subseteq Nat
  OBVIOUS
<1>1. PICK n \in (0 .. N) \ T : \A m \in (0 .. N) \ T : n <= m
  BY <1>0, LeastNumber, ZenonT(40)
<1>2. n - 1 \in 0 .. N - 1 /\ n - 1 \in T
  BY <1>1
<1> QED
  BY <1>2

\* The remainder, for a number that is less than twice the divisor.
LEMMA Wraps ==
  ASSUME NEW m \in Nat \ {0}, NEW x \in 0 .. 2 * m - 1
  PROVE  x % m = IF x < m THEN x ELSE x - m
<1> DEFINE q == x \div m
           r == x % m
<1>1. q \in Int /\ r \in 0 .. m - 1 /\ x = m * q + r
  OBVIOUS
<1> HIDE DEF q, r
<1>2. CASE q < 0
  <2>1. PICK e \in Nat : q = -1 - e
    <3>1. -1 - q \in Nat /\ q = -1 - (-1 - q)
      BY <1>1, <1>2
    <3> QED
      BY <3>1
  <2>2. m * q = -m - m * e /\ m * e \in Nat
    BY <2>1
  <2> QED
    BY <1>1, <2>2
<1>3. CASE q = 0
  BY <1>1, <1>3 DEF r
<1>4. CASE q = 1
  BY <1>1, <1>4 DEF r
<1>5. CASE q > 1
  <2>1. PICK e \in Nat : q = 2 + e
    <3>1. q - 2 \in Nat /\ q = 2 + (q - 2)
      BY <1>1, <1>5
    <3> QED
      BY <3>1
  <2>2. m * q = 2 * m + m * e /\ m * e \in Nat
    BY <2>1
  <2> QED
    BY <1>1, <2>2
<1> QED
  BY <1>1, <1>2, <1>3, <1>4, <1>5

-----------------------------------------------------------------------------
(* Walking the list.                                                       *)

\* One hop.
Hop(x) == IF x = NULL THEN NULL ELSE next[x]

\* The recursion of Walk defines a function.
LEMMA WalkIs ==
  ASSUME NEW s
  PROVE  Walk(s) = [i \in 0 .. NTasks |-> IF i = 0 THEN s ELSE Hop(Walk(s)[i - 1])]
<1> DEFINE Is(f, n) == f = [i \in 0 .. n |-> IF i = 0 THEN s ELSE Hop(f[i - 1])]
           T == {n \in Nat : \E f : Is(f, n)}
<1>1. 0 \in T
  <2>1. Is([i \in 0 .. 0 |-> s], 0)
    OBVIOUS
  <2> QED
    BY <2>1, ZenonT(40)
<1>2. ASSUME NEW n \in Nat, n \in T
      PROVE  n + 1 \in T
  <2>1. PICK f : Is(f, n)
    BY <1>2
  <2> DEFINE g == [i \in 0 .. n + 1 |-> IF i = 0 THEN s ELSE Hop(f[i - 1])]
  <2>2. /\ g = [i \in 0 .. n + 1 |-> IF i = 0 THEN s ELSE Hop(f[i - 1])]
        /\ \A i \in 0 .. n : g[i] = IF i = 0 THEN s ELSE Hop(f[i - 1])
        /\ \A i \in 0 .. n : f[i] = IF i = 0 THEN s ELSE Hop(f[i - 1])
    BY <2>1
  <2> HIDE DEF g
  <2>3. \A i \in 1 .. n + 1 : i - 1 \in 0 .. n /\ g[i - 1] = f[i - 1]
    BY <2>2
  <2>4. Is(g, n + 1)
    BY <2>2, <2>3
  <2> QED
    BY <2>4
<1> HIDE DEF T
<1>3. NTasks \in T
  <2>1. \A n \in 0 .. NTasks : n \in T
    BY <1>1, <1>2, Induction
  <2> QED
    BY <2>1
<1> USE DEF T
<1>4. PICK f : Is(f, NTasks)
  BY <1>3
<1>5. Walk(s) = CHOOSE h : h = [i \in 0 .. NTasks |-> IF i = 0 THEN s ELSE IF h[i - 1] = NULL THEN NULL ELSE next[h[i - 1]]]
  BY DEF Walk
<1>6. Walk(s) = CHOOSE h : Is(h, NTasks)
  BY <1>5 DEF Hop
<1> HIDE DEF Is
<1>7. Is(Walk(s), NTasks)
  BY <1>4, <1>6
<1> QED
  BY <1>7, ZenonT(40) DEF Is

\* The task i places behind s in a ring of n.
Around(s, i, n) == IF s + i <= n THEN s + i ELSE s + i - n

\* A walk in a closed ring of the tasks 1 .. n goes around it.
LEMMA WalkRing ==
  ASSUME NEW n \in 1 .. NTasks, NEW s \in 1 .. n,
         \A t \in 1 .. n : next[t] = IF t < n THEN t + 1 ELSE 1
  PROVE  \A i \in 0 .. n : Walk(s)[i] = Around(s, i, n)
<1> DEFINE w == Walk(s)
           T == {i \in 0 .. n : w[i] = Around(s, i, n)}
<1>1. \A i \in 0 .. NTasks : w[i] = IF i = 0 THEN s ELSE Hop(w[i - 1])
  BY WalkIs
<1> HIDE DEF w
<1>2. 0 \in T
  BY <1>1 DEF Around
<1>3. ASSUME NEW i \in 0 .. n - 1, i \in T
      PROVE  i + 1 \in T
  <2>1. w[i] = Around(s, i, n) /\ w[i] \in 1 .. n
    BY <1>3 DEF Around
  <2>2. w[i + 1] = next[w[i]]
    BY <1>1, <2>1 DEF Hop
  <2> QED
    BY <2>1, <2>2 DEF Around
<1> HIDE DEF T
<1>4. \A i \in 0 .. n : i \in T
  BY <1>2, <1>3, Induction
<1> QED
  BY <1>4 DEF T, w

\* A walk along an open list of the tasks 1 .. n ends at NULL.
LEMMA WalkOpen ==
  ASSUME NEW n \in 1 .. NTasks,
         \A t \in 1 .. n : next[t] = IF t < n THEN t + 1 ELSE NULL
  PROVE  \A i \in 0 .. n : Walk(1)[i] = IF i < n THEN i + 1 ELSE NULL
<1> DEFINE w == Walk(1)
           T == {i \in 0 .. n : w[i] = IF i < n THEN i + 1 ELSE NULL}
<1>1. \A i \in 0 .. NTasks : w[i] = IF i = 0 THEN 1 ELSE Hop(w[i - 1])
  BY WalkIs
<1> HIDE DEF w
<1>2. 0 \in T
  BY <1>1
<1>3. ASSUME NEW i \in 0 .. n - 1, i \in T
      PROVE  i + 1 \in T
  <2>1. w[i] = i + 1 /\ w[i] \in 1 .. n
    BY <1>3
  <2>2. w[i + 1] = next[w[i]]
    BY <1>1, <2>1 DEF Hop
  <2> QED
    BY <2>1, <2>2
<1> HIDE DEF T
<1>4. \A i \in 0 .. n : i \in T
  BY <1>2, <1>3, Induction
<1> QED
  BY <1>4 DEF T, w

\* Min is the least member.
LEMMA MinIs ==
  ASSUME NEW S, S \subseteq Nat, NEW m \in S, \A x \in S : m <= x
  PROVE  Min(S) = m
<1>1. Min(S) \in S /\ \A x \in S : Min(S) <= x
  BY ZenonT(40) DEF Min
<1>2. m \in Nat /\ Min(S) \in Nat /\ m <= Min(S) /\ Min(S) <= m
  BY <1>1, ZenonT(40)
<1> QED
  BY <1>2

\* A set of numbers that is not empty has its Min.
LEMMA MinOf ==
  ASSUME NEW S, S \subseteq Nat, S # {}
  PROVE  Min(S) \in S /\ \A x \in S : Min(S) <= x
BY LeastNumber, ZenonT(40) DEF Min

-----------------------------------------------------------------------------
(* What the list is, and what scheduler_next finds in it.                  *)

\* Where the list of ListInv is closed, and where it is open.
LEMMA Shape ==
  ASSUME TypeOK, phase # "crashed", ListInv
  PROVE  /\ Last \in 0 .. NTasks /\ k \in 1 .. NTasks
         /\ phase # "link" => \A t \in 1 .. Last : next[t] = IF t < Last THEN t + 1 ELSE 1
         /\ phase = "link" => Last = k /\ \A t \in 1 .. Last : next[t] = IF t < Last THEN t + 1 ELSE NULL
         /\ head = IF Last = 0 THEN NULL ELSE 1
<1>1. Last \in 0 .. NTasks
  BY DEF Last, TypeOK
<1> QED
  BY <1>1 DEF ListInv, TypeOK, Last

\* The list as a sequence.
LEMMA QueueIs ==
  ASSUME TypeOK, phase # "crashed", ListInv
  PROVE  QueueOf = [i \in 1 .. Last |-> i]
<1> DEFINE w == Walk(head)
           S == {i \in 0 .. NTasks : w[i] = NULL \/ (i > 0 /\ w[i] = head)}
<1>1. Last \in S /\ \A i \in 0 .. Last - 1 : w[i] = i + 1 /\ i \notin S
  <2>1. CASE Last = 0
    <3>1. w[0] = NULL
      BY <2>1, WalkIs, Shape
    <3> QED
      BY <2>1, <3>1
  <2>2. CASE Last # 0 /\ phase = "link"
    <3>1. Last \in 1 .. NTasks /\ head = 1
      BY <2>2, Shape
    <3>2. \A i \in 0 .. Last : w[i] = IF i < Last THEN i + 1 ELSE NULL
      BY <2>2, <3>1, Shape, WalkOpen
    <3> QED
      BY <3>1, <3>2
  <2>3. CASE Last # 0 /\ phase # "link"
    <3>1. Last \in 1 .. NTasks /\ head = 1
      BY <2>3, Shape
    <3>2. \A i \in 0 .. Last : w[i] = Around(1, i, Last)
      BY <2>3, <3>1, Shape, WalkRing
    <3> QED
      BY <3>1, <3>2 DEF Around
  <2> QED
    BY <2>1, <2>2, <2>3
<1>2. Last \in Nat
  BY Shape
<1>3. QueueOf = [i \in 1 .. Min(S) |-> w[i - 1]]
  BY DEF QueueOf
<1>4. S \subseteq Nat /\ \A x \in S : Last <= x
  <2> HIDE DEF w
  <2> QED
    BY <1>1, <1>2
<1> HIDE DEF S, w
<1>5. Min(S) = Last
  BY <1>1, <1>4, MinIs, ZenonT(40)
<1>6. \A i \in 1 .. Last : w[i - 1] = i
  <2> TAKE i \in 1 .. Last
  <2>1. i - 1 \in 0 .. Last - 1 /\ (i - 1) + 1 = i
    BY <1>2
  <2> QED
    BY <1>1, <2>1
<1> QED
  BY <1>3, <1>5, <1>6

\* The walk of scheduler_add_task ends at the task that was added last.
LEMMA LastTaskIs ==
  ASSUME TypeOK, ListInv, phase = "add", head # NULL
  PROVE  LastTask = k - 1 /\ k - 1 \in 1 .. NTasks
<1> DEFINE w == Walk(head)
           S == {i \in 0 .. NTasks : w[i] # NULL /\ next[w[i]] = head}
<1>1. /\ Last = k - 1 /\ Last \in 1 .. NTasks /\ head = 1
      /\ \A t \in 1 .. Last : next[t] = IF t < Last THEN t + 1 ELSE 1
  BY Shape DEF Last
<1>2. \A i \in 0 .. Last - 1 : w[i] = i + 1
  <2>1. \A i \in 0 .. Last : w[i] = Around(1, i, Last)
    BY <1>1, WalkRing
  <2> QED
    BY <1>1, <2>1 DEF Around
<1>3. LastTask = w[Min(S)]
  BY DEF LastTask
<1> HIDE DEF w
<1>4. Last - 1 \in S /\ S \subseteq Nat /\ \A x \in S : Last - 1 <= x
  <2>1. Last - 1 \in S
    BY <1>1, <1>2
  <2>2. \A i \in 0 .. Last - 2 : i \notin S
    BY <1>1, <1>2
  <2> QED
    BY <1>1, <2>1, <2>2
<1> HIDE DEF S
<1>5. Min(S) = Last - 1
  BY <1>4, MinIs, ZenonT(40)
<1> QED
  BY <1>1, <1>2, <1>3, <1>5

\* While all tasks can run the first one that is looked at is taken.
LEMMA NextAtBoot ==
  ASSUME TypeOK, phase # "crashed", ListInv, CurrentInv,
         phase \in {"add", "link", "enter"}, CanTick, head # NULL
  PROVE  /\ Start \in 1 .. Last /\ ~FollowsNull(state) /\ SchedulerNext(state) = Start
         /\ Start = IF current = NULL THEN 1 ELSE IF current < Last THEN current + 1 ELSE 1
         /\ phase = "link" => current < Last
<1> DEFINE w == Walk(Start)
           S == {i \in 0 .. NTasks : \/ w[i] = NULL \/ Runnable(state, w[i]) \/ (i > 0 /\ w[i] = Start)}
<1>1. Last \in 1 .. NTasks /\ head = 1 /\ current \in 0 .. Last
  BY Shape DEF CurrentInv
<1>2. phase = "link" => current < Last
  BY <1>1, Shape DEF CurrentInv, CanTick
<1>3. Start = IF current = NULL THEN 1 ELSE IF current < Last THEN current + 1 ELSE 1
  BY <1>1, <1>2, Shape DEF Start
<1>4. Start \in 1 .. Last /\ Start \in Task /\ Start # NULL
  BY <1>1, <1>3
<1>5. w[0] = Start
  BY WalkIs
<1>6. LastHop(state) = Min(S)
  BY DEF LastHop
<1>7. Runnable(state, Start)
  BY <1>4 DEF CurrentInv
<1> HIDE DEF w
<1>8. 0 \in S /\ S \subseteq Nat /\ \A x \in S : 0 <= x
  BY <1>5, <1>7
<1> HIDE DEF S
<1>9. LastHop(state) = 0
  BY <1>6, <1>8, MinIs, ZenonT(40)
<1>10. Walk(Start)[LastHop(state)] = Start
  BY <1>5, <1>9 DEF w
<1>11. ~FollowsNull(state) /\ SchedulerNext(state) = Start
  BY <1>4, <1>7, <1>10 DEF FollowsNull, SchedulerNext
<1> QED
  BY <1>2, <1>3, <1>4, <1>11

\* Once boot is over scheduler_next takes the runnable task that is nearest
\* behind the current one, which comes last itself.
LEMMA NextInRing ==
  ASSUME TypeOK, ListInv, CurrentInv, phase = "run", NEW st
  PROVE  /\ ~FollowsNull(st)
         /\ \/ SchedulerNext(st) = NULL /\ \A t \in Task : ~Runnable(st, t)
            \/ /\ SchedulerNext(st) \in Task /\ Runnable(st, SchedulerNext(st))
               /\ \A t \in Task : Runnable(st, t) => Dist(current, SchedulerNext(st)) <= Dist(current, t)
<1> DEFINE w == Walk(Start)
           S == {i \in 0 .. NTasks : \/ w[i] = NULL \/ Runnable(st, w[i]) \/ (i > 0 /\ w[i] = Start)}
           d == Min(S)
<1>1. /\ Last = NTasks /\ head = 1 /\ current \in 1 .. NTasks
      /\ \A t \in 1 .. NTasks : next[t] = IF t < NTasks THEN t + 1 ELSE 1
  BY Shape DEF Last, CurrentInv
<1>2. Start = (IF current < NTasks THEN current + 1 ELSE 1) /\ Start \in 1 .. NTasks
  BY <1>1 DEF Start
<1>3. \A i \in 0 .. NTasks : w[i] = Around(Start, i, NTasks)
  BY <1>1, <1>2, WalkRing
<1>4. LastHop(st) = d
  BY DEF LastHop
<1>5. w = Walk(Start)
  OBVIOUS
<1> HIDE DEF w
<1>6. \A i \in 0 .. NTasks : w[i] \in Task /\ w[i] # NULL
  BY <1>2, <1>3 DEF Around
<1>7. NTasks \in S
  BY <1>2, <1>3 DEF Around
<1>8. S \subseteq Nat /\ S # {}
  BY <1>7
<1>9. d \in S /\ \A x \in S : d <= x
  <2> HIDE DEF S
  <2> QED
    BY <1>8, MinOf, ZenonT(40)
<1> HIDE DEF d
<1>10. d \in 0 .. NTasks /\ \A i \in 0 .. NTasks : i < d => i \notin S
  <2>1. d \in 0 .. NTasks
    BY <1>9
  <2> HIDE DEF S
  <2> QED
    BY <1>9, <2>1
<1>11. w[d] \in Task /\ (Runnable(st, w[d]) \/ (d > 0 /\ w[d] = Start))
  BY <1>6, <1>9, <1>10
<1>12. \A i \in 0 .. NTasks : i < d => ~Runnable(st, w[i])
  BY <1>10
<1>13. SchedulerNext(st) = IF Runnable(st, w[d]) THEN w[d] ELSE NULL
  BY <1>1, <1>4, <1>5 DEF SchedulerNext
<1>14. ~FollowsNull(st)
  BY <1>4, <1>5, <1>11 DEF FollowsNull
<1>15. ASSUME NEW t \in Task
       PROVE  /\ Dist(current, t) \in 1 .. NTasks
              /\ t = w[Dist(current, t) - 1]
  BY <1>1, <1>2, <1>3 DEF Dist, Around
<1>16. CASE Runnable(st, w[d])
  <2>1. SchedulerNext(st) = w[d]
    BY <1>13, <1>16
  <2>2. d # NTasks
    <3> SUFFICES ASSUME d = NTasks PROVE FALSE
      OBVIOUS
    <3>1. w[d] = w[0]
      BY <1>2, <1>3 DEF Around
    <3> QED
      BY <1>12, <1>16, <3>1
  <2>3. Dist(current, w[d]) = d + 1
    BY <1>1, <1>2, <1>3, <1>10, <2>2 DEF Dist, Around
  <2>4. ASSUME NEW t \in Task, Runnable(st, t)
        PROVE  Dist(current, w[d]) <= Dist(current, t)
    <3>1. Dist(current, t) - 1 \in 0 .. NTasks
      BY <1>15
    <3>2. ~(Dist(current, t) - 1 < d)
      BY <1>12, <1>15, <2>4, <3>1
    <3>3. Dist(current, t) \in Int /\ d \in Int
      BY <1>10, <1>15
    <3> QED
      BY <2>3, <3>1, <3>2, <3>3
  <2> QED
    BY <1>11, <1>14, <1>16, <2>1, <2>4
<1>17. CASE ~Runnable(st, w[d])
  <2>1. d = NTasks
    BY <1>2, <1>3, <1>10, <1>11, <1>17 DEF Around
  <2>2. ASSUME NEW t \in Task
        PROVE  ~Runnable(st, t)
    <3>1. Dist(current, t) - 1 \in 0 .. NTasks /\ Dist(current, t) - 1 < d
      BY <1>15, <2>1
    <3> QED
      BY <1>12, <1>15, <3>1
  <2> QED
    BY <1>13, <1>14, <1>17, <2>2
<1> QED
  BY <1>16, <1>17

-----------------------------------------------------------------------------
(* The invariant.                                                          *)

\* The initial state satisfies it.
LEMMA InitInv == Init => Inv
<1> SUFFICES ASSUME Init PROVE Inv
  OBVIOUS
<1> USE DEF Init
<1>1. TypeOK
  <2>1. 0 \in 0 .. (Quantum - 1) /\ 1 \in Task
    OBVIOUS
  <2>2. ticked \in BOOLEAN
    BY ZenonT(40)
  <2> QED
    BY <2>1, <2>2 DEF TypeOK
<1>2. Last = 0 /\ \A t \in Task : next[t] = NULL /\ wait[t] = 0 /\ state[t] = "READY"
  BY DEF Last
<1>3. ListInv /\ CurrentInv
  BY <1>2 DEF ListInv, CurrentInv, Runnable
<1> QED
  BY <1>1, <1>2, <1>3 DEF Inv, WaitInv

\* A task that is at least one place nearer has a whole quantum more.
LEMMA Slack ==
  ASSUME NEW a \in Int, NEW b \in Int, a < b
  PROVE  a * Quantum + Quantum <= b * Quantum
<1>1. PICK e \in Nat : b = a + 1 + e
  <2>1. b - a - 1 \in Nat /\ b = a + 1 + (b - a - 1)
    OBVIOUS
  <2> QED
    BY <2>1
<1>2. b * Quantum = a * Quantum + Quantum + e * Quantum
  BY <1>1
<1>3. e * Quantum \in Nat /\ a * Quantum \in Int
  OBVIOUS
<1> QED
  BY <1>2, <1>3

\* AddTask and LinkTask keep the list in shape.
LEMMA AddTaskInv == Inv /\ AddTask => Inv'
<1> SUFFICES ASSUME Inv, AddTask PROVE Inv'
  OBVIOUS
<1> USE DEF Inv
<1>1. /\ phase = "add" /\ phase' = "link" /\ ticked' = FALSE
      /\ state' = [state EXCEPT ![k] = "READY"]
      /\ UNCHANGED <<current, k, ticks, wait>>
      /\ IF head = NULL THEN head' = k /\ UNCHANGED next
                        ELSE next' = [next EXCEPT ![LastTask] = k] /\ UNCHANGED head
  BY DEF AddTask
<1>2. Last = k - 1 /\ Last' = k /\ k \in Task
  BY <1>1 DEF Last, TypeOK
<1>5. CurrentInv' /\ WaitInv'
  <2>1. \A t \in Task : Runnable(state', t)
    BY <1>1, <1>2 DEF CurrentInv, Runnable, TypeOK
  <2>2. current \in 0 .. k - 1
    BY <1>2 DEF CurrentInv
  <2>3. CurrentInv'
    <3>1. /\ current' \in 0 .. Last' /\ current' # k' /\ phase' # "run"
          /\ \A t \in Task : Runnable(state, t)'
      BY <1>1, <1>2, <2>1, <2>2 DEF Runnable
    <3> QED
      BY <3>1, ZenonT(40) DEF CurrentInv
  <2>4. WaitInv'
    BY <1>1 DEF WaitInv
  <2> QED
    BY <2>3, <2>4
<1>3. CASE head = NULL
  <2>1. k = 1 /\ head' = 1 /\ next' = next
    BY <1>1, <1>2, <1>3 DEF ListInv
  <2>2. TypeOK'
    BY <1>1, <1>2, <2>1, ZenonT(40) DEF TypeOK
  <2>3. ListInv'
    BY <1>1, <1>2, <2>1 DEF ListInv
  <2> QED
    BY <1>1, <1>5, <2>2, <2>3
<1>4. CASE head # NULL
  <2>1. k - 1 \in Task /\ next' = [next EXCEPT ![k - 1] = k] /\ head' = head
    BY <1>1, <1>4, LastTaskIs
  <2>2. TypeOK'
    BY <1>1, <1>2, <2>1, ZenonT(40) DEF TypeOK
  <2>3. ListInv'
    <3>1. head' = 1 /\ Last' # 0 /\ Last = k - 1
      BY <1>2, <1>4, <2>1 DEF ListInv
    <3>2. ASSUME NEW t \in Task
          PROVE  next'[t] = IF t < k THEN t + 1 ELSE NULL
      <4>1. next[t] = IF t < k - 1 THEN t + 1 ELSE IF t = k - 1 THEN 1 ELSE NULL
        BY <1>1, <3>1 DEF ListInv
      <4>2. next'[t] = IF t = k - 1 THEN k ELSE next[t]
        BY <2>1 DEF TypeOK
      <4> QED
        BY <1>2, <4>1, <4>2
    <3> QED
      BY <1>1, <1>2, <3>1, <3>2 DEF ListInv
  <2> QED
    BY <1>1, <1>5, <2>2, <2>3
<1> QED
  BY <1>3, <1>4

\* The store that closes the ring.
LEMMA LinkTaskInv == Inv /\ LinkTask => Inv'
<1> SUFFICES ASSUME Inv, LinkTask PROVE Inv'
  OBVIOUS
<1> USE DEF Inv
<1>1. /\ phase = "link" /\ ticked' = FALSE /\ next' = [next EXCEPT ![k] = head] /\ Advance
      /\ UNCHANGED <<head, state, current, ticks, wait>>
  BY DEF LinkTask
<1>2. Last = k /\ Last' = k /\ k \in Task /\ phase' \in {"add", "enter"} /\ k' \in Task
  BY <1>1 DEF Last, TypeOK, Advance
<1>3. TypeOK'
  BY <1>1, <1>2, ZenonT(40) DEF TypeOK
<1>4. ListInv'
  BY <1>1, <1>2 DEF ListInv, TypeOK
<1> QED
  BY <1>1, <1>2, <1>3, <1>4 DEF CurrentInv, WaitInv, Runnable

\* task_enter.
LEMMA TaskEnterInv == Inv /\ TaskEnter => Inv'
<1> SUFFICES ASSUME Inv, TaskEnter PROVE Inv'
  OBVIOUS
<1> USE DEF Inv
<1>1. /\ phase = "enter" /\ phase' = "run" /\ current' = 1
      /\ UNCHANGED <<head, next, state, k, ticked, ticks, wait>>
  BY DEF TaskEnter, listVars
<1>2. Last = NTasks /\ Last' = NTasks
  BY <1>1 DEF Last
<1>3. TypeOK' /\ ListInv' /\ CurrentInv'
  BY <1>1, <1>2 DEF TypeOK, ListInv, CurrentInv, Runnable
<1>4. ASSUME NEW t \in Task, t # 1
      PROVE  wait'[t] <= (NTasks - 1 - Dist(1, t)) * Quantum + ticks + 1
  <2>1. wait'[t] = 0 /\ ticks \in Nat
    BY <1>1 DEF WaitInv, TypeOK
  <2>2. NTasks - 1 - Dist(1, t) \in Nat
    BY <1>4 DEF Dist
  <2>3. (NTasks - 1 - Dist(1, t)) * Quantum \in Nat
    BY <2>2
  <2> QED
    BY <2>1, <2>3
<1>5. WaitInv'
  BY <1>1, <1>4 DEF WaitInv, Dist
<1> QED
  BY <1>1, <1>3, <1>5

\* schedule() takes a runnable task, or keeps the current one; nobody dies.
LEMMA ScheduleFacts ==
  ASSUME TypeOK, Schedule, SchedulerNext(state) # NULL =>
           SchedulerNext(state) \in Task /\ Runnable(state, SchedulerNext(state))
  PROVE  /\ state' \in [Task -> {"READY", "RUNNING", "DEAD"}]
         /\ current' = IF SchedulerNext(state) = NULL THEN current ELSE SchedulerNext(state)
         /\ \A t \in Task : Runnable(state', t) <=> Runnable(state, t)
<1> DEFINE n == SchedulerNext(state)
<1>1. IF n = NULL \/ n = current
      THEN UNCHANGED <<state, current>>
      ELSE /\ current' = n
           /\ state' = [t \in Task |->
                IF t = n THEN "RUNNING"
                ELSE IF t = current /\ state[t] = "RUNNING" THEN "READY"
                ELSE state[t]]
  BY DEF Schedule
<1>2. n # NULL => n \in Task /\ Runnable(state, n)
  OBVIOUS
<1> HIDE DEF n
<1>3. CASE n = NULL \/ n = current
  BY <1>1, <1>3 DEF n, TypeOK
<1>4. CASE ~(n = NULL \/ n = current)
  <2>1. state' \in [Task -> {"READY", "RUNNING", "DEAD"}]
    BY <1>1, <1>4 DEF TypeOK
  <2>2. \A t \in Task : Runnable(state', t) <=> Runnable(state, t)
    BY <1>1, <1>2, <1>4 DEF TypeOK, Runnable
  <2> QED
    BY <1>1, <1>4, <2>1, <2>2 DEF n
<1> QED
  BY <1>3, <1>4

\* A tick outside ring 3.
LEMMA BootTickInv == Inv /\ TimerTick /\ phase # "run" => Inv'
<1> SUFFICES ASSUME Inv, TimerTick, phase # "run" PROVE Inv'
  OBVIOUS
<1> USE DEF Inv
<1>1. /\ CanTick /\ ticks' = (ticks + 1) % Quantum /\ ticked' = (phase = "link")
      /\ wait' = [t \in Task |-> 0] /\ UNCHANGED <<head, next, k>>
  BY DEF TimerTick, listVars
<1>2. phase \in {"add", "link", "enter"} /\ (phase = "link" => ~ticked)
  BY <1>1 DEF CanTick
<1>3. /\ phase' = phase /\ state' \in [Task -> {"READY", "RUNNING", "DEAD"}] /\ current' \in 0 .. Last
      /\ \A t \in Task : Runnable(state', t)
  <2>1. CASE ticks' # 0
    <3>1. UNCHANGED <<state, current, phase>>
      BY <2>1 DEF TimerTick
    <3> QED
      BY <1>2, <3>1 DEF CurrentInv, TypeOK, Runnable
  <2>2. CASE ticks' = 0 /\ head = NULL
    <3>1. ~FollowsNull(state) /\ SchedulerNext(state) = NULL
      BY <2>2 DEF FollowsNull, SchedulerNext
    <3>2. UNCHANGED <<state, current, phase>>
      BY <2>2, <3>1 DEF TimerTick, Schedule
    <3> QED
      BY <1>2, <3>2 DEF CurrentInv, TypeOK, Runnable
  <2>3. CASE ticks' = 0 /\ head # NULL
    <3>1. ~FollowsNull(state) /\ SchedulerNext(state) = Start /\ Start \in 1 .. Last
      BY <1>1, <1>2, <2>3, NextAtBoot
    <3>2. Start \in Task /\ Start # NULL
      BY <3>1, Shape
    <3>3. Schedule /\ phase' = phase
      BY <2>3, <3>1 DEF TimerTick
    <3>4. \A t \in Task : Runnable(state, t)
      BY <1>2 DEF CurrentInv
    <3> QED
      BY <3>1, <3>2, <3>3, <3>4, ScheduleFacts
  <2> QED
    BY <2>1, <2>2, <2>3
<1>4. Last' = Last /\ Last \in 0 .. NTasks
  BY <1>1, <1>3, Shape DEF Last
<1>5. ticks' \in 0 .. (Quantum - 1)
  BY <1>1 DEF TypeOK
<1>6. ticked' \in BOOLEAN /\ (phase = "link" => ticked')
  BY <1>1, ZenonT(40)
<1>7. TypeOK'
  <2>1. current' \in {NULL} \cup Task /\ wait' \in [Task -> Nat]
    BY <1>1, <1>3, <1>4
  <2> QED
    BY <1>1, <1>2, <1>3, <1>5, <1>6, <2>1 DEF TypeOK
<1>8. ListInv'
  BY <1>1, <1>3, <1>4 DEF ListInv
<1>9. CurrentInv'
  <2>1. /\ current' \in 0 .. Last' /\ phase' # "run" /\ (phase' = "link" => ticked')
        /\ \A t \in Task : Runnable(state, t)'
    BY <1>2, <1>3, <1>4, <1>6 DEF Runnable
  <2> QED
    BY <2>1, ZenonT(40) DEF CurrentInv
<1>10. WaitInv'
  BY <1>1, <1>2, <1>3 DEF WaitInv
<1> QED
  BY <1>2, <1>3, <1>7, <1>8, <1>9, <1>10

\* A task behind the one that is entered has come nearer.
LEMMA Nearer ==
  ASSUME NEW c \in Task, NEW n \in Task, NEW t \in Task, t # n, Dist(c, n) <= Dist(c, t)
  PROVE  /\ Dist(n, t) \in 1 .. NTasks - 1 /\ Dist(c, t) \in 1 .. NTasks
         /\ Dist(n, t) < Dist(c, t)
         /\ (t = c => n # c)
BY DEF Dist

\* What is left of the wait bound of a task that is not current is not negative.
LEMMA BoundNat ==
  ASSUME NEW n \in Task, NEW t \in Task, t # n
  PROVE  /\ NTasks - 1 - Dist(n, t) \in Nat
         /\ (NTasks - 1 - Dist(n, t)) * Quantum \in Nat
<1>1. NTasks - 1 - Dist(n, t) \in Nat
  BY DEF Dist
<1>2. \A x \in Nat : x * Quantum \in Nat
  OBVIOUS
<1> QED
  BY <1>1, <1>2

\* Entering the nearest runnable task n after c leaves every other one within
\* its bound, when a whole quantum is granted for it.
LEMMA BoundMoves ==
  ASSUME NEW c \in Task, NEW n \in Task, NEW t \in Task, t # n, t # c, Dist(c, n) <= Dist(c, t)
  PROVE  (NTasks - 1 - Dist(c, t)) * Quantum + Quantum <= (NTasks - 1 - Dist(n, t)) * Quantum
<1>1. Dist(n, t) < Dist(c, t) /\ Dist(n, t) \in Int /\ Dist(c, t) \in Int
  BY Nearer
<1>2. /\ NTasks - 1 - Dist(c, t) \in Int /\ NTasks - 1 - Dist(n, t) \in Int
      /\ NTasks - 1 - Dist(c, t) < NTasks - 1 - Dist(n, t)
  BY <1>1
<1> QED
  BY <1>2, Slack

\* A tick in ring 3.
LEMMA RunTickInv == Inv /\ TimerTick /\ phase = "run" => Inv'
<1> SUFFICES ASSUME Inv, TimerTick, phase = "run" PROVE Inv'
  OBVIOUS
<1> USE DEF Inv
<1>1. /\ ticks' = (ticks + 1) % Quantum /\ ticked' = (phase = "link")
      /\ wait' = [t \in Task |-> IF t = current' \/ ~Runnable(state, t) THEN 0 ELSE wait[t] + 1]
      /\ UNCHANGED <<head, next, k>>
  BY DEF TimerTick, listVars
<1>2. /\ ticks \in 0 .. (Quantum - 1) /\ ticks' = IF ticks = Quantum - 1 THEN 0 ELSE ticks + 1
      /\ wait \in [Task -> Nat] /\ current \in Task /\ Runnable(state, current)
  <2>1. ticks \in 0 .. (Quantum - 1) /\ ticks + 1 \in 0 .. 2 * Quantum - 1
    BY DEF TypeOK
  <2> DEFINE y == ticks + 1
  <2>2. y \in 0 .. 2 * Quantum - 1 /\ ticks' = y % Quantum
    BY <1>1, <2>1
  <2> HIDE DEF y
  <2>3. ticks' = IF y < Quantum THEN y ELSE y - Quantum
    BY <2>2, Wraps, ZenonT(40)
  <2> QED
    BY <2>1, <2>3 DEF y, TypeOK, CurrentInv
<1>3. /\ phase' = "run" /\ state' \in [Task -> {"READY", "RUNNING", "DEAD"}]
      /\ current' \in Task /\ Runnable(state, current')
      /\ \A t \in Task : Runnable(state', t) <=> Runnable(state, t)
      /\ ticks' # 0 => current' = current
      /\ ticks' = 0 => \A t \in Task : Runnable(state, t) => Dist(current, current') <= Dist(current, t)
  <2>1. CASE ticks' # 0
    <3>1. UNCHANGED <<state, current, phase>>
      BY <2>1 DEF TimerTick
    <3> QED
      BY <1>2, <2>1, <3>1 DEF TypeOK
  <2>2. CASE ticks' = 0
    <3>1. /\ ~FollowsNull(state) /\ SchedulerNext(state) \in Task /\ Runnable(state, SchedulerNext(state))
          /\ \A t \in Task : Runnable(state, t) => Dist(current, SchedulerNext(state)) <= Dist(current, t)
      BY <1>2, NextInRing
    <3>2. Schedule /\ phase' = phase
      BY <2>2, <3>1 DEF TimerTick
    <3>3. /\ state' \in [Task -> {"READY", "RUNNING", "DEAD"}] /\ current' = SchedulerNext(state)
          /\ \A t \in Task : Runnable(state', t) <=> Runnable(state, t)
      BY <3>1, <3>2, ScheduleFacts
    <3> QED
      BY <2>2, <3>1, <3>2, <3>3
  <2> QED
    BY <2>1, <2>2
<1>4. Last = NTasks /\ Last' = NTasks
  BY <1>3 DEF Last
<1>5. TypeOK'
  <2>1. ticks' \in 0 .. (Quantum - 1) /\ wait' \in [Task -> Nat]
    BY <1>1, <1>2
  <2>2. ticked' \in BOOLEAN
    BY <1>1, ZenonT(40)
  <2> QED
    BY <1>1, <1>3, <2>1, <2>2 DEF TypeOK
<1>6. ListInv' /\ CurrentInv'
  <2>1. ListInv'
    BY <1>1, <1>3, <1>4 DEF ListInv
  <2>2. Runnable(state, current)'
    BY <1>3 DEF Runnable
  <2>3. CurrentInv'
    BY <1>3, <1>4, <2>2 DEF CurrentInv
  <2> QED
    BY <2>1, <2>3
<1>7. ASSUME NEW t \in Task, t # current', Runnable(state, t)
      PROVE  wait'[t] <= (NTasks - 1 - Dist(current', t)) * Quantum + ticks' + 1
  <2> DEFINE b == (NTasks - 1 - Dist(current', t)) * Quantum
             a == (NTasks - 1 - Dist(current, t)) * Quantum
  <2>1. wait'[t] = wait[t] + 1 /\ wait[t] \in Nat /\ b \in Nat
    BY <1>1, <1>2, <1>3, <1>7, BoundNat
  <2>2. t = current => wait[t] = 0
    BY DEF WaitInv
  <2>3. t # current => a \in Nat /\ wait[t] <= a + ticks + 1
    BY <1>2, <1>7, BoundNat DEF WaitInv
  <2>4. t # current /\ ticks' = 0 => a + Quantum <= b
    BY <1>2, <1>3, <1>7, BoundMoves
  <2>5. ticks' # 0 => a = b /\ t # current
    BY <1>3, <1>7
  <2> HIDE DEF a, b
  <2> SUFFICES wait'[t] <= b + ticks' + 1
    BY DEF b
  <2>6. CASE ticks' # 0
    BY <1>2, <2>1, <2>3, <2>5, <2>6
  <2>7. CASE ticks' = 0
    <3>1. ticks = Quantum - 1
      BY <1>2, <2>7
    <3>2. CASE t = current
      BY <2>1, <2>2, <2>7, <3>2
    <3>3. CASE t # current
      BY <2>1, <2>3, <2>4, <2>7, <3>1, <3>3
    <3> QED
      BY <3>2, <3>3
  <2> QED
    BY <2>6, <2>7
<1>8. WaitInv'
  <2>1. \A t \in Task : t = current' \/ ~Runnable(state, t) => wait'[t] = 0
    BY <1>1
  <2>2. \A t \in Task : Runnable(state, t)' <=> Runnable(state, t)
    BY <1>3 DEF Runnable
  <2> QED
    BY <1>3, <1>7, <2>1, <2>2 DEF WaitInv, Dist
<1> QED
  BY <1>3, <1>5, <1>6, <1>8

\* SYS_EXIT.
LEMMA ExitInv == Inv /\ Exit => Inv'
<1> SUFFICES ASSUME Inv, Exit PROVE Inv'
  OBVIOUS
<1> USE DEF Inv
<1> DEFINE n == SchedulerNext(state')
<1>1. /\ phase = "run" /\ state' = [state EXCEPT ![current] = "DEAD"]
      /\ UNCHANGED <<head, next, k, ticked, ticks>>
  BY DEF Exit, listVars
<1>2. /\ current \in Task /\ state' \in [Task -> {"READY", "RUNNING", "DEAD"}]
      /\ wait \in [Task -> Nat] /\ ticks \in 0 .. (Quantum - 1)
      /\ \A t \in Task : Runnable(state', t) <=> Runnable(state, t) /\ t # current
  BY <1>1 DEF TypeOK, CurrentInv, Runnable
<1>3. /\ ~FollowsNull(state')
      /\ \/ n = NULL /\ \A t \in Task : ~Runnable(state', t)
         \/ /\ n \in Task /\ Runnable(state', n)
            /\ \A t \in Task : Runnable(state', t) => Dist(current, n) <= Dist(current, t)
  BY <1>1, NextInRing, ZenonT(40)
<1>4. IF n = NULL THEN phase' = "halted" /\ UNCHANGED <<current, wait>>
      ELSE current' = n /\ wait' = [wait EXCEPT ![n] = 0] /\ phase' = phase
  BY <1>3, ZenonT(40) DEF Exit
<1> HIDE DEF n
<1>5. Last = NTasks /\ Last' = NTasks
  BY <1>1, <1>4 DEF Last
<1>6. \A t \in Task : Runnable(state, t)' <=> Runnable(state', t)
  BY DEF Runnable
<1>7. CASE n = NULL
  <2>1. phase' = "halted" /\ UNCHANGED <<current, wait>> /\ \A t \in Task : ~Runnable(state', t)
    BY <1>3, <1>4, <1>7
  <2>2. TypeOK' /\ ListInv' /\ CurrentInv'
    <3>1. TypeOK'
      BY <1>1, <1>2, <2>1 DEF TypeOK
    <3>2. ListInv'
      BY <1>1, <1>5, <2>1 DEF ListInv
    <3>3. CurrentInv'
      BY <1>2, <1>5, <2>1 DEF CurrentInv
    <3> QED
      BY <3>1, <3>2, <3>3
  <2>3. WaitInv'
    BY <1>1, <1>2, <2>1, ZenonT(40) DEF WaitInv
  <2> QED
    BY <2>1, <2>2, <2>3
<1>8. CASE n # NULL
  <2>1. /\ n \in Task /\ Runnable(state', n)
        /\ \A t \in Task : Runnable(state', t) => Dist(current, n) <= Dist(current, t)
        /\ current' = n /\ wait' = [wait EXCEPT ![n] = 0] /\ phase' = "run"
    BY <1>1, <1>3, <1>4, <1>8, ZenonT(40)
  <2>2. TypeOK' /\ ListInv' /\ CurrentInv'
    <3>1. TypeOK'
      BY <1>1, <1>2, <2>1 DEF TypeOK
    <3>2. ListInv'
      BY <1>1, <1>5, <2>1 DEF ListInv
    <3>3. CurrentInv'
      BY <1>1, <1>2, <1>5, <1>6, <2>1 DEF CurrentInv
    <3> QED
      BY <3>1, <3>2, <3>3
  <2>3. ASSUME NEW t \in Task, t # n, Runnable(state', t)
        PROVE  wait'[t] <= (NTasks - 1 - Dist(n, t)) * Quantum + ticks' + 1
    <3> DEFINE b == (NTasks - 1 - Dist(n, t)) * Quantum
               a == (NTasks - 1 - Dist(current, t)) * Quantum
    <3>1. t # current /\ Runnable(state, t) /\ wait'[t] = wait[t] /\ wait[t] \in Nat /\ a \in Nat /\ b \in Nat
      BY <1>2, <2>1, <2>3, BoundNat
    <3>2. wait[t] <= a + ticks + 1
      BY <1>1, <3>1 DEF WaitInv
    <3>3. a + Quantum <= b
      BY <1>2, <2>1, <2>3, <3>1, BoundMoves
    <3> HIDE DEF a, b
    <3> SUFFICES wait'[t] <= b + ticks' + 1
      BY DEF b
    <3> QED
      BY <1>1, <1>2, <3>1, <3>2, <3>3
  <2>4. \A t \in Task : t = n \/ ~Runnable(state', t) => wait'[t] = 0
    BY <1>1, <1>2, <2>1 DEF WaitInv
  <2>5. WaitInv'
    BY <1>6, <2>1, <2>3, <2>4 DEF WaitInv, Dist
  <2> QED
    BY <2>1, <2>2, <2>5
<1> QED
  BY <1>7, <1>8

\* Every step keeps the invariant.
LEMMA StepInv == Inv /\ [Next]_vars => Inv'
<1> SUFFICES ASSUME Inv, [Next]_vars PROVE Inv'
  OBVIOUS
<1>1. CASE Next
  BY <1>1, AddTaskInv, LinkTaskInv, TaskEnterInv, BootTickInv, RunTickInv, ExitInv DEF Next
<1>2. CASE UNCHANGED vars
  BY <1>2, ZenonT(40) DEF vars, listVars, bootVars, Inv, TypeOK, ListInv, CurrentInv, WaitInv, Last, Runnable
<1> QED
  BY <1>1, <1>2

LEMMA Invariance == Spec => []Inv
BY InitInv, StepInv, PTL DEF Spec

\* lapic_timer_handler and SYS_EXIT never follow a null pointer of the run queue,
\* also when a tick interrupts scheduler_add_task between its two stores.
THEOREM QueueNeverFollowsNullAlways == Spec => []QueueNeverFollowsNull
<1>1. Inv => QueueNeverFollowsNull
  BY DEF Inv, QueueNeverFollowsNull
<1> QED
  BY <1>1, Invariance, PTL

\* No live task waits for the processor longer than one SCHED_QUANTUM for each of
\* the other tasks: after schedule() every task is nearer to its turn.
THEOREM QueueBoundedWaitAlways == Spec => []QueueBoundedWait
<1>1. ASSUME Inv PROVE QueueBoundedWait
  <2> SUFFICES ASSUME NEW t \in Task PROVE wait[t] <= (NTasks - 1) * Quantum
    BY DEF QueueBoundedWait
  <2>0. (NTasks - 1) * Quantum \in Nat
    <3>1. \A x \in Nat : x * Quantum \in Nat
      OBVIOUS
    <3> QED
      BY <3>1
  <2>1. CASE phase = "run" /\ t # current /\ Runnable(state, t)
    <3> DEFINE a == NTasks - 1 - Dist(current, t)
    <3>1. current \in Task /\ ticks \in 0 .. (Quantum - 1) /\ wait[t] \in Nat
      BY <1>1, <2>1 DEF Inv, TypeOK, CurrentInv
    <3>2. a \in Nat /\ a * Quantum \in Nat
      BY <2>1, <3>1, BoundNat
    <3>3. a < NTasks - 1
      BY <2>1, <3>1 DEF Dist
    <3>4. wait[t] <= a * Quantum + ticks + 1
      BY <1>1, <2>1 DEF Inv, WaitInv
    <3> HIDE DEF a
    <3>5. a * Quantum + Quantum <= (NTasks - 1) * Quantum
      BY <3>2, <3>3, Slack
    <3> QED
      BY <2>0, <3>1, <3>2, <3>4, <3>5
  <2>2. CASE ~(phase = "run" /\ t # current /\ Runnable(state, t))
    BY <1>1, <2>0, <2>2 DEF Inv, WaitInv
  <2> QED
    BY <2>1, <2>2
<1> QED
  BY <1>1, Invariance, PTL
-----------------------------------------------------------------------------
(* The list implements the ring of RoundRobin.                             *)

\* The list is the sequence of the tasks queued so far.
LEMMA QueueSeq == Inv => QueueOf = [i \in 1 .. Last |-> i] /\ Last \in 0 .. NTasks
BY QueueIs, Shape DEF Inv

\* Where the abstract search starts, and what it visits.
LEMMA RingSearch ==
  ASSUME Inv, Last > 0,
         NEW s, s = IF current = NULL THEN 1 ELSE IF current < Last THEN current + 1 ELSE 1
  PROVE  /\ s \in 1 .. Last /\ Len(QueueOf) = Last /\ RR!Queued = 1 .. Last
         /\ RR!StartIndex = s
         /\ \A d \in 0 .. Last - 1 : RR!Visited(d) = Around(s, d, Last)
<1>1. /\ QueueOf = [i \in 1 .. Last |-> i] /\ Last \in 1 .. NTasks /\ current \in 0 .. Last
      /\ Last \in Nat \ {0}
  BY QueueSeq DEF Inv, CurrentInv
<1> DEFINE q == QueueOf
           n == Last
<1>2. q = [i \in 1 .. n |-> i] /\ n \in Nat \ {0} /\ current \in 0 .. n
  BY <1>1
<1> HIDE DEF q, n
<1>3. q \in Seq(1 .. n) /\ DOMAIN q = 1 .. n /\ \A i \in 1 .. n : q[i] = i
  BY <1>2
<1>4. Len(q) = n
  BY <1>2, <1>3
<1>5. RR!Queued = 1 .. Last
  <2>1. RR!Queued = {q[i] : i \in DOMAIN q}
    BY DEF RR!Queued, q
  <2> QED
    BY <1>3, <2>1 DEF n
<1>6. s \in 1 .. n
  BY <1>2 DEF n
<1>7. RR!StartIndex = s
  <2>1. RR!StartIndex = IF current = NULL THEN 1
                        ELSE ((CHOOSE i \in DOMAIN q : q[i] = current) % n) + 1
    BY <1>4 DEF RR!StartIndex, RR!NULL, q
  <2>2. CASE current = NULL
    BY <2>1, <2>2
  <2>3. CASE current # NULL
    <3>1. (CHOOSE i \in DOMAIN q : q[i] = current) = current
      BY <1>2, <1>3, <2>3
    <3>2. current \in 0 .. 2 * n - 1
      BY <1>2
    <3>3. current % n = IF current < n THEN current ELSE current - n
      BY <1>2, <3>2, Wraps, ZenonT(40)
    <3>4. RR!StartIndex = (current % n) + 1
      BY <2>1, <2>3, <3>1, ZenonT(40)
    <3>5. RR!StartIndex = (IF current < n THEN current ELSE current - n) + 1
      BY <3>3, <3>4, ZenonT(40)
    <3> QED
      BY <1>2, <2>3, <3>5 DEF n
  <2> QED
    BY <2>2, <2>3
<1>8. ASSUME NEW d \in 0 .. n - 1
      PROVE  RR!Visited(d) = Around(s, d, n)
  <2> DEFINE x == s + d - 1
  <2>1. RR!Visited(d) = q[(x % n) + 1]
    BY <1>4, <1>7 DEF RR!Visited, q
  <2>2. x \in 0 .. 2 * n - 1
    BY <1>2, <1>6
  <2> HIDE DEF x
  <2>3. x % n = IF x < n THEN x ELSE x - n
    BY <1>2, <2>2, Wraps, ZenonT(40)
  <2>4. (x % n) + 1 = Around(s, d, n) /\ Around(s, d, n) \in 1 .. n
    BY <1>2, <1>6, <2>3 DEF x, Around
  <2> QED
    BY <1>3, <2>1, <2>4
<1> QED
  BY <1>4, <1>5, <1>6, <1>7, <1>8 DEF q, n

\* scheduler_next in ring 3, for any task states.
LEMMA RingNext ==
  ASSUME Inv, phase = "run", NEW st
  PROVE  /\ ~FollowsNull(st) /\ SchedulerNext(st) \in Task \cup {NULL}
         /\ RR!SchedulerNext(st, SchedulerNext(st))
<1> DEFINE n == SchedulerNext(st)
           s == IF current = NULL THEN 1 ELSE IF current < Last THEN current + 1 ELSE 1
<1>1. Last = NTasks /\ current \in 1 .. NTasks
  BY DEF Last, Inv, CurrentInv
<1>2. /\ s \in 1 .. NTasks /\ RR!Queued = 1 .. NTasks /\ Len(QueueOf) = NTasks
      /\ \A d \in 0 .. NTasks - 1 : RR!Visited(d) = Around(s, d, NTasks)
  BY <1>1, RingSearch
<1>3. /\ ~FollowsNull(st)
      /\ \/ n = NULL /\ \A t \in Task : ~Runnable(st, t)
         \/ /\ n \in Task /\ Runnable(st, n)
            /\ \A t \in Task : Runnable(st, t) => Dist(current, n) <= Dist(current, t)
  BY NextInRing DEF Inv
<1>4. s = IF current < NTasks THEN current + 1 ELSE 1
  BY <1>1
<1> HIDE DEF n, s
<1>5. CASE n = NULL /\ \A t \in Task : ~Runnable(st, t)
  BY <1>2, <1>3, <1>5 DEF RR!SchedulerNext, RR!NULL, RR!Runnable, Runnable, n
<1>6. CASE /\ n \in Task /\ Runnable(st, n)
           /\ \A t \in Task : Runnable(st, t) => Dist(current, n) <= Dist(current, t)
  <2> DEFINE d == Dist(current, n) - 1
  <2>1. d \in 0 .. NTasks - 1 /\ Around(s, d, NTasks) = n
    BY <1>1, <1>4, <1>6 DEF Dist, Around
  <2>2. ASSUME NEW e \in 0 .. d - 1
        PROVE  ~Runnable(st, RR!Visited(e))
    <3> DEFINE t == Around(s, e, NTasks)
    <3>0. e \in 0 .. NTasks - 2 /\ e + 1 < Dist(current, n)
      <4>1. d \in 0 .. NTasks - 1 /\ e \in 0 .. d - 1 /\ Dist(current, n) = d + 1
        BY <1>1, <1>6, <2>1, <2>2 DEF Dist
      <4> HIDE DEF d
      <4> QED
        BY <4>1
    <3>1. t \in Task /\ Dist(current, t) = e + 1
      BY <1>1, <1>4, <3>0 DEF Dist, Around
    <3>2. Dist(current, t) < Dist(current, n)
      BY <3>0, <3>1
    <3>3. RR!Visited(e) = t
      BY <1>2, <3>0
    <3>4. Dist(current, t) \in Int /\ Dist(current, n) \in Int
      BY <1>1, <1>6, <3>1 DEF Dist
    <3> HIDE DEF t
    <3>5. ~(Dist(current, n) <= Dist(current, t))
      BY <3>2, <3>4
    <3> QED
      BY <1>6, <3>1, <3>3, <3>5, ZenonT(40)
  <2>3. RR!Visited(d) = n /\ d \in 0 .. (Len(QueueOf) - 1)
    BY <1>2, <2>1
  <2> HIDE DEF d
  <2>4. \E x \in 0 .. (Len(QueueOf) - 1) :
          /\ n = RR!Visited(x) /\ Runnable(st, n)
          /\ \A e \in 0 .. (x - 1) : ~Runnable(st, RR!Visited(e))
    BY <1>6, <2>2, <2>3
  <2>5. RR!SchedulerNext(st, n)
    BY <2>4 DEF RR!SchedulerNext, RR!Runnable, Runnable
  <2> QED
    BY <1>3, <1>6, <2>5 DEF n
<1> QED
  BY <1>3, <1>5, <1>6

\* scheduler_next from a tick during boot, once a task is queued.
LEMMA RingNextAtBoot ==
  ASSUME Inv, phase \in {"add", "link", "enter"}, CanTick, head # NULL
  PROVE  /\ ~FollowsNull(state) /\ SchedulerNext(state) \in Task
         /\ RR!SchedulerNext(state, SchedulerNext(state))
<1>1. /\ Start \in 1 .. Last /\ ~FollowsNull(state) /\ SchedulerNext(state) = Start
      /\ Start = IF current = NULL THEN 1 ELSE IF current < Last THEN current + 1 ELSE 1
  BY NextAtBoot DEF Inv
<1>2. Last \in 1 .. NTasks /\ Start \in Task
  BY <1>1, QueueSeq
<1>3. Len(QueueOf) = Last /\ RR!Visited(0) = Around(Start, 0, Last)
  BY <1>1, <1>2, RingSearch
<1>4. RR!Visited(0) = Start /\ 0 \in 0 .. (Len(QueueOf) - 1)
  BY <1>1, <1>2, <1>3 DEF Around
<1>5. Runnable(state, Start)
  BY <1>2 DEF Inv, CurrentInv
<1>6. RR!SchedulerNext(state, Start)
  BY <1>4, <1>5 DEF RR!SchedulerNext, RR!Runnable, Runnable
<1> QED
  BY <1>1, <1>2, <1>6

\* A tick is a preemption of the ring, or changes nothing there.
LEMMA TickRefines ==
  ASSUME Inv, TimerTick, QueueOf' = QueueOf
  PROVE  RR!Preempt \/ UNCHANGED RR!rrVars
<1> DEFINE n == SchedulerNext(state)
<1>1. CASE UNCHANGED <<state, current>>
  BY <1>1 DEF RR!rrVars
<1>2. CASE ~UNCHANGED <<state, current>>
  <2>1. /\ CanTick /\ Schedule
    BY <1>2 DEF TimerTick
  <2>2. head # NULL
    <3> SUFFICES ASSUME head = NULL PROVE FALSE
      OBVIOUS
    <3>1. n = NULL
      BY DEF SchedulerNext
    <3> QED
      BY <1>2, <2>1, <3>1 DEF Schedule
  <2>3. n \in Task \cup {NULL} /\ RR!SchedulerNext(state, n)
    <3>1. CASE phase = "run"
      BY <3>1, RingNext
    <3>2. CASE phase # "run"
      <4>1. phase \in {"add", "link", "enter"}
        BY <2>1, <3>2 DEF CanTick
      <4> QED
        BY <2>1, <2>2, <4>1, RingNextAtBoot
    <3> QED
      BY <3>1, <3>2
  <2>4. IF n = NULL \/ n = current
        THEN UNCHANGED <<state, current>>
        ELSE /\ current' = n
             /\ state' = [t \in Task |->
                  IF t = n THEN "RUNNING"
                  ELSE IF t = current /\ state[t] = "RUNNING" THEN "READY"
                  ELSE state[t]]
    BY <2>1 DEF Schedule
  <2> HIDE DEF n
  <2>5. RR!Schedule
    BY <2>3, <2>4 DEF RR!Schedule, RR!Task, RR!NULL
  <2> QED
    BY <2>5 DEF RR!Preempt
<1> QED
  BY <1>1, <1>2

\* An exit is an exit of the ring.
LEMMA ExitRefines ==
  ASSUME Inv, Exit, QueueOf' = QueueOf
  PROVE  RR!Exit
<1> DEFINE n == SchedulerNext(state')
<1>1. /\ phase = "run" /\ current \in Task /\ Runnable(state, current)
      /\ state' = [state EXCEPT ![current] = "DEAD"]
  BY DEF Exit, Inv, CurrentInv
<1>2. ~FollowsNull(state') /\ n \in Task \cup {NULL} /\ RR!SchedulerNext(state', n)
  BY <1>1, RingNext
<1>3. current' = IF n = NULL THEN current ELSE n
  BY <1>2 DEF Exit
<1> HIDE DEF n
<1>4. \E m \in RR!Task \cup {RR!NULL} :
        /\ RR!SchedulerNext(state', m)
        /\ current' = IF m = RR!NULL THEN current ELSE m
  BY <1>2, <1>3 DEF RR!Task, RR!NULL
<1>5. current # RR!NULL /\ RR!Runnable(state, current)
  BY <1>1 DEF RR!NULL, RR!Runnable, Runnable
<1> QED
  BY <1>1, <1>4, <1>5 DEF RR!Exit

\* Every step of the list is a step of the ring, or none.
LEMMA StepRefines ==
  ASSUME Inv, Inv', [Next]_vars,
         (QueueOf = [i \in 1 .. Last |-> i] /\ Last \in 0 .. NTasks)'
  PROVE  [RR!Next]_RR!rrVars
<1>1. QueueOf = [i \in 1 .. Last |-> i] /\ Last \in 0 .. NTasks
  BY QueueSeq
<1>2. QueueOf' = [i \in 1 .. Last' |-> i] /\ Last' \in 0 .. NTasks
  OBVIOUS
<1>3. Last' = Last => QueueOf' = QueueOf
  BY <1>1, <1>2
<1>4. CASE AddTask
  <2>1. Last = k - 1 /\ Last' = k /\ k \in Task /\ UNCHANGED current
        /\ state' = [state EXCEPT ![k] = "READY"]
    BY <1>4 DEF AddTask, Last, Inv, TypeOK
  <2>2. QueueOf = [i \in 1 .. k - 1 |-> i] /\ QueueOf' = [i \in 1 .. k |-> i]
    BY <1>1, <1>2, <2>1
  <2>3. [i \in 1 .. k - 1 |-> i] \in Seq(Nat) /\ Len([i \in 1 .. k - 1 |-> i]) = k - 1
    BY <2>1
  <2>4. QueueOf' = Append(QueueOf, k)
    BY <2>1, <2>2, <2>3
  <2>5. k \notin RR!Queued
    BY <2>1, <2>2 DEF RR!Queued
  <2>6. RR!Add(k) /\ k \in RR!Task
    BY <2>1, <2>4, <2>5, ZenonT(40) DEF RR!Add, RR!Task
  <2> QED
    BY <2>6 DEF RR!Next
<1>5. CASE LinkTask
  <2>1. /\ phase = "link" /\ k \in 1 .. NTasks /\ UNCHANGED <<state, current>>
        /\ IF k < NTasks THEN k' = k + 1 /\ phase' = "add" ELSE k' = 1 /\ phase' = "enter"
    BY <1>5 DEF LinkTask, Advance, Inv, TypeOK
  <2>2. Last = k
    BY <2>1 DEF Last
  <2>3. Last' = k
    BY <2>1 DEF Last
  <2> QED
    BY <1>3, <2>1, <2>2, <2>3 DEF RR!rrVars
<1>6. CASE TaskEnter
  <2>1. /\ Last = NTasks /\ Last' = Last /\ current' = 1 /\ UNCHANGED state
        /\ Runnable(state, 1)
    BY <1>6 DEF TaskEnter, Last, Inv, CurrentInv
  <2>2. 1 \in RR!Queued
    BY <1>1, <2>1 DEF RR!Queued
  <2>3. RR!Enter
    BY <1>3, <2>1, <2>2 DEF RR!Enter, RR!Runnable, Runnable
  <2> QED
    BY <2>3 DEF RR!Next
<1>7. CASE TimerTick
  <2>1. Last' = Last
    <3>1. phase' # "crashed" /\ k' = k
      BY <1>7 DEF TimerTick, Inv
    <3>2. phase' = phase
      BY <1>7, <3>1 DEF TimerTick
    <3> QED
      BY <3>1, <3>2 DEF Last
  <2> QED
    BY <1>3, <1>7, <2>1, TickRefines DEF RR!Next
<1>8. CASE Exit
  <2>1. Last' = Last
    <3>1. phase = "run" /\ phase' \in {"run", "halted", "crashed"}
      BY <1>8 DEF Exit
    <3> QED
      BY <3>1 DEF Last
  <2> QED
    BY <1>3, <1>8, <2>1, ExitRefines DEF RR!Next
<1>9. CASE UNCHANGED vars
  <2>1. Last' = Last /\ UNCHANGED <<state, current>>
    BY <1>9 DEF vars, bootVars, Last
  <2> QED
    BY <1>3, <2>1 DEF RR!rrVars
<1> QED
  BY <1>4, <1>5, <1>6, <1>7, <1>8, <1>9 DEF Next

\* The linked list of scheduler.c, linked with two stores per task while ticks
\* come, implements the abstract ring: scheduler_next's walk along task->next
\* takes the task that the ring's search takes.
THEOREM QueueRefinesRoundRobin == Spec => QueueImplementsRoundRobin
<1>1. Init => RR!Init
  <2> SUFFICES ASSUME Init PROVE RR!Init
    OBVIOUS
  <2>1. QueueOf = [i \in 1 .. 0 |-> i]
    BY InitInv, QueueSeq DEF Init, Last
  <2> QED
    BY <2>1 DEF Init, RR!Init, RR!Task, RR!NULL
<1>2. Inv' => (QueueOf = [i \in 1 .. Last |-> i] /\ Last \in 0 .. NTasks)'
  BY QueueSeq, PTL
<1>3. Inv /\ Inv' /\ [Next]_vars => [RR!Next]_RR!rrVars
  BY <1>2, StepRefines
<1> QED
  BY <1>1, <1>3, Invariance, PTL DEF Spec, QueueImplementsRoundRobin, RR!Spec
=============================================================================
