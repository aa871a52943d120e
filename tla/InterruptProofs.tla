-------------------------- MODULE InterruptProofs --------------------------
(***************************************************************************)
(* Proofs about the way of an interrupt: the timer, for every length of    *)
(* the quantum and every machine (Timer), the redirection entries, for any *)
(* I/O APICs and any firmware that describes each of them once (Ioapic),   *)
(* and the entries to the kernel, for any number of tasks (Entry).         *)
(***************************************************************************)
EXTENDS Entry, Timer, Ioapic, WellFoundedInduction, TLAPS

\* Time for a leaf, in seconds.
USE SMTT(40), ZenonT(40)

-----------------------------------------------------------------------------
(* The timer.                                                              *)

\* Until apic_timer_init has run there is no mode; the modes are chosen for
\* what the machine has; the handler runs with the interrupt in service.
ModeInv ==
  /\ pc \in {"apic_init", "tsc_init", "timer_init"} => mode = "off"
  /\ x2apic_enabled => machine.x2apic
  /\ mode = "deadline" => machine.deadline
  /\ pc \in {"handler", "eoi"} => isr

TimerInv == TimerTypeOK /\ ModeInv /\ PanicOnlyOnRearm /\ DeadlineAlive

\* The initial states satisfy the invariant.
LEMMA TimerInitInv == TimerInit => TimerInv
<1> SUFFICES ASSUME TimerInit PROVE TimerInv
  OBVIOUS
<1>1. machine.svr \in BOOLEAN
  BY DEF TimerInit, Machine
<1>2. svr \in BOOLEAN
  BY <1>1, ZenonT(40) DEF TimerInit
<1>3. TimerTypeOK
  <2>1. lapic_ticks \in 0 .. SCHED_QUANTUM - 1
    BY QuantumAssumption DEF TimerInit
  <2> QED
    BY <1>2, <2>1, ZenonT(40) DEF TimerInit, TimerTypeOK
<1> QED
  BY <1>3 DEF TimerInit, TimerInv, ModeInv, PanicOnlyOnRearm, DeadlineAlive

\* The tick counter stays below the quantum.
LEMMA TickRange == ASSUME lapic_ticks \in 0 .. SCHED_QUANTUM - 1 PROVE Tick \in 0 .. SCHED_QUANTUM - 1
BY QuantumAssumption DEF Tick

\* Every step keeps the types.
LEMMA TimerStepType == TimerTypeOK /\ [TimerNext]_timerVars => TimerTypeOK'
<1> SUFFICES ASSUME TimerTypeOK, [TimerNext]_timerVars PROVE TimerTypeOK'
  OBVIOUS
<1> USE DEF TimerTypeOK, config, hardware
<1>1. CASE lapic_init
  <2>1. machine.x2apic \in BOOLEAN
    BY DEF Machine
  <2>2. x2apic_enabled' \in BOOLEAN /\ svr' \in BOOLEAN
    BY <1>1, <2>1, ZenonT(40) DEF lapic_init
  <2> QED
    BY <1>1, <2>2 DEF lapic_init
<1>2. CASE tsc_init
  BY <1>2 DEF tsc_init, Machine
<1>3. CASE apic_timer_init
  BY <1>3 DEF apic_timer_init
<1>4. CASE Fire
  BY <1>4 DEF Fire
<1>5. CASE Deliver
  BY <1>5, ZenonT(40) DEF Deliver
<1>6. CASE WriteDeadline
  BY <1>6 DEF WriteDeadline
<1>7. CASE FinishTick
  <2>1. isr' \in BOOLEAN
    BY <1>7, ZenonT(40) DEF FinishTick, Eoi
  <2>2. lapic_ticks' \in 0 .. SCHED_QUANTUM - 1
    BY <1>7, TickRange DEF FinishTick
  <2>3. schedules' \in {0, 1}
    BY <1>7 DEF FinishTick
  <2> QED
    BY <1>7, <2>1, <2>2, <2>3 DEF FinishTick
<1>8. CASE Disable \/ Enable
  BY <1>8, ZenonT(40) DEF Disable, Enable
<1>9. CASE UNCHANGED timerVars
  BY <1>9 DEF timerVars
<1> QED
  BY <1>1, <1>2, <1>3, <1>4, <1>5, <1>6, <1>7, <1>8, <1>9 DEF TimerNext, Quiet

\* Every step keeps the rest of the invariant.
LEMMA TimerStepInv == TimerInv /\ [TimerNext]_timerVars => TimerInv'
<1> SUFFICES ASSUME TimerInv, [TimerNext]_timerVars PROVE ModeInv' /\ PanicOnlyOnRearm' /\ DeadlineAlive'
  BY TimerStepType DEF TimerInv
<1> USE DEF TimerInv, TimerTypeOK, Machine, ModeInv, PanicOnlyOnRearm, DeadlineAlive, config, hardware
<1>1. CASE lapic_init
  BY <1>1 DEF lapic_init
<1>2. CASE tsc_init
  BY <1>2 DEF tsc_init
<1>3. CASE apic_timer_init
  BY <1>3 DEF apic_timer_init, use_tsc_deadline
<1>4. CASE Fire
  BY <1>4 DEF Fire
<1>5. CASE Deliver
  BY <1>5 DEF Deliver
<1>6. CASE WriteDeadline
  BY <1>6 DEF WriteDeadline, Rearm
<1>7. CASE FinishTick
  BY <1>7 DEF FinishTick, Eoi
<1>8. CASE Disable \/ Enable
  BY <1>8 DEF Disable, Enable
<1>9. CASE UNCHANGED timerVars
  BY <1>9 DEF timerVars
<1> QED
  BY <1>1, <1>2, <1>3, <1>4, <1>5, <1>6, <1>7, <1>8, <1>9 DEF TimerNext, Quiet

\* The invariant holds for ever.
LEMMA TimerInvariant == TimerSpec => []TimerInv
BY TimerInitInv, TimerStepInv, PTL DEF TimerSpec

\* apic_timer_init never writes a deadline register the processor does not
\* have; the handler does so only with x2APIC and no deadline mode.
THEOREM PanicOnlyOnRearmAlways == TimerSpec => []PanicOnlyOnRearm
<1>1. TimerInv => PanicOnlyOnRearm
  BY DEF TimerInv
<1> QED
  BY <1>1, TimerInvariant, PTL

\* In deadline mode with x2APIC no interleaving of the timer with the handler
\* lets the timer run out: it counts, its interrupt waits, or the handler is
\* about to re-arm it.
THEOREM DeadlineAliveAlways == TimerSpec => []DeadlineAlive
<1>1. TimerInv => DeadlineAlive
  BY DEF TimerInv
<1> QED
  BY <1>1, TimerInvariant, PTL

\* The types, with the tick counter below the quantum.
THEOREM TimerTypeCorrect == TimerSpec => []TimerTypeOK
<1>1. TimerInv => TimerTypeOK
  BY DEF TimerInv
<1> QED
  BY <1>1, TimerInvariant, PTL

-----------------------------------------------------------------------------
(* The I/O APICs: which entry serves a line.                               *)

USE ChipsAssumption DEF Pins

\* What ioapics[] holds.
Ioapics == [chip : Chips, gsi_base : Nat, max_redirection : {MaxPin}]

\* No chip is listed twice.
EachOnce == \A i, j \in 1 .. Len(ioapics) : ioapics[i].chip = ioapics[j].chip => i = j

\* A set of numbers that is not empty has its Min.
LEMMA MinOf ==
  ASSUME NEW S, S \subseteq Nat, S # {}
  PROVE  Min(S) \in S
<1>1. PICK n \in S : \A m \in S : ~(<<m, n>> \in OpToRel(<, Nat))
  BY NatLessThanWellFounded, WFMin, ZenonT(40)
<1>2. \A m \in S : ~(m < n)
  BY <1>1, ZenonT(40) DEF OpToRel
<1>3. \A m \in S : n <= m
  BY <1>2
<1> QED
  BY <1>3, ZenonT(40) DEF Min

\* ioapic_for_gsi returns an entry of a chip that was found.
LEMMA ForGsi ==
  ASSUME ioapics \in Seq(Ioapics), NEW g \in Irqs, ioapic_for_gsi(g) # <<>>
  PROVE  \E i \in 1 .. Len(ioapics) :
           /\ ioapic_for_gsi(g) = <<ioapics[i].chip, g - ioapics[i].gsi_base>>
           /\ ioapics[i].chip \in Chips /\ ioapics[i].gsi_base \in Nat /\ g - ioapics[i].gsi_base \in Pins
<1> DEFINE S == {i \in 1 .. Len(ioapics) : Covers(ioapics[i], g)}
           i == Min(S)
<1>1. S # {} /\ ioapic_for_gsi(g) = <<ioapics[i].chip, g - ioapics[i].gsi_base>>
  BY DEF ioapic_for_gsi
<1>2. i \in S
  <2>1. S \subseteq Nat
    OBVIOUS
  <2> HIDE DEF S
  <2> QED
    BY <1>1, <2>1, MinOf, ZenonT(40)
<1> HIDE DEF i
<1>3. ioapics[i] \in Ioapics /\ i \in 1 .. Len(ioapics) /\ Covers(ioapics[i], g)
  BY <1>2
<1>4. g - ioapics[i].gsi_base \in Pins
  BY <1>3 DEF Covers, Ioapics
<1> QED
  BY <1>1, <1>3, <1>4 DEF Ioapics

\* Two lines never share an entry.
LEMMA OneLine ==
  ASSUME ioapics \in Seq(Ioapics), EachOnce, NEW g \in Irqs, NEW h \in Irqs,
         ioapic_for_gsi(g) # <<>>, ioapic_for_gsi(g) = ioapic_for_gsi(h)
  PROVE  g = h
<1>1. PICK i \in 1 .. Len(ioapics) :
        /\ ioapic_for_gsi(g) = <<ioapics[i].chip, g - ioapics[i].gsi_base>>
        /\ ioapics[i].gsi_base \in Nat
  BY ForGsi
<1>2. PICK j \in 1 .. Len(ioapics) :
        /\ ioapic_for_gsi(h) = <<ioapics[j].chip, h - ioapics[j].gsi_base>>
        /\ ioapics[j].gsi_base \in Nat
  BY ForGsi
<1>3. <<ioapics[i].chip, g - ioapics[i].gsi_base>> = <<ioapics[j].chip, h - ioapics[j].gsi_base>>
  BY <1>1, <1>2, ZenonT(40)
<1>4. ioapics[i].chip = ioapics[j].chip /\ g - ioapics[i].gsi_base = h - ioapics[j].gsi_base
  BY <1>3, ZenonT(40)
<1>5. i = j
  BY <1>4, ZenonT(40) DEF EachOnce
<1> DEFINE b == ioapics[i].gsi_base
<1>6. b \in Nat /\ g - b = h - b
  BY <1>1, <1>4, <1>5, ZenonT(40)
<1> HIDE DEF b
<1> QED
  BY <1>6

-----------------------------------------------------------------------------
(* The I/O APICs: the inductive invariant.                                 *)

\* The walk has come to an entry without length and never leaves it.
Stuck == stage = "walk" /\ walked < Len(Entries) /\ Entries[walked + 1].length = 0

\* Boot lists each chip once, unless it is stuck; nobody asks before it is done.
BootInv ==
  /\ stage = "acpi" => todo = <<>> /\ ioapics = <<>> /\ walked = 0
  /\ stage = "walk" => acpi_get_madt # <<>> /\ walked <= Len(Entries)
  /\ stage # "up" => \A g \in Irqs : want[g] = None
  /\ stage # "acpi" /\ ~Stuck => EachOnce
  /\ stage = "walk" /\ ~Stuck =>
       \A i \in 1 .. Len(ioapics) : \E j \in IoapicsIn(acpi_get_madt[1]) :
         j <= walked /\ ioapics[i].chip = Entries[j].chip

\* Pin p of chip c is masked, or one of the next n writes masks it.
Shut(c, p, n) == redir[c][p].masked \/ \E j \in 1 .. n : todo[j] = Low(c, p, 0, TRUE)

\* The writes of ioapic_init_one.
ClearingOf(c) == UNION {{Low(c, p, 0, TRUE), High(c, p, 0)} : p \in Pins}
Clearing == UNION {ClearingOf(c) : c \in Chips}

\* While ioapic_init_one clears a chip every destination is written to an entry
\* that is masked by then, and at the end all entries are.
ClearInv ==
  stage = "walk" =>
    /\ todo \in Seq(Clearing)
    /\ \A i \in 1 .. Len(todo) : ~todo[i].low => Shut(todo[i].chip, todo[i].pin, i - 1)
    /\ \A c \in Found, p \in Pins : Shut(c, p, Len(todo))

\* The entry is what the callers asked for.
RightAt(c, p) ==
  /\ \A g \in Irqs : want[g] # None /\ ioapic_for_gsi(g) = <<c, p>> => redir[c][p] = want[g]
  /\ (\A g \in Irqs : ioapic_for_gsi(g) = <<c, p>> => want[g] = None) => redir[c][p].masked

\* How far ioapic_set_irq or ioapic_mask_irq has come with line g, entry <<c, p>>.
Pending(g, c, p) ==
  \/ want[g] # None /\ ~want[g].masked /\ todo = Route(c, p, want[g].vec, want[g].dest)
  \/ /\ want[g] # None /\ ~want[g].masked
     /\ todo = <<High(c, p, want[g].dest), Low(c, p, want[g].vec, FALSE)>>
     /\ redir[c][p].masked /\ redir[c][p].vec = want[g].vec
  \/ /\ want[g] # None
     /\ todo = <<Low(c, p, want[g].vec, want[g].masked)>>
     /\ redir[c][p].dest = want[g].dest
  \/ want[g] = None /\ todo = <<Low(c, p, redir[c][p].vec, TRUE)>>

\* All entries are right but the one that is being written.
RouteInv ==
  stage = "up" =>
    \/ todo = <<>> /\ \A c \in Found, p \in Pins : RightAt(c, p)
    \/ \E g \in Irqs, c \in Chips, p \in Pins :
         /\ ioapic_for_gsi(g) = <<c, p>> /\ Pending(g, c, p)
         /\ \A d \in Found, q \in Pins : <<d, q>> # <<c, p>> => RightAt(d, q)

ListsInv == firmware \in Firmwares /\ ioapics \in Seq(Ioapics) /\ Len(ioapics) <= Limit

IoapicInv == IoapicTypeOK /\ ListsInv /\ BootInv /\ ClearInv /\ RouteInv

\* The initial states satisfy the invariant.
LEMMA IoapicInitInv == IoapicInit => IoapicInv
<1> SUFFICES ASSUME IoapicInit PROVE IoapicInv
  OBVIOUS
<1>1. IoapicTypeOK
  <2>1. redir \in [Chips -> [Pins -> Redirection]]
    BY DEF IoapicInit, Redirection, Leftover
  <2>2. want \in [Irqs -> Redirection \cup {None}]
    BY DEF IoapicInit
  <2> QED
    BY <2>1, <2>2 DEF IoapicInit, IoapicTypeOK
<1>2. ListsInv
  BY DEF IoapicInit, ListsInv
<1>3. BootInv
  BY DEF IoapicInit, BootInv
<1> QED
  BY <1>1, <1>2, <1>3 DEF IoapicInit, IoapicInv, ClearInv, RouteInv

\* What a write does to the entries.
LEMMA WriteIs ==
  ASSUME redir \in [Chips -> [Pins -> Redirection]], ioapic_write, NEW c \in Chips, NEW p \in Pins,
         Head(todo).chip = c, Head(todo).pin = p
  PROVE  /\ redir'[c][p] = Written(redir[c][p], Head(todo))
         /\ \A d \in Chips, q \in Pins : <<d, q>> # <<c, p>> => redir'[d][q] = redir[d][q]
         /\ Written(redir[c][p], Head(todo)) \in Redirection => redir' \in [Chips -> [Pins -> Redirection]]
<1> DEFINE x == Written(redir[c][p], Head(todo))
<1>1. redir' = [redir EXCEPT ![c][p] = x]
  BY ZenonT(40) DEF ioapic_write
<1> HIDE DEF x
<1>2. redir'[c][p] = x /\ \A d \in Chips, q \in Pins : <<d, q>> # <<c, p>> => redir'[d][q] = redir[d][q]
  BY <1>1
<1>3. x \in Redirection => redir' \in [Chips -> [Pins -> Redirection]]
  BY <1>1
<1> QED
  BY <1>2, <1>3 DEF x

\* What a write of the high half is, and what it leaves.
LEMMA HighIs ==
  ASSUME NEW c, NEW p, NEW v, NEW e
  PROVE  /\ High(c, p, v).chip = c /\ High(c, p, v).pin = p /\ ~High(c, p, v).low
         /\ Written(e, High(c, p, v)) = [vec |-> e.vec, masked |-> e.masked, dest |-> v]
BY DEF High, Written

-----------------------------------------------------------------------------
(* The I/O APICs: boot.                                                    *)

\* The MADT that acpi_get_madt returns is one of the firmware's tables.
LEMMA MadtIs ==
  ASSUME firmware \in Firmwares, acpi_get_madt # <<>>
  PROVE  /\ Len(Entries) \in Nat
         /\ \A j \in IoapicsIn(acpi_get_madt[1]) : Entries[j].chip \in Chips /\ Entries[j].base \in Nat
         /\ \A j, k \in IoapicsIn(acpi_get_madt[1]) : Entries[j].chip = Entries[k].chip => j = k
<1> DEFINE T == firmware.tables
           S == {i \in 1 .. Len(T) : T[i].sig = "APIC"}
           m == Min(S)
<1>1. S # {} /\ acpi_get_madt = <<T[m]>>
  BY ZenonT(40) DEF acpi_get_madt, acpi_find_table
<1>2. Len(T) \in Nat
  BY FirmwareAssumption
<1>3. m \in S
  <2>1. S \subseteq Nat
    BY <1>2
  <2> HIDE DEF S
  <2> QED
    BY <1>1, <2>1, MinOf, ZenonT(40)
<1>4. m \in 1 .. Len(T)
  BY <1>3
<1>5. acpi_get_madt[1] = T[m]
  BY <1>1
<1> HIDE DEF m, S
<1> QED
  BY <1>4, <1>5, FirmwareAssumption, ZenonT(40) DEF Entries

\* What the find operators return depends on the firmware and on ioapics[] only.
LEMMA Finds ==
  /\ firmware' = firmware => acpi_get_madt' = acpi_get_madt /\ Entries' = Entries
  /\ ioapics' = ioapics => \A g : ioapic_for_gsi(g)' = ioapic_for_gsi(g)
BY ZenonT(40) DEF acpi_get_madt, acpi_find_table, Entries, ioapic_for_gsi

\* apic_init preserves the invariant.
LEMMA StepApicInit == IoapicInv /\ apic_init => IoapicInv'
<1> SUFFICES ASSUME IoapicInv, apic_init PROVE IoapicInv'
  OBVIOUS
<1> USE DEF apic_init
<1>1. IoapicTypeOK' /\ ListsInv'
  BY DEF IoapicInv, IoapicTypeOK, ListsInv
<1>2. ioapics' = <<>> /\ todo' = <<>> /\ walked' = 0 /\ stage' \in {"walk", "up"}
  BY DEF IoapicInv, BootInv
<1>3. BootInv'
  <2>1. stage' = "walk" => acpi_get_madt' # <<>> /\ walked' <= Len(Entries')
    BY <1>2, Finds, MadtIs DEF IoapicInv, ListsInv
  <2>2. \A g \in Irqs : want'[g] = None
    BY DEF IoapicInv, BootInv
  <2> QED
    BY <1>2, <2>1, <2>2 DEF BootInv, EachOnce
<1>4. Found' = {}
  BY <1>2 DEF Found
<1>5. ClearInv' /\ RouteInv'
  BY <1>2, <1>4 DEF ClearInv, RouteInv
<1> QED
  BY <1>1, <1>3, <1>5 DEF IoapicInv

\* The elements of Clearing.
LEMMA InClearing ==
  /\ \A c \in Chips, p \in Pins : Low(c, p, 0, TRUE) \in Clearing /\ High(c, p, 0) \in Clearing
  /\ \A w \in Clearing : \E c \in Chips, p \in Pins : w = Low(c, p, 0, TRUE) \/ w = High(c, p, 0)
<1>1. ASSUME NEW c \in Chips, NEW p \in Pins
      PROVE  Low(c, p, 0, TRUE) \in Clearing /\ High(c, p, 0) \in Clearing
  <2>1. Low(c, p, 0, TRUE) \in ClearingOf(c) /\ High(c, p, 0) \in ClearingOf(c)
    <3> DEFINE both(q) == {Low(c, q, 0, TRUE), High(c, q, 0)}
    <3>1. both(p) \in {both(q) : q \in Pins} /\ ClearingOf(c) = UNION {both(q) : q \in Pins}
      BY ZenonT(40) DEF ClearingOf
    <3>2. Low(c, p, 0, TRUE) \in both(p) /\ High(c, p, 0) \in both(p)
      OBVIOUS
    <3> HIDE DEF both
    <3> QED
      BY <3>1, <3>2, ZenonT(40)
  <2> QED
    BY <2>1, ZenonT(40) DEF Clearing
<1>2. ASSUME NEW w \in Clearing
      PROVE  \E c \in Chips, p \in Pins : w = Low(c, p, 0, TRUE) \/ w = High(c, p, 0)
  <2>1. PICK c \in Chips : w \in ClearingOf(c)
    BY ZenonT(40) DEF Clearing
  <2>2. PICK p \in Pins : w \in {Low(c, p, 0, TRUE), High(c, p, 0)}
    BY <2>1, ZenonT(40) DEF ClearingOf
  <2> QED
    BY <2>2, ZenonT(40)
<1> QED
  BY <1>1, <1>2, ZenonT(40)

\* ioapic_init_one masks each entry just before it clears the destination.
LEMMA ClearIs ==
  ASSUME NEW c \in Chips
  PROVE  /\ Clear(c) \in Seq(Clearing) /\ Len(Clear(c)) = 2 * (MaxPin + 1)
         /\ \A i \in 1 .. Len(Clear(c)) : ~Clear(c)[i].low =>
              i - 1 \in 1 .. Len(Clear(c)) /\ Clear(c)[i - 1] = Low(Clear(c)[i].chip, Clear(c)[i].pin, 0, TRUE)
         /\ \A p \in Pins : 2 * p + 1 \in 1 .. Len(Clear(c)) /\ Clear(c)[2 * p + 1] = Low(c, p, 0, TRUE)
<1> DEFINE N == 2 * (MaxPin + 1)
           P(i) == (i - 1) \div 2
           W(i) == IF i % 2 = 1 THEN Low(c, P(i), 0, TRUE) ELSE High(c, P(i), 0)
<1>1. Clear(c) = [i \in 1 .. N |-> W(i)]
  BY DEF Clear
<1>2. N \in Nat /\ \A i \in 1 .. N : P(i) \in Pins
  OBVIOUS
<1>3. \A i \in 1 .. N : W(i) \in Clearing
  <2> HIDE DEF P, N
  <2> QED
    BY <1>2, InClearing, ZenonT(40)
<1> HIDE DEF W
<1>4. Clear(c) \in Seq(Clearing) /\ Len(Clear(c)) = N /\ \A i \in 1 .. N : Clear(c)[i] = W(i)
  BY <1>1, <1>2, <1>3
<1>5. \A i \in 1 .. N : ~W(i).low => i - 1 \in 1 .. N /\ W(i - 1) = Low(W(i).chip, W(i).pin, 0, TRUE)
  <2> SUFFICES ASSUME NEW i \in 1 .. N, ~W(i).low
               PROVE  i - 1 \in 1 .. N /\ W(i - 1) = Low(W(i).chip, W(i).pin, 0, TRUE)
    BY ZenonT(40)
  <2>1. i % 2 # 1 /\ i % 2 = 0
    BY DEF W, Low
  <2>2. i - 1 \in 1 .. N /\ (i - 1) % 2 = 1 /\ P(i - 1) = P(i)
    BY <2>1
  <2> HIDE DEF P
  <2>3. W(i) = High(c, P(i), 0)
    BY <2>1, ZenonT(40) DEF W
  <2>4. W(i).chip = c /\ W(i).pin = P(i)
    BY <2>3 DEF High
  <2> QED
    BY <2>2, <2>4, ZenonT(40) DEF W
<1>6. \A p \in Pins : 2 * p + 1 \in 1 .. N /\ W(2 * p + 1) = Low(c, p, 0, TRUE)
  <2> SUFFICES ASSUME NEW p \in Pins
               PROVE  2 * p + 1 \in 1 .. N /\ W(2 * p + 1) = Low(c, p, 0, TRUE)
    BY ZenonT(40)
  <2>1. 2 * p + 1 \in 1 .. N /\ (2 * p + 1) % 2 = 1 /\ P(2 * p + 1) = p
    OBVIOUS
  <2> HIDE DEF P
  <2> QED
    BY <2>1, ZenonT(40) DEF W
<1> QED
  <2> HIDE DEF N
  <2>1. Len(Clear(c)) = 2 * (MaxPin + 1)
    BY <1>4 DEF N
  <2> QED
    BY <1>4, <1>5, <1>6, <2>1, ZenonT(40)

\* One turn of ioapic_init_all preserves the invariant.
LEMMA StepMadtEntry == IoapicInv /\ MadtEntry => IoapicInv'
<1> SUFFICES ASSUME IoapicInv, MadtEntry PROVE IoapicInv'
  OBVIOUS
<1> DEFINE e == Entries[walked + 1]
           t == acpi_get_madt[1]
<1>1. /\ stage = "walk" /\ stage' = "walk" /\ todo = <<>> /\ firmware' = firmware
      /\ redir' = redir /\ want' = want
      /\ acpi_get_madt' = acpi_get_madt /\ Entries' = Entries
  BY Finds DEF MadtEntry
<1>2. /\ firmware \in Firmwares /\ acpi_get_madt # <<>> /\ walked \in Nat
      /\ ioapics \in Seq(Ioapics) /\ Len(ioapics) <= Limit
  BY <1>1 DEF IoapicInv, ListsInv, BootInv, IoapicTypeOK
<1>3. /\ Len(Entries) \in Nat
      /\ \A j \in IoapicsIn(t) : Entries[j].chip \in Chips /\ Entries[j].base \in Nat
      /\ \A j, k \in IoapicsIn(t) : Entries[j].chip = Entries[k].chip => j = k
  BY <1>2, MadtIs
<1>4. walked + 1 \in 1 .. Len(Entries) /\ walked' \in {walked, walked + 1} /\ walked' <= Len(Entries)
  BY <1>2, <1>3 DEF MadtEntry, StepOver
<1>5. walked' = walked => Stuck'
  BY <1>1, <1>2, <1>4 DEF Stuck, MadtEntry, StepOver
<1>6. Stuck => Stuck'
  BY <1>1, <1>2, <1>5 DEF Stuck, MadtEntry, StepOver
<1>7. \A g \in Irqs : want'[g] = None
  BY <1>1 DEF IoapicInv, BootInv
<1>8. \A c \in Found, p \in Pins : redir[c][p].masked
  BY <1>1 DEF IoapicInv, ClearInv, Shut
<1>9. CASE e.type = "ioapic" /\ ~Full
  <2> DEFINE io == [chip |-> e.chip, gsi_base |-> e.base, max_redirection |-> MaxPin]
  <2>1. ioapics' = Append(ioapics, io) /\ todo' = Clear(e.chip)
    BY <1>9 DEF MadtEntry
  <2>2. walked + 1 \in IoapicsIn(t)
    BY <1>4, <1>9 DEF IoapicsIn, Entries
  <2>3. e.chip \in Chips /\ e.base \in Nat
    BY <1>3, <2>2, ZenonT(40)
  <2>4. io \in Ioapics /\ io.chip = e.chip
    BY <2>3 DEF Ioapics
  <2>5. PICK ch \in Chips : ch = e.chip
    BY <2>3
  <2> HIDE DEF io, e, t
  <2>6. /\ ioapics' \in Seq(Ioapics) /\ Len(ioapics') = Len(ioapics) + 1 /\ Len(ioapics) \in Nat
        /\ ioapics'[Len(ioapics) + 1] = io /\ \A i \in 1 .. Len(ioapics) : ioapics'[i] = ioapics[i]
    BY <1>2, <2>1, <2>4
  <2>7. ListsInv'
    BY <1>1, <1>2, <1>9, <2>6 DEF ListsInv, Full
  <2>8. IoapicTypeOK'
    <3>1. \A i \in 1 .. Len(ioapics') : ioapics'[i].chip \in Chips
      <4>1. \A i \in 1 .. Len(ioapics') : ioapics'[i] \in Ioapics
        BY <2>6
      <4> QED
        BY <4>1 DEF Ioapics
    <3> QED
      BY <1>1, <1>2, <1>4, <3>1 DEF IoapicInv, IoapicTypeOK
  <2>9. \A c \in Found' : c \in Found \/ c = ch
    <3> SUFFICES ASSUME NEW c \in Found' PROVE c \in Found \/ c = ch
      OBVIOUS
    <3>1. PICK i \in 1 .. Len(ioapics') : c = ioapics'[i].chip
      BY ZenonT(40) DEF Found
    <3>2. CASE i \in 1 .. Len(ioapics)
      BY <2>6, <3>1, <3>2, ZenonT(40) DEF Found
    <3>3. CASE i = Len(ioapics) + 1
      BY <2>4, <2>5, <2>6, <3>1, <3>3, ZenonT(40)
    <3> QED
      BY <2>6, <3>2, <3>3
  <2>10. ClearInv'
    <3>1. /\ todo' \in Seq(Clearing)
          /\ \A i \in 1 .. Len(todo') : ~todo'[i].low =>
               i - 1 \in 1 .. Len(todo') /\ todo'[i - 1] = Low(todo'[i].chip, todo'[i].pin, 0, TRUE)
          /\ \A p \in Pins : 2 * p + 1 \in 1 .. Len(todo') /\ todo'[2 * p + 1] = Low(ch, p, 0, TRUE)
      BY <2>1, <2>5, ClearIs, ZenonT(40)
    <3>2. ASSUME NEW i \in 1 .. Len(todo'), ~todo'[i].low
          PROVE  Shut(todo[i].chip, todo[i].pin, i - 1)'
      <4>1. i - 1 \in 1 .. Len(todo') /\ todo'[i - 1] = Low(todo'[i].chip, todo'[i].pin, 0, TRUE)
        BY <3>1, <3>2, ZenonT(40)
      <4>2. i - 1 \in 1 .. i - 1
        BY <4>1
      <4> QED
        BY <4>1, <4>2, ZenonT(40) DEF Shut
    <3>3. ASSUME NEW p \in Pins PROVE Shut(ch, p, Len(todo))'
      <4>1. 2 * p + 1 \in 1 .. Len(todo') /\ todo'[2 * p + 1] = Low(ch, p, 0, TRUE)
        BY <3>1, ZenonT(40)
      <4> QED
        BY <4>1, ZenonT(40) DEF Shut
    <3>4. ASSUME NEW c \in Found, NEW p \in Pins PROVE Shut(c, p, Len(todo))'
      BY <1>1, <1>8, ZenonT(40) DEF Shut
    <3>5. \A c \in Found', p \in Pins : Shut(c, p, Len(todo))'
      BY <2>9, <3>3, <3>4, ZenonT(40)
    <3> QED
      BY <3>1, <3>2, <3>5, ZenonT(40) DEF ClearInv
  <2>11. BootInv'
    <3> SUFFICES ASSUME ~Stuck'
                 PROVE  /\ EachOnce'
                        /\ \A i \in 1 .. Len(ioapics') : \E j \in IoapicsIn(t)' :
                             j <= walked' /\ ioapics'[i].chip = Entries'[j].chip
      BY <1>1, <1>2, <1>4, <1>7 DEF BootInv, t
    <3>1. /\ EachOnce
          /\ \A i \in 1 .. Len(ioapics) : \E j \in IoapicsIn(t) :
               j <= walked /\ ioapics[i].chip = Entries[j].chip
      BY <1>1, <1>6 DEF IoapicInv, BootInv, t
    <3>2. walked' = walked + 1
      BY <1>4, <1>5
    <3>3. \A i \in 1 .. Len(ioapics) : ioapics[i].chip # io.chip
      <4> SUFFICES ASSUME NEW i \in 1 .. Len(ioapics), ioapics[i].chip = io.chip PROVE FALSE
        OBVIOUS
      <4>1. PICK j \in IoapicsIn(t) : j <= walked /\ ioapics[i].chip = Entries[j].chip
        BY <3>1
      <4>2. j = walked + 1
        BY <1>3, <2>2, <2>4, <4>1, ZenonT(40) DEF e
      <4> QED
        BY <1>2, <4>1, <4>2
    <3>4. EachOnce'
      BY <2>6, <3>1, <3>3 DEF EachOnce
    <3>5. ASSUME NEW i \in 1 .. Len(ioapics') 
          PROVE  \E j \in IoapicsIn(t) : j <= walked' /\ ioapics'[i].chip = Entries[j].chip
      <4>1. CASE i = Len(ioapics) + 1
        BY <2>2, <2>4, <2>6, <3>2, <4>1, <1>2 DEF e
      <4>2. CASE i \in 1 .. Len(ioapics)
        <5>1. PICK j \in IoapicsIn(t) : j <= walked /\ ioapics[i].chip = Entries[j].chip
          BY <3>1, <4>2
        <5>2. j \in Nat
          BY <1>3 DEF IoapicsIn, t, Entries
        <5> QED
          BY <1>2, <2>6, <3>2, <4>2, <5>1, <5>2
      <4> QED
        BY <2>6, <4>1, <4>2
    <3>6. IoapicsIn(t)' = IoapicsIn(t)
      BY <1>1 DEF IoapicsIn, t
    <3> QED
      BY <1>1, <3>4, <3>5, <3>6, ZenonT(40)
  <2> QED
    BY <1>1, <2>7, <2>8, <2>10, <2>11 DEF IoapicInv, RouteInv
<1>10. CASE ~(e.type = "ioapic" /\ ~Full)
  <2>1. ioapics' = ioapics /\ todo' = todo
    BY <1>10 DEF MadtEntry
  <2>2. IoapicTypeOK' /\ ListsInv'
    BY <1>1, <1>2, <1>4, <2>1 DEF IoapicInv, IoapicTypeOK, ListsInv
  <2>3. ClearInv'
    BY <1>1, <2>1 DEF IoapicInv, ClearInv, Shut, Found
  <2>4. BootInv'
    <3> HIDE DEF e, t
    <3>1. EachOnce' <=> EachOnce
      BY <2>1 DEF EachOnce
    <3>2. IoapicsIn(t)' = IoapicsIn(t)
      BY <1>1 DEF IoapicsIn, t
    <3>3. ASSUME ~Stuck', NEW i \in 1 .. Len(ioapics')
          PROVE  \E j \in IoapicsIn(t) : j <= walked' /\ ioapics'[i].chip = Entries[j].chip
      <4>1. PICK j \in IoapicsIn(t) : j <= walked /\ ioapics[i].chip = Entries[j].chip
        BY <1>1, <1>6, <2>1, <3>3 DEF IoapicInv, BootInv, t
      <4>2. j \in Nat
        BY <1>3 DEF IoapicsIn, t, Entries
      <4> QED
        BY <1>2, <1>4, <2>1, <4>1, <4>2
    <3> QED
      BY <1>1, <1>2, <1>4, <1>6, <1>7, <3>1, <3>2, <3>3 DEF IoapicInv, BootInv, t
  <2> QED
    BY <1>1, <2>2, <2>3, <2>4 DEF IoapicInv, RouteInv
<1> QED
  BY <1>9, <1>10

\* The end of the walk preserves the invariant: every entry that was found is masked.
LEMMA StepWalkDone == IoapicInv /\ WalkDone => IoapicInv'
<1> SUFFICES ASSUME IoapicInv, WalkDone PROVE IoapicInv'
  OBVIOUS
<1>1. /\ stage = "walk" /\ stage' = "up" /\ todo = <<>> /\ walked = Len(Entries)
      /\ firmware' = firmware /\ walked' = walked /\ ioapics' = ioapics /\ redir' = redir
      /\ todo' = todo /\ want' = want
  BY DEF WalkDone
<1>2. IoapicTypeOK' /\ ListsInv'
  BY <1>1 DEF IoapicInv, IoapicTypeOK, ListsInv
<1>3. ~Stuck
  BY <1>1 DEF Stuck, IoapicInv, IoapicTypeOK
<1>4. EachOnce /\ EachOnce'
  BY <1>1, <1>3 DEF IoapicInv, BootInv, EachOnce
<1>5. BootInv' /\ ClearInv'
  BY <1>1, <1>4 DEF BootInv, ClearInv
<1>6. ASSUME NEW c \in Found', NEW p \in Pins PROVE RightAt(c, p)'
  <2>1. c \in Found
    BY <1>1 DEF Found
  <2>2. redir[c][p].masked
    BY <1>1, <2>1 DEF IoapicInv, ClearInv, Shut
  <2>3. \A g \in Irqs : want'[g] = None
    BY <1>1 DEF IoapicInv, BootInv
  <2> QED
    BY <1>1, <2>2, <2>3 DEF RightAt
<1>7. RouteInv'
  BY <1>1, <1>6 DEF RouteInv
<1> QED
  BY <1>2, <1>5, <1>7 DEF IoapicInv

\* A write of ioapic_init_one leaves what is masked masked, and masks what it changes.
LEMMA ClearWrite ==
  ASSUME IoapicInv, ioapic_write, stage = "walk"
  PROVE  /\ redir' \in [Chips -> [Pins -> Redirection]]
         /\ todo \in Seq(Clearing) /\ Len(todo) \in Nat \ {0} /\ todo' = Tail(todo)
         /\ \A d \in Chips, q \in Pins :
              redir[d][q].masked \/ redir'[d][q] # redir[d][q] \/ todo[1] = Low(d, q, 0, TRUE)
                => redir'[d][q].masked
<1>1. /\ todo \in Seq(Clearing) /\ Len(todo) \in Nat \ {0} /\ todo' = Tail(todo)
      /\ Head(todo) = todo[1] /\ todo[1] \in Clearing
      /\ redir \in [Chips -> [Pins -> Redirection]]
  BY DEF IoapicInv, ClearInv, IoapicTypeOK, ioapic_write
<1>2. PICK c \in Chips, p \in Pins : todo[1] = Low(c, p, 0, TRUE) \/ todo[1] = High(c, p, 0)
  BY <1>1, InClearing, ZenonT(40)
<1>3. redir[c][p] \in Redirection
  BY <1>1
<1>4. CASE todo[1] = Low(c, p, 0, TRUE)
  <2> DEFINE e == [vec |-> 0, masked |-> TRUE, dest |-> redir[c][p].dest]
  <2>1. Head(todo).chip = c /\ Head(todo).pin = p /\ Written(redir[c][p], Head(todo)) = e
    <3> DEFINE w == Low(c, p, 0, TRUE)
    <3>1. w.chip = c /\ w.pin = p /\ Written(redir[c][p], w) = e
      BY DEF Low, Written
    <3>2. Head(todo) = w
      BY <1>1, <1>4, ZenonT(40)
    <3> QED
      BY <3>1, <3>2, ZenonT(40)
  <2>2. e \in Redirection /\ e.masked
    BY <1>3 DEF Redirection
  <2> HIDE DEF e
  <2>3. /\ redir'[c][p] = e /\ redir' \in [Chips -> [Pins -> Redirection]]
        /\ \A d \in Chips, q \in Pins : <<d, q>> # <<c, p>> => redir'[d][q] = redir[d][q]
    BY <1>1, <2>1, <2>2, WriteIs, ZenonT(40)
  <2>4. ASSUME NEW d \in Chips, NEW q \in Pins,
               redir[d][q].masked \/ redir'[d][q] # redir[d][q] \/ todo[1] = Low(d, q, 0, TRUE)
        PROVE  redir'[d][q].masked
    <3>1. CASE d = c /\ q = p
      BY <2>2, <2>3, <3>1, ZenonT(40)
    <3>2. CASE ~(d = c /\ q = p)
      <4>1. redir'[d][q] = redir[d][q]
        BY <2>3, <3>2
      <4>2. todo[1] # Low(d, q, 0, TRUE)
        BY <1>4, <3>2 DEF Low
      <4> QED
        BY <2>4, <4>1, <4>2, ZenonT(40)
    <3> QED
      BY <3>1, <3>2, ZenonT(40)
  <2> QED
    BY <1>1, <2>3, <2>4, ZenonT(40)
<1>5. CASE todo[1] = High(c, p, 0)
  <2> DEFINE e == [vec |-> redir[c][p].vec, masked |-> redir[c][p].masked, dest |-> 0]
  <2>1. Head(todo).chip = c /\ Head(todo).pin = p /\ Written(redir[c][p], Head(todo)) = e /\ ~todo[1].low
    BY <1>1, <1>5, HighIs
  <2>2. 1 \in 1 .. Len(todo) /\ 1 .. (1 - 1) = {}
    BY <1>1
  <2>3. redir[c][p].masked
    <3>1. Shut(todo[1].chip, todo[1].pin, 1 - 1)
      BY <2>1, <2>2, ZenonT(40) DEF IoapicInv, ClearInv
    <3> QED
      BY <1>1, <2>1, <2>2, <3>1, ZenonT(40) DEF Shut
  <2>4. e \in Redirection /\ e.masked
    BY <1>3, <2>3 DEF Redirection
  <2> HIDE DEF e
  <2>5. /\ redir'[c][p] = e /\ redir' \in [Chips -> [Pins -> Redirection]]
        /\ \A d \in Chips, q \in Pins : <<d, q>> # <<c, p>> => redir'[d][q] = redir[d][q]
    BY <1>1, <2>1, <2>4, WriteIs, ZenonT(40)
  <2>6. ASSUME NEW d \in Chips, NEW q \in Pins,
               redir[d][q].masked \/ redir'[d][q] # redir[d][q] \/ todo[1] = Low(d, q, 0, TRUE)
        PROVE  redir'[d][q].masked
    <3>1. CASE d = c /\ q = p
      BY <2>4, <2>5, <3>1, ZenonT(40)
    <3>2. CASE ~(d = c /\ q = p)
      <4>1. redir'[d][q] = redir[d][q]
        BY <2>5, <3>2
      <4>2. todo[1] # Low(d, q, 0, TRUE)
        BY <2>1 DEF Low
      <4> QED
        BY <2>6, <4>1, <4>2, ZenonT(40)
    <3> QED
      BY <3>1, <3>2, ZenonT(40)
  <2> QED
    BY <1>1, <2>5, <2>6, ZenonT(40)
<1> QED
  BY <1>2, <1>4, <1>5, ZenonT(40)

\* A write of ioapic_init_one preserves the invariant.
LEMMA StepClearWrite == IoapicInv /\ ioapic_write /\ stage = "walk" => IoapicInv'
<1> SUFFICES ASSUME IoapicInv, ioapic_write, stage = "walk" PROVE IoapicInv'
  OBVIOUS
<1>1. /\ redir' \in [Chips -> [Pins -> Redirection]]
      /\ todo \in Seq(Clearing) /\ Len(todo) \in Nat \ {0} /\ todo' = Tail(todo)
      /\ \A d \in Chips, q \in Pins :
           redir[d][q].masked \/ redir'[d][q] # redir[d][q] \/ todo[1] = Low(d, q, 0, TRUE)
             => redir'[d][q].masked
  BY ClearWrite, ZenonT(40)
<1>2. /\ stage' = "walk" /\ firmware' = firmware /\ walked' = walked /\ ioapics' = ioapics
      /\ want' = want
  BY DEF ioapic_write
<1>3. /\ todo' \in Seq(Clearing) /\ Len(todo') = Len(todo) - 1 /\ Len(todo') \in Nat
      /\ \A i \in 1 .. Len(todo') : todo'[i] = todo[i + 1]
  BY <1>1
<1>4. IoapicTypeOK' /\ ListsInv'
  BY <1>1, <1>2 DEF IoapicInv, IoapicTypeOK, ListsInv
<1>5. BootInv'
  <2>1. acpi_get_madt' = acpi_get_madt /\ Entries' = Entries
    BY <1>2, Finds
  <2>2. (Stuck' <=> Stuck) /\ (EachOnce' <=> EachOnce)
    BY <1>2, <2>1, ZenonT(40) DEF Stuck, EachOnce
  <2> QED
    BY <1>2, <2>1, <2>2, ZenonT(40) DEF IoapicInv, BootInv
<1>6. ASSUME NEW d \in Chips, NEW q \in Pins, NEW n \in 0 .. Len(todo'), Shut(d, q, n + 1)
      PROVE  Shut(d, q, n)'
  <2>1. CASE redir[d][q].masked
    BY <1>1, <2>1, ZenonT(40) DEF Shut
  <2>2. ASSUME NEW j \in 1 .. n + 1, todo[j] = Low(d, q, 0, TRUE) PROVE Shut(d, q, n)'
    <3>1. CASE j = 1
      BY <1>1, <2>2, <3>1, ZenonT(40) DEF Shut
    <3>2. CASE j # 1
      <4>1. j - 1 \in 1 .. n /\ j - 1 \in 1 .. Len(todo') /\ (j - 1) + 1 = j
        BY <1>3, <3>2
      <4>2. todo'[j - 1] = Low(d, q, 0, TRUE)
        BY <1>3, <2>2, <4>1, ZenonT(40)
      <4> QED
        BY <4>1, <4>2, ZenonT(40) DEF Shut
    <3> QED
      BY <3>1, <3>2, ZenonT(40)
  <2> QED
    BY <1>6, <2>1, <2>2, ZenonT(40) DEF Shut
<1>7. ClearInv'
  <2>1. ASSUME NEW i \in 1 .. Len(todo'), ~todo'[i].low
        PROVE  Shut(todo[i].chip, todo[i].pin, i - 1)'
    <3>1. todo'[i] \in Clearing
      BY <1>3
    <3>2. PICK c \in Chips, p \in Pins : todo'[i] = Low(c, p, 0, TRUE) \/ todo'[i] = High(c, p, 0)
      BY <3>1, InClearing, ZenonT(40)
    <3>3. todo'[i].chip = c /\ todo'[i].pin = p
      BY <3>2 DEF Low, High
    <3>4. i + 1 \in 1 .. Len(todo) /\ (i + 1) - 1 = (i - 1) + 1 /\ i - 1 \in 0 .. Len(todo') /\ todo'[i] = todo[i + 1]
      BY <1>3
    <3>5. Shut(c, p, (i + 1) - 1)
      BY <2>1, <3>3, <3>4, ZenonT(40) DEF IoapicInv, ClearInv
    <3>6. Shut(c, p, i - 1)'
      BY <1>6, <3>4, <3>5, ZenonT(40)
    <3> QED
      BY <3>3, <3>6, ZenonT(40) DEF Shut
  <2>2. ASSUME NEW c \in Found', NEW p \in Pins PROVE Shut(c, p, Len(todo))'
    <3>1. c \in Found /\ c \in Chips
      BY <1>2, ZenonT(40) DEF Found, IoapicInv, IoapicTypeOK
    <3>2. Shut(c, p, Len(todo))
      BY <3>1, ZenonT(40) DEF IoapicInv, ClearInv
    <3>3. PICK n \in 0 .. Len(todo') : n = Len(todo')
      BY <1>3
    <3>4. n + 1 = Len(todo)
      BY <1>1, <1>3, <3>3
    <3>5. Shut(c, p, n)'
      BY <1>6, <3>1, <3>2, <3>4, ZenonT(40)
    <3> QED
      BY <3>3, <3>5, ZenonT(40) DEF Shut
  <2> QED
    BY <1>3, <2>1, <2>2, ZenonT(40) DEF ClearInv
<1> QED
  BY <1>2, <1>4, <1>5, <1>7 DEF IoapicInv, RouteInv

-----------------------------------------------------------------------------
(* The I/O APICs: the calls.                                               *)

\* An entry that is neither asked for nor written stays right.
LEMMA StaysRight ==
  ASSUME NEW d, NEW q, RightAt(d, q), redir'[d][q] = redir[d][q], ioapics' = ioapics,
         \A h \in Irqs : ioapic_for_gsi(h) = <<d, q>> => want'[h] = want[h]
  PROVE  RightAt(d, q)'
<1>1. \A g : ioapic_for_gsi(g)' = ioapic_for_gsi(g)
  BY Finds
<1> QED
  BY <1>1, ZenonT(40) DEF RightAt

\* A line and its entry.
LEMMA Line ==
  ASSUME ioapics \in Seq(Ioapics), NEW g \in Irqs, ioapic_for_gsi(g) # <<>>
  PROVE  \E c \in Chips, p \in Pins : ioapic_for_gsi(g) = <<c, p>> /\ c \in Found
<1>1. PICK i \in 1 .. Len(ioapics) :
        /\ ioapic_for_gsi(g) = <<ioapics[i].chip, g - ioapics[i].gsi_base>>
        /\ ioapics[i].chip \in Chips /\ g - ioapics[i].gsi_base \in Pins
  BY ForGsi, ZenonT(40)
<1>2. ioapics[i].chip \in Found
  BY ZenonT(40) DEF Found
<1> QED
  BY <1>1, <1>2, ZenonT(40)

\* What is asked for is None or has the type of an entry.
LEMMA WantIs ==
  ASSUME IoapicTypeOK, NEW g \in Irqs
  PROVE  /\ want[g] # None => /\ want[g] \in Redirection
                              /\ want[g] = [vec |-> want[g].vec, masked |-> want[g].masked, dest |-> want[g].dest]
         /\ None.masked = TRUE
BY DEF IoapicTypeOK, Redirection, None

\* The first write and the others.
LEMMA FirstOf ==
  ASSUME NEW x, NEW y, NEW z
  PROVE  /\ Head(<<x, y, z>>) = x /\ Tail(<<x, y, z>>) = <<y, z>>
         /\ Head(<<x, y>>) = x /\ Tail(<<x, y>>) = <<y>>
OBVIOUS

\* The writes of ioapic_set_irq and ioapic_mask_irq, one at a time.
LEMMA PendingWrite ==
  ASSUME IoapicTypeOK, ioapic_write, NEW g \in Irqs, NEW c \in Chips, NEW p \in Pins, Pending(g, c, p)
  PROVE  /\ redir' \in [Chips -> [Pins -> Redirection]]
         /\ \A d \in Chips, q \in Pins : <<d, q>> # <<c, p>> => redir'[d][q] = redir[d][q]
         /\ \/ Pending(g, c, p)' /\ redir'[c][p].masked
            \/ todo' = <<>> /\ want[g] # None /\ redir'[c][p] = want[g]
            \/ todo' = <<>> /\ want[g] = None /\ redir'[c][p].masked
<1> DEFINE r == redir[c][p]
           v == want[g].vec
           b == want[g].masked
           t == want[g].dest
<1>1. /\ redir \in [Chips -> [Pins -> Redirection]] /\ r \in Redirection
      /\ want' = want /\ todo' = Tail(todo)
  BY DEF IoapicTypeOK, ioapic_write
<1>2. r.vec \in Vectors \cup {0, -1} /\ r.masked \in BOOLEAN /\ r.dest \in Dests \cup {0, -1}
  BY <1>1 DEF Redirection
<1>3. want[g] # None =>
        /\ v \in Vectors \cup {0, -1} /\ b \in BOOLEAN /\ t \in Dests \cup {0, -1}
        /\ want[g] = [vec |-> v, masked |-> b, dest |-> t]
  <2>1. want[g] # None => want[g] \in Redirection /\ want[g] = [vec |-> v, masked |-> b, dest |-> t]
    BY WantIs, ZenonT(40)
  <2> QED
    BY <2>1 DEF Redirection
<1> HIDE DEF r, v, b, t
<1>4. ASSUME NEW w, NEW e \in Redirection, Head(todo) = w, w.chip = c, w.pin = p, Written(r, w) = e
      PROVE  /\ redir'[c][p] = e /\ redir' \in [Chips -> [Pins -> Redirection]]
             /\ \A d \in Chips, q \in Pins : <<d, q>> # <<c, p>> => redir'[d][q] = redir[d][q]
  BY <1>1, <1>4, WriteIs, ZenonT(40) DEF r
<1>5. CASE want[g] # None /\ ~b /\ todo = Route(c, p, v, t)
  <2> DEFINE w == Low(c, p, v, TRUE)
             e == [vec |-> v, masked |-> TRUE, dest |-> r.dest]
  <2>1. w.chip = c /\ w.pin = p /\ Written(r, w) = e /\ e.masked /\ e.vec = v
    BY DEF Low, Written
  <2>2. e \in Redirection
    BY <1>2, <1>3, <1>5 DEF Redirection
  <2> HIDE DEF w, e
  <2>3. Head(todo) = w /\ todo' = <<High(c, p, t), Low(c, p, v, FALSE)>>
    BY <1>1, <1>5, FirstOf, ZenonT(40) DEF Route, w
  <2>4. /\ redir'[c][p] = e /\ redir' \in [Chips -> [Pins -> Redirection]]
        /\ \A d \in Chips, q \in Pins : <<d, q>> # <<c, p>> => redir'[d][q] = redir[d][q]
    BY <1>4, <2>1, <2>2, <2>3, ZenonT(40)
  <2>5. Pending(g, c, p)'
    BY <1>1, <1>5, <2>1, <2>3, <2>4, ZenonT(40) DEF Pending, v, b, t
  <2> QED
    BY <2>1, <2>4, <2>5, ZenonT(40)
<1>6. CASE want[g] # None /\ ~b /\ todo = <<High(c, p, t), Low(c, p, v, FALSE)>> /\ r.masked /\ r.vec = v
  <2> DEFINE w == High(c, p, t)
             e == [vec |-> r.vec, masked |-> r.masked, dest |-> t]
  <2>1. w.chip = c /\ w.pin = p /\ Written(r, w) = e /\ e.masked /\ e.dest = t
    BY <1>6 DEF High, Written
  <2>2. e \in Redirection
    BY <1>2, <1>3, <1>6 DEF Redirection
  <2> HIDE DEF w, e
  <2>3. Head(todo) = w /\ todo' = <<Low(c, p, v, FALSE)>>
    BY <1>1, <1>6, FirstOf, ZenonT(40) DEF w
  <2>4. /\ redir'[c][p] = e /\ redir' \in [Chips -> [Pins -> Redirection]]
        /\ \A d \in Chips, q \in Pins : <<d, q>> # <<c, p>> => redir'[d][q] = redir[d][q]
    BY <1>4, <2>1, <2>2, <2>3, ZenonT(40)
  <2>5. b = FALSE
    BY <1>3, <1>6
  <2>6. Pending(g, c, p)'
    BY <1>1, <1>6, <2>1, <2>3, <2>4, <2>5, ZenonT(40) DEF Pending, v, b, t
  <2> QED
    BY <2>1, <2>4, <2>6, ZenonT(40)
<1>7. CASE want[g] # None /\ todo = <<Low(c, p, v, b)>> /\ r.dest = t
  <2> DEFINE w == Low(c, p, v, b)
             e == [vec |-> v, masked |-> b, dest |-> r.dest]
  <2>1. w.chip = c /\ w.pin = p /\ Written(r, w) = e
    BY ZenonT(40) DEF Low, Written
  <2>2. e \in Redirection
    BY <1>2, <1>3, <1>7 DEF Redirection
  <2>3. e = want[g]
    BY <1>3, <1>7, ZenonT(40)
  <2> HIDE DEF w, e
  <2>4. Head(todo) = w /\ todo' = <<>>
    BY <1>1, <1>7 DEF w
  <2>5. /\ redir'[c][p] = e /\ redir' \in [Chips -> [Pins -> Redirection]]
        /\ \A d \in Chips, q \in Pins : <<d, q>> # <<c, p>> => redir'[d][q] = redir[d][q]
    BY <1>4, <2>1, <2>2, <2>4, ZenonT(40)
  <2> QED
    BY <1>7, <2>3, <2>4, <2>5, ZenonT(40)
<1>8. CASE want[g] = None /\ todo = <<Low(c, p, r.vec, TRUE)>>
  <2> DEFINE w == Low(c, p, r.vec, TRUE)
             e == [vec |-> r.vec, masked |-> TRUE, dest |-> r.dest]
  <2>1. w.chip = c /\ w.pin = p /\ Written(r, w) = e /\ e.masked
    BY DEF Low, Written
  <2>2. e \in Redirection
    BY <1>2 DEF Redirection
  <2> HIDE DEF w, e
  <2>3. Head(todo) = w /\ todo' = <<>>
    BY <1>1, <1>8 DEF w
  <2>4. /\ redir'[c][p] = e /\ redir' \in [Chips -> [Pins -> Redirection]]
        /\ \A d \in Chips, q \in Pins : <<d, q>> # <<c, p>> => redir'[d][q] = redir[d][q]
    BY <1>4, <2>1, <2>2, <2>3, ZenonT(40)
  <2> QED
    BY <1>8, <2>1, <2>3, <2>4, ZenonT(40)
<1> QED
  BY <1>5, <1>6, <1>7, <1>8, ZenonT(40) DEF Pending, r, v, b, t

\* What is known when the interrupts are set up.
LEMMA Up ==
  ASSUME IoapicInv, stage = "up"
  PROVE  ioapics \in Seq(Ioapics) /\ EachOnce /\ IoapicTypeOK
BY DEF IoapicInv, ListsInv, BootInv, Stuck

\* What does not touch the list keeps the part of the invariant that is about boot.
LEMMA UpBoot ==
  ASSUME IoapicInv, stage = "up", stage' = "up", UNCHANGED <<firmware, ioapics>>
  PROVE  ListsInv' /\ BootInv' /\ ClearInv' /\ EachOnce' /\ Found' = Found
<1>1. EachOnce
  BY Up
<1>2. EachOnce' /\ Found' = Found
  BY <1>1 DEF EachOnce, Found
<1> QED
  BY <1>2, ZenonT(40) DEF IoapicInv, ListsInv, BootInv, ClearInv

\* A write of ioapic_set_irq or ioapic_mask_irq preserves the invariant.
LEMMA StepRouteWrite == IoapicInv /\ ioapic_write /\ stage = "up" => IoapicInv'
<1> SUFFICES ASSUME IoapicInv, ioapic_write, stage = "up" PROVE IoapicInv'
  OBVIOUS
<1>1. /\ stage' = "up" /\ firmware' = firmware /\ walked' = walked /\ ioapics' = ioapics
      /\ want' = want /\ todo # <<>>
  BY DEF ioapic_write
<1>2. ioapics \in Seq(Ioapics) /\ EachOnce /\ IoapicTypeOK
  BY Up
<1>3. ListsInv' /\ BootInv' /\ ClearInv' /\ EachOnce' /\ Found' = Found
  BY <1>1, UpBoot
<1>4. PICK g \in Irqs, c \in Chips, p \in Pins :
        /\ ioapic_for_gsi(g) = <<c, p>> /\ Pending(g, c, p)
        /\ \A d \in Found, q \in Pins : <<d, q>> # <<c, p>> => RightAt(d, q)
  BY <1>1, ZenonT(40) DEF IoapicInv, RouteInv
<1>5. /\ redir' \in [Chips -> [Pins -> Redirection]]
      /\ \A d \in Chips, q \in Pins : <<d, q>> # <<c, p>> => redir'[d][q] = redir[d][q]
      /\ \/ Pending(g, c, p)' /\ redir'[c][p].masked
         \/ todo' = <<>> /\ want[g] # None /\ redir'[c][p] = want[g]
         \/ todo' = <<>> /\ want[g] = None /\ redir'[c][p].masked
  BY <1>2, <1>4, PendingWrite, ZenonT(40)
<1>6. IoapicTypeOK'
  BY <1>1, <1>2, <1>5 DEF IoapicTypeOK
<1>7. Found \subseteq Chips
  BY <1>2 DEF Found, IoapicTypeOK
<1>8. ASSUME NEW d \in Found, NEW q \in Pins, <<d, q>> # <<c, p>> PROVE RightAt(d, q)'
  <2>1. RightAt(d, q) /\ redir'[d][q] = redir[d][q]
    BY <1>4, <1>5, <1>7, <1>8, ZenonT(40)
  <2> QED
    BY <1>1, <2>1, StaysRight, ZenonT(40)
<1>9. ioapic_for_gsi(g)' = <<c, p>>
  BY <1>1, <1>4, Finds, ZenonT(40)
<1>10. CASE Pending(g, c, p)'
  <2>1. \A d \in Found', q \in Pins : <<d, q>> # <<c, p>> => RightAt(d, q)'
    BY <1>3, <1>8, ZenonT(40)
  <2>2. RouteInv'
    BY <1>9, <1>10, <2>1, ZenonT(40) DEF RouteInv
  <2> QED
    BY <1>3, <1>6, <2>2 DEF IoapicInv
<1>11. CASE \/ todo' = <<>> /\ want[g] # None /\ redir'[c][p] = want[g]
            \/ todo' = <<>> /\ want[g] = None /\ redir'[c][p].masked
  <2>1. ioapics' \in Seq(Ioapics)
    BY <1>1, <1>2
  <2>2. RightAt(c, p)'
    <3>1. \A h : ioapic_for_gsi(h)' = ioapic_for_gsi(h)
      BY <1>1, Finds, ZenonT(40)
    <3>2. \A h \in Irqs : ioapic_for_gsi(h) = <<c, p>> => h = g
      <4>1. ioapic_for_gsi(g) # <<>>
        BY <1>4
      <4> QED
        BY <1>2, <1>4, <4>1, OneLine, ZenonT(40)
    <3> QED
      BY <1>1, <1>4, <1>11, <3>1, <3>2, ZenonT(40) DEF RightAt
  <2>3. \A d \in Found', q \in Pins : RightAt(d, q)'
    <3> SUFFICES ASSUME NEW d \in Found, NEW q \in Pins PROVE RightAt(d, q)'
      BY <1>3, ZenonT(40)
    <3>1. CASE d = c /\ q = p
      BY <2>2, <3>1, ZenonT(40)
    <3>2. CASE ~(d = c /\ q = p)
      <4>1. <<d, q>> # <<c, p>>
        BY <3>2
      <4> QED
        BY <1>8, <4>1, ZenonT(40)
    <3> QED
      BY <3>1, <3>2, ZenonT(40)
  <2>4. RouteInv'
    BY <1>11, <2>3, ZenonT(40) DEF RouteInv
  <2> QED
    BY <1>3, <1>6, <2>4 DEF IoapicInv
<1> QED
  BY <1>5, <1>10, <1>11, ZenonT(40)

\* Between two calls every entry is right.
LEMMA AllRight ==
  ASSUME IoapicInv, stage = "up", todo = <<>>
  PROVE  \A c \in Found, p \in Pins : RightAt(c, p)
<1>1. \A g \in Irqs, c \in Chips, p \in Pins : ~Pending(g, c, p)
  BY DEF Pending, Route
<1> QED
  BY <1>1, ZenonT(40) DEF IoapicInv, RouteInv

\* ioapic_set_irq preserves the invariant.
LEMMA StepSetIrq ==
  ASSUME NEW irq \in Irqs, NEW vec \in Vectors, NEW dest \in Dests, IoapicInv, ioapic_set_irq(irq, vec, dest)
  PROVE  IoapicInv'
<1>1. /\ stage = "up" /\ stage' = "up" /\ firmware' = firmware /\ walked' = walked
      /\ ioapics' = ioapics /\ redir' = redir /\ todo = <<>>
  BY DEF ioapic_set_irq
<1>2. ioapics \in Seq(Ioapics) /\ EachOnce /\ IoapicTypeOK
  BY <1>1, Up
<1>3. ListsInv' /\ BootInv' /\ ClearInv' /\ EachOnce' /\ Found' = Found
  BY <1>1, UpBoot
<1>4. \A d \in Found, q \in Pins : RightAt(d, q)
  BY <1>1, AllRight
<1>5. \A h : ioapic_for_gsi(h)' = ioapic_for_gsi(h)
  BY <1>1, Finds, ZenonT(40)
<1>6. CASE ioapic_for_gsi(irq) = <<>>
  <2>1. todo' = todo /\ want' = want
    BY <1>6 DEF ioapic_set_irq
  <2>2. ASSUME NEW d \in Found, NEW q \in Pins PROVE RightAt(d, q)'
    BY <1>1, <1>4, <2>1, StaysRight, ZenonT(40)
  <2>3. RouteInv'
    BY <1>1, <1>3, <2>1, <2>2, ZenonT(40) DEF RouteInv
  <2>4. IoapicTypeOK'
    BY <1>1, <1>2, <2>1 DEF IoapicTypeOK
  <2> QED
    BY <1>3, <2>3, <2>4 DEF IoapicInv
<1>7. CASE ioapic_for_gsi(irq) # <<>>
  <2>1. PICK c \in Chips, p \in Pins : ioapic_for_gsi(irq) = <<c, p>> /\ c \in Found
    BY <1>2, <1>7, Line, ZenonT(40)
  <2> DEFINE e == [vec |-> vec, masked |-> FALSE, dest |-> dest]
  <2>2. todo' = Route(c, p, vec, dest) /\ want' = [want EXCEPT ![irq] = e]
    <3>1. ioapic_for_gsi(irq)[1] = c /\ ioapic_for_gsi(irq)[2] = p
      BY <2>1
    <3> QED
      BY <1>7, <3>1, ZenonT(40) DEF ioapic_set_irq
  <2>3. e \in Redirection /\ e # None /\ ~e.masked /\ e.vec = vec /\ e.dest = dest
    BY DEF Redirection, None
  <2> HIDE DEF e
  <2>4. want'[irq] = e /\ \A h \in Irqs : h # irq => want'[h] = want[h]
    BY <1>2, <2>2 DEF IoapicTypeOK
  <2>5. want' \in [Irqs -> Redirection \cup {None}]
    BY <1>2, <2>2, <2>3 DEF IoapicTypeOK
  <2>6. IoapicTypeOK'
    BY <1>1, <1>2, <2>5 DEF IoapicTypeOK
  <2>7. ASSUME NEW d \in Found, NEW q \in Pins, <<d, q>> # <<c, p>> PROVE RightAt(d, q)'
    <3>1. \A h \in Irqs : ioapic_for_gsi(h) = <<d, q>> => want'[h] = want[h]
      BY <2>1, <2>4, <2>7, ZenonT(40)
    <3> QED
      BY <1>1, <1>4, <3>1, StaysRight, ZenonT(40)
  <2>8. Pending(irq, c, p)'
    BY <2>2, <2>3, <2>4, ZenonT(40) DEF Pending
  <2>9. RouteInv'
    BY <1>3, <1>5, <2>1, <2>7, <2>8, ZenonT(40) DEF RouteInv
  <2> QED
    BY <1>3, <2>6, <2>9 DEF IoapicInv
<1> QED
  BY <1>6, <1>7

\* ioapic_mask_irq and ioapic_unmask_irq preserve the invariant.
LEMMA StepMaskIrq ==
  ASSUME NEW irq \in Irqs, NEW mask \in BOOLEAN, IoapicInv, ioapic_mask_irq(irq, mask)
  PROVE  IoapicInv'
<1>1. /\ stage = "up" /\ stage' = "up" /\ firmware' = firmware /\ walked' = walked
      /\ ioapics' = ioapics /\ redir' = redir /\ todo = <<>> /\ (mask \/ want[irq] # None)
      /\ want' = [want EXCEPT ![irq] = Keep(want[irq], mask)]
  BY ZenonT(40) DEF ioapic_mask_irq
<1>2. ioapics \in Seq(Ioapics) /\ EachOnce /\ IoapicTypeOK
  BY <1>1, Up
<1>3. ListsInv' /\ BootInv' /\ ClearInv' /\ EachOnce' /\ Found' = Found
  BY <1>1, UpBoot
<1>4. \A d \in Found, q \in Pins : RightAt(d, q)
  BY <1>1, AllRight
<1>5. \A h : ioapic_for_gsi(h)' = ioapic_for_gsi(h)
  BY <1>1, Finds, ZenonT(40)
<1> DEFINE e == Keep(want[irq], mask)
<1>6. want' = [want EXCEPT ![irq] = e] /\ want \in [Irqs -> Redirection \cup {None}]
  BY <1>1, <1>2 DEF IoapicTypeOK
<1>7. want[irq] = None => e = None
  <2>1. want[irq] = None => mask = TRUE
    BY <1>1
  <2>2. Keep(None, TRUE) = None
    BY DEF None, Keep
  <2> QED
    BY <2>1, <2>2, ZenonT(40)
<1>8. want[irq] # None =>
        e \in Redirection /\ e # None /\ e.vec = want[irq].vec /\ e.dest = want[irq].dest /\ e.masked = mask
  <2> SUFFICES ASSUME want[irq] \in Redirection
               PROVE  e \in Redirection /\ e # None /\ e.vec = want[irq].vec /\ e.dest = want[irq].dest /\ e.masked = mask
    BY <1>6
  <2>1. e \in Redirection /\ e.vec = want[irq].vec /\ e.dest = want[irq].dest /\ e.masked = mask
    BY DEF Redirection, Keep
  <2>2. e.vec # -2
    BY <2>1 DEF Redirection
  <2> QED
    BY <2>1, <2>2 DEF None
<1> HIDE DEF e
<1>9. want'[irq] = e /\ \A h \in Irqs : h # irq => want'[h] = want[h]
  BY <1>6
<1>10. want' \in [Irqs -> Redirection \cup {None}]
  BY <1>6, <1>7, <1>8
<1>11. IoapicTypeOK'
  BY <1>1, <1>2, <1>10 DEF IoapicTypeOK
<1>12. ASSUME NEW d \in Found, NEW q \in Pins, <<d, q>> # ioapic_for_gsi(irq) PROVE RightAt(d, q)'
  <2>1. \A h \in Irqs : ioapic_for_gsi(h) = <<d, q>> => want'[h] = want[h]
    BY <1>9, <1>12, ZenonT(40)
  <2> QED
    BY <1>1, <1>4, <2>1, StaysRight, ZenonT(40)
<1>13. CASE ioapic_for_gsi(irq) = <<>>
  <2>1. todo' = <<>>
    BY <1>13, ZenonT(40) DEF ioapic_mask_irq
  <2>2. ASSUME NEW d \in Found', NEW q \in Pins PROVE RightAt(d, q)'
    <3>1. <<d, q>> # <<>> /\ d \in Found
      BY <1>3
    <3> QED
      BY <1>12, <1>13, <3>1, ZenonT(40)
  <2>3. RouteInv'
    BY <2>1, <2>2, ZenonT(40) DEF RouteInv
  <2> QED
    BY <1>3, <1>11, <2>3 DEF IoapicInv
<1>14. CASE ioapic_for_gsi(irq) # <<>>
  <2>1. PICK c \in Chips, p \in Pins : ioapic_for_gsi(irq) = <<c, p>> /\ c \in Found
    BY <1>2, <1>14, Line, ZenonT(40)
  <2>2. todo' = <<Low(c, p, redir[c][p].vec, mask)>>
    <3>1. ioapic_for_gsi(irq)[1] = c /\ ioapic_for_gsi(irq)[2] = p
      BY <2>1
    <3>2. redir[c][p] \in Redirection
      BY <1>2 DEF IoapicTypeOK
    <3>3. Keep(redir[c][p], mask).vec = redir[c][p].vec /\ Keep(redir[c][p], mask).masked = mask
      BY <3>2 DEF Keep, Redirection
    <3> QED
      BY <1>14, <3>1, <3>3, ZenonT(40) DEF ioapic_mask_irq
  <2>3. Pending(irq, c, p)'
    <3>1. CASE want[irq] = None
      <4>1. mask = TRUE
        BY <1>1, <3>1
      <4> QED
        <5>1. want'[irq] = None
          BY <1>7, <1>9, <3>1, ZenonT(40)
        <5>2. todo' = <<Low(c, p, redir'[c][p].vec, TRUE)>>
          BY <1>1, <2>2, <4>1, ZenonT(40)
        <5> QED
          BY <5>1, <5>2, ZenonT(40) DEF Pending
    <3>2. CASE want[irq] # None
      <4>1. redir[c][p] = want[irq]
        <5>1. RightAt(c, p)
          BY <1>4, <2>1, ZenonT(40)
        <5> QED
          BY <2>1, <3>2, <5>1, ZenonT(40) DEF RightAt
      <4> QED
        <5>1. want'[irq] # None /\ redir'[c][p].dest = want'[irq].dest
          BY <1>1, <1>8, <1>9, <3>2, <4>1, ZenonT(40)
        <5>2. todo' = <<Low(c, p, want'[irq].vec, want'[irq].masked)>>
          BY <1>8, <1>9, <2>2, <3>2, <4>1, ZenonT(40)
        <5> QED
          BY <5>1, <5>2, ZenonT(40) DEF Pending
    <3> QED
      BY <3>1, <3>2, ZenonT(40)
  <2>4. ioapic_for_gsi(irq)' = <<c, p>>
    BY <1>5, <2>1, ZenonT(40)
  <2>5. \A d \in Found', q \in Pins : <<d, q>> # <<c, p>> => RightAt(d, q)'
    BY <1>3, <1>12, <2>1, ZenonT(40)
  <2>6. RouteInv'
    BY <2>3, <2>4, <2>5, ZenonT(40) DEF RouteInv
  <2> QED
    BY <1>3, <1>11, <2>6 DEF IoapicInv
<1> QED
  BY <1>13, <1>14

\* Every step preserves the invariant.
LEMMA IoapicStepInv == IoapicInv /\ [IoapicNext]_ioapicVars => IoapicInv'
<1> SUFFICES ASSUME IoapicInv, [IoapicNext]_ioapicVars PROVE IoapicInv'
  OBVIOUS
<1>1. CASE ioapic_write
  <2>1. stage \in {"walk", "up"}
    BY <1>1 DEF IoapicInv, IoapicTypeOK, BootInv, ioapic_write
  <2> QED
    BY <1>1, <2>1, StepClearWrite, StepRouteWrite
<1>2. CASE UNCHANGED ioapicVars
  <2>1. acpi_get_madt' = acpi_get_madt /\ Entries' = Entries /\ \A g : ioapic_for_gsi(g)' = ioapic_for_gsi(g)
    BY <1>2, Finds, ZenonT(40) DEF ioapicVars
  <2>2. IoapicTypeOK' /\ ListsInv'
    BY <1>2 DEF ioapicVars, IoapicInv, IoapicTypeOK, ListsInv
  <2>3. BootInv'
    <3>1. (Stuck' <=> Stuck) /\ (EachOnce' <=> EachOnce)
      BY <1>2, <2>1, ZenonT(40) DEF ioapicVars, Stuck, EachOnce
    <3> QED
      BY <1>2, <2>1, <3>1, ZenonT(40) DEF ioapicVars, IoapicInv, BootInv
  <2>4. ClearInv'
    BY <1>2, ZenonT(40) DEF ioapicVars, IoapicInv, ClearInv, Found, Shut
  <2>5. RouteInv'
    <3>1. \A c, p : RightAt(c, p)' <=> RightAt(c, p)
      BY <1>2, <2>1, ZenonT(40) DEF ioapicVars, RightAt
    <3>2. ASSUME NEW g, NEW c, NEW p PROVE Pending(g, c, p)' <=> Pending(g, c, p)
      <4>1. todo' = todo /\ redir'[c][p] = redir[c][p] /\ want'[g] = want[g]
        BY <1>2, ZenonT(40) DEF ioapicVars
      <4> QED
        BY <4>1, ZenonT(40) DEF Pending
    <3>3. Found' = Found
      BY <1>2, ZenonT(40) DEF ioapicVars, Found
    <3>4. CASE todo = <<>> /\ \A c \in Found, p \in Pins : RightAt(c, p)
      BY <1>2, <3>1, <3>3, <3>4, ZenonT(40) DEF ioapicVars, RouteInv
    <3>5. ASSUME NEW g \in Irqs, NEW c \in Chips, NEW p \in Pins,
                 ioapic_for_gsi(g) = <<c, p>>, Pending(g, c, p),
                 \A d \in Found, q \in Pins : <<d, q>> # <<c, p>> => RightAt(d, q)
          PROVE  RouteInv'
      <4>1. ioapic_for_gsi(g)' = <<c, p>> /\ Pending(g, c, p)'
        BY <2>1, <3>2, <3>5, ZenonT(40)
      <4>2. \A d \in Found', q \in Pins : <<d, q>> # <<c, p>> => RightAt(d, q)'
        BY <3>1, <3>3, <3>5, ZenonT(40)
      <4> QED
        BY <4>1, <4>2, ZenonT(40) DEF RouteInv
    <3>6. CASE stage # "up"
      BY <1>2, <3>6 DEF ioapicVars, RouteInv
    <3> QED
      BY <3>4, <3>5, <3>6, ZenonT(40) DEF IoapicInv, RouteInv
  <2> QED
    BY <2>2, <2>3, <2>4, <2>5 DEF IoapicInv
<1>3. CASE \E irq \in Irqs : \E v \in Vectors, d \in Dests : ioapic_set_irq(irq, v, d)
  BY <1>3, StepSetIrq, ZenonT(40)
<1>4. CASE \E irq \in Irqs : \E mask \in BOOLEAN : ioapic_mask_irq(irq, mask)
  BY <1>4, StepMaskIrq, ZenonT(40)
<1> QED
  BY <1>1, <1>2, <1>3, <1>4, StepApicInit, StepMadtEntry, StepWalkDone, ZenonT(40) DEF IoapicNext

\* The invariant holds for ever.
LEMMA IoapicInvariant == IoapicSpec => []IoapicInv
BY IoapicInitInv, IoapicStepInv, PTL DEF IoapicSpec

\* Every redirection entry holds values that were written to it.
THEOREM IoapicTypeCorrect == IoapicSpec => []IoapicTypeOK
<1>1. IoapicInv => IoapicTypeOK
  BY DEF IoapicInv
<1> QED
  BY <1>1, IoapicInvariant, PTL

\* Between two calls of irq_set, irq_mask and irq_unmask every redirection entry
\* is what was asked for its line, and masked if nobody asked, whichever chips the
\* MADT lists and however their ranges overlap; ioapics[] does not overflow.
THEOREM RoutedAsAskedAlways == IoapicSpec => []RoutedAsAsked
<1>1. IoapicInv => RoutedAsAsked
  <2> SUFFICES ASSUME IoapicInv PROVE RoutedAsAsked
    OBVIOUS
  <2>1. Len(ioapics) <= Limit
    BY DEF IoapicInv, ListsInv
  <2>2. ASSUME stage = "up", todo = <<>>, NEW c \in Found, NEW p \in Pins
        PROVE  LET gs == {g \in Irqs : want[g] # None /\ ioapic_for_gsi(g) = <<c, p>>}
               IN  IF gs = {} THEN redir[c][p].masked ELSE \A g \in gs : redir[c][p] = want[g]
    <3>1. RightAt(c, p)
      BY <2>2, AllRight, ZenonT(40)
    <3> QED
      BY <3>1, ZenonT(40) DEF RightAt
  <2> QED
    BY <2>1, <2>2, ZenonT(40) DEF RoutedAsAsked
<1> QED
  BY <1>1, IoapicInvariant, PTL

\* A write that leaves an entry open leaves what was asked for its line.
LEMMA WriteWhole ==
  ASSUME IoapicInv, ioapic_write, NEW d \in Chips, NEW q \in Pins,
         redir'[d][q] # redir[d][q], ~redir'[d][q].masked
  PROVE  \E g \in Irqs : ioapic_for_gsi(g) = <<d, q>> /\ redir'[d][q] = want[g]
<1>1. stage \in {"walk", "up"} /\ todo # <<>> /\ IoapicTypeOK
  BY ZenonT(40) DEF IoapicInv, IoapicTypeOK, BootInv, ioapic_write
<1>2. stage # "walk"
  BY ClearWrite, ZenonT(40)
<1>3. PICK g \in Irqs, c \in Chips, p \in Pins : ioapic_for_gsi(g) = <<c, p>> /\ Pending(g, c, p)
  BY <1>1, <1>2, ZenonT(40) DEF IoapicInv, RouteInv
<1>4. /\ redir' \in [Chips -> [Pins -> Redirection]]
      /\ \A e \in Chips, r \in Pins : <<e, r>> # <<c, p>> => redir'[e][r] = redir[e][r]
      /\ \/ Pending(g, c, p)' /\ redir'[c][p].masked
         \/ todo' = <<>> /\ want[g] # None /\ redir'[c][p] = want[g]
         \/ todo' = <<>> /\ want[g] = None /\ redir'[c][p].masked
  BY <1>1, <1>3, PendingWrite, ZenonT(40)
<1>5. <<d, q>> = <<c, p>>
  BY <1>4, ZenonT(40)
<1>6. d = c /\ q = p
  BY <1>5, ZenonT(40)
<1> QED
  BY <1>3, <1>4, <1>6, ZenonT(40)

\* No write leaves an entry open that is not whole: neither while
\* ioapic_init_one clears it, nor between the writes of ioapic_set_irq.
THEOREM NeverHalfOpenAlways == IoapicSpec => NeverHalfOpen
<1> DEFINE Whole == \A c \in Chips, p \in Pins :
                      redir'[c][p] # redir[c][p] /\ ~redir'[c][p].masked =>
                        \E g \in Irqs : ioapic_for_gsi(g) = <<c, p>> /\ redir'[c][p] = want[g]
<1>1. IoapicInv /\ [IoapicNext]_ioapicVars => [Whole]_ioapicVars
  <2>1. ASSUME IoapicInv, ioapic_write PROVE Whole
    BY <2>1, WriteWhole, ZenonT(40)
  <2>2. ASSUME redir' = redir PROVE Whole
    BY <2>2
  <2>3. ASSUME IoapicNext PROVE ioapic_write \/ redir' = redir
    BY <2>3, ZenonT(40) DEF IoapicNext, apic_init, MadtEntry, WalkDone, ioapic_set_irq, ioapic_mask_irq
  <2> HIDE DEF Whole
  <2> QED
    BY <2>1, <2>2, <2>3
<1> QED
  BY <1>1, IoapicInvariant, PTL DEF IoapicSpec, NeverHalfOpen

-----------------------------------------------------------------------------
(* The stubs.                                                              *)

\* The double fault has an interrupt stack of its own, which is always there.
LEMMA DoubleFaultStack == Usable(StackFor(8))
<1>1. StackFor(8) = <<"ist", 1, 0>>
  BY DEF StackFor, Ist
<1>2. StackOf(StackFor(8)) = <<"ist", 1>>
  BY <1>1 DEF StackOf
<1>3. <<"ist", 1>> \in {"ist"} \X (1 .. 3)
  OBVIOUS
<1> QED
  BY <1>2, <1>3, ZenonT(40) DEF Usable, Stack

\* An exception is always delivered, as itself or as a double fault.
LEMMA RaiseDelivers == ASSUME NEW v, Raise(v) PROVE status' = status
<1> DEFINE w == IF Usable(StackFor(v)) THEN v ELSE 8
<1>1. Usable(StackFor(w))
  BY DoubleFaultStack, ZenonT(40)
<1> HIDE DEF w
<1>2. IF Usable(StackFor(w)) THEN Through(w, ErrorCode(w)) ELSE status' = "reset" /\ UNCHANGED <<regs, mem>>
  BY ZenonT(40) DEF Raise, w
<1> QED
  BY <1>1, <1>2, ZenonT(40) DEF Through

\* No sequence of interrupts, faults and aborts at any instruction, of any
\* number of tasks whose stack pointers are on their own stacks or not mapped,
\* resets the machine: the double fault that follows an unusable stack has a stack
\* of its own.
THEOREM NeverResetsAlways == Spec => []NeverResets
<1>1. Init => NeverResets
  BY DEF Init, NeverResets
<1>2. NeverResets /\ [Next]_vars => NeverResets'
  <2> SUFFICES ASSUME NeverResets, [Next]_vars PROVE NeverResets'
    OBVIOUS
  <2>1. CASE (\E v \in Faults : Fault(v)) \/ (\E v \in Aborts : Abort(v))
    BY <2>1, RaiseDelivers, ZenonT(40) DEF Fault, Abort, NeverResets
  <2>2. CASE Push
    <3>1. Raise(14) => status' = status
      BY RaiseDelivers, ZenonT(40)
    <3>2. status' = status
      BY <2>2, <3>1, ZenonT(40) DEF Push
    <3> QED
      BY <3>2, ZenonT(40) DEF NeverResets
  <2>3. CASE (\E v \in {32, 33} : Interrupt(v)) \/ ApicError \/ Syscall \/ UserStep \/ UserStackLost
    BY <2>3, ZenonT(40) DEF Interrupt, ApicError, Through, Syscall, UserStep, UserStackLost, NeverResets
  <2>4. CASE Pop \/ Move \/ Store \/ TestRing \/ SaveContext \/ SwitchTask \/ Iretq \/ Sysretq
    BY <2>4, ZenonT(40) DEF Pop, Move, Store, TestRing, SaveContext, SwitchTask, Iretq, Sysretq, NeverResets
  <2>5. CASE lapic_timer_handler \/ keyboard_handler \/ syscall_common_handler \/ BootEnters
    BY <2>5, ZenonT(40) DEF lapic_timer_handler, keyboard_handler, syscall_common_handler, BootEnters, NeverResets
  <2>6. CASE SYS_EXIT \/ exception_handler
    BY <2>6 DEF SYS_EXIT, exception_handler, NeverResets
  <2>7. CASE UNCHANGED vars
    BY <2>7, ZenonT(40) DEF vars, NeverResets
  <2> QED
    BY <2>1, <2>2, <2>3, <2>4, <2>5, <2>6, <2>7, ZenonT(40) DEF Next
<1> QED
  BY <1>1, <1>2, PTL DEF Spec
=============================================================================
