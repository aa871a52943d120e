---------------------------- MODULE MCInterrupts ----------------------------
(***************************************************************************)
(* The way of an interrupt, one stage of it at a time: the redirection     *)
(* entries of the I/O APICs (Ioapic), the local APIC timer (Timer), and    *)
(* the stubs that enter the kernel and leave it (Entry), with two tasks    *)
(* that are interrupted and switched, or with one task, P, exceptions in   *)
(* ring 3, and NMI and machine checks at every instruction.  The stages    *)
(* share no variable; while one is looked at the others rest.              *)
(***************************************************************************)
EXTENDS Entry, Timer, Ioapic

VARIABLE part   \* the stage

P == INSTANCE Entry WITH NTasks <- 1, Faults <- {0, 6, 13, 14}, Aborts <- {2, 18}

-----------------------------------------------------------------------------
(* Three I/O APICs of two entries, of which the kernel has room for two:   *)
(* tables with none, one, two overlapping and three of them, an override   *)
(* between, two MADTs, no MADT, an entry of length 0, and tables of        *)
(* revision 0.                                                             *)

IO(c, b) == [type |-> "ioapic", chip |-> c, base |-> b, length |-> 12]
Other(t) == [type |-> t, chip |-> 0, base |-> 0, length |-> 10]
Madt(es) == [sig |-> "APIC", entries |-> es]
Hpet == [sig |-> "HPET", entries |-> <<>>]
Acpi(ts) == [revision |-> 2, tables |-> ts]

MCFirmwares ==
  { Acpi(<<Hpet, Madt(<<IO(1, 0)>>)>>),
    Acpi(<<Madt(<<Other("lapic"), IO(1, 0), Other("iso"), IO(2, 1)>>)>>),
    Acpi(<<Madt(<<IO(3, 2), Other("iso"), IO(2, 0), IO(1, 0)>>), Hpet>>),
    Acpi(<<Madt(<<Other("iso")>>), Madt(<<IO(1, 0)>>)>>),
    Acpi(<<Madt(<<[IO(2, 0) EXCEPT !.length = 0]>>)>>),
    Acpi(<<Hpet>>),
    [revision |-> 0, tables |-> <<Madt(<<IO(1, 0)>>)>>] }

-----------------------------------------------------------------------------
(* Boot before its first task, and the APICs of a machine without MADT.    *)

EntryRests == P!Init

TimerRests ==
  /\ machine = [madt |-> FALSE, x2apic |-> FALSE, deadline |-> FALSE, invariant |-> FALSE,
                tsc |-> 0, svr |-> FALSE]
  /\ pc = "running"
  /\ x2apic_enabled = FALSE /\ tsc_frequency_hz = 0
  /\ mode = "off" /\ svr = FALSE
  /\ enabled = FALSE /\ armed = FALSE /\ irr = FALSE /\ isr = FALSE
  /\ lapic_ticks = 0 /\ schedules = 0

IoapicRests ==
  /\ firmware = Acpi(<<Hpet>>)
  /\ stage = "up" /\ walked = 0 /\ ioapics = <<>>
  /\ redir = [c \in Chips |-> [p \in Pins |-> Leftover]]
  /\ todo = <<>> /\ want = [g \in Irqs |-> None]

MCInit ==
  \/ part = "tasks" /\ Init /\ TimerRests /\ IoapicRests
  \/ part = "panics" /\ P!Init /\ TimerRests /\ IoapicRests
  \/ part = "timer" /\ EntryRests /\ TimerInit /\ IoapicRests
  \/ part = "ioapic" /\ EntryRests /\ TimerRests /\ IoapicInit

MCNext ==
  /\ UNCHANGED part
  /\ \/ part = "tasks" /\ Next /\ UNCHANGED <<timerVars, ioapicVars>>
     \/ part = "panics" /\ P!Next /\ UNCHANGED <<timerVars, ioapicVars>>
     \/ part = "timer" /\ TimerNext /\ UNCHANGED <<vars, ioapicVars>>
     \/ part = "ioapic" /\ IoapicNext /\ UNCHANGED <<vars, timerVars>>

MCSpec ==
  MCInit /\ [][MCNext]_<<vars, timerVars, ioapicVars, part>> /\ TimerFairness /\ IoapicFairness

-----------------------------------------------------------------------------
\* In every ring cs and ss select descriptors of that ring and kind, whichever
\* way it was entered (gates, syscall, sysretq, iretq), and every saved context
\* is a whole one at the top of a kernel stack.
SelectorsAndFrames ==
  SelectorsMatch /\ IF part = "tasks" THEN TypeOK ELSE P!TypeOK

\* The devices go on: on a machine whose timer mode lasts every quantum ends, as
\* long as the kernel comes back to enabled interrupts, and the walk of
\* ioapic_init_all over the MADT ends if its entries have lengths.
DevicesGoOn == QuantaEnd /\ BootEnds
=============================================================================
