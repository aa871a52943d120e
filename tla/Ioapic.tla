------------------------------- MODULE Ioapic -------------------------------
(***************************************************************************)
(* From the ACPI tables to the redirection entries of the I/O APICs:       *)
(* acpi_get_madt, the walk of ioapic_init_all, and the calls through       *)
(* irq_set, irq_mask and irq_unmask.  Each write of a half of a            *)
(* redirection entry is a step of its own, because the I/O APIC may        *)
(* deliver an interrupt between two of them.  The chips are external: what *)
(* the firmware left in their entries is not masked.                       *)
(***************************************************************************)
EXTENDS Integers, Sequences, FiniteSetsExt, Functions

CONSTANTS Firmwares,   \* [revision, tables]; a table is [sig, entries], an entry [type, chip, base, length]
          Chips,       \* the I/O APICs there are
          MaxPin,      \* the last redirection entry of a chip
          Limit,       \* size of ioapics[]
          Irqs, Vectors, Dests

ASSUME ChipsAssumption ==
  MaxPin \in Nat /\ Limit \in Nat /\ Irqs \subseteq Nat /\ Vectors \subseteq Nat /\ Dests \subseteq Nat

\* A table describes every I/O APIC once.
IoapicsIn(t) == {j \in 1 .. Len(t.entries) : t.entries[j].type = "ioapic"}
ASSUME FirmwareAssumption ==
  \A f \in Firmwares :
    /\ Len(f.tables) \in Nat
    /\ \A i \in 1 .. Len(f.tables) : LET t == f.tables[i] IN
         /\ Len(t.entries) \in Nat
         /\ \A j \in IoapicsIn(t) : t.entries[j].chip \in Chips /\ t.entries[j].base \in Nat
         /\ \A j, k \in IoapicsIn(t) : t.entries[j].chip = t.entries[k].chip => j = k

VARIABLES firmware, stage,
          walked,            \* entries of the MADT done
          ioapics,           \* the chips found: [chip, gsi_base, max_redirection]
          redir,             \* chip -> pin -> [vec, masked, dest]
          todo,              \* the writes that the running function has yet to make
          want               \* what callers asked for: gsi -> [vec, masked, dest] (history)

ioapicVars == <<firmware, stage, walked, ioapics, redir, todo, want>>

Pins == 0 .. MaxPin
Leftover == [vec |-> -1, masked |-> FALSE, dest |-> -1]
None == [vec |-> -2, masked |-> TRUE, dest |-> -2]

IoapicInit ==
  /\ firmware \in Firmwares
  /\ stage = "acpi" /\ walked = 0 /\ ioapics = <<>>
  /\ redir = [c \in Chips |-> [p \in Pins |-> Leftover]]
  /\ todo = <<>>
  /\ want = [g \in Irqs |-> None]

-----------------------------------------------------------------------------
(* ACPI.                                                                   *)

\* The first table with the signature, as a sequence of none or one.
acpi_find_table(tables, sig) ==
  LET found == {i \in 1 .. Len(tables) : tables[i].sig = sig}
  IN  IF found = {} THEN <<>> ELSE <<tables[Min(found)]>>

\* There is no XSDT before revision 2.
acpi_get_madt == IF firmware.revision < 2 THEN <<>> ELSE acpi_find_table(firmware.tables, "APIC")

apic_init ==
  /\ stage = "acpi"
  /\ stage' = IF acpi_get_madt = <<>> THEN "up" ELSE "walk"
  /\ UNCHANGED <<firmware, walked, ioapics, redir, todo, want>>

-----------------------------------------------------------------------------
(* The writes of one function, one at a time.                              *)

Low(c, p, vec, masked) == [chip |-> c, pin |-> p, low |-> TRUE, vec |-> vec, masked |-> masked]
High(c, p, dest) == [chip |-> c, pin |-> p, low |-> FALSE, dest |-> dest]

\* What the write w makes of the entry e.
Written(e, w) ==
  IF w.low THEN [vec |-> w.vec, masked |-> w.masked, dest |-> e.dest]
           ELSE [vec |-> e.vec, masked |-> e.masked, dest |-> w.dest]

ioapic_write ==
  /\ todo # <<>>
  /\ LET w == Head(todo) IN redir' = [redir EXCEPT ![w.chip][w.pin] = Written(@, w)]
  /\ todo' = Tail(todo)
  /\ UNCHANGED <<firmware, stage, walked, ioapics, want>>

\* ioapic_init_one: every entry is masked first, then its destination cleared.
Clear(c) == [i \in 1 .. 2 * (MaxPin + 1) |->
  LET p == (i - 1) \div 2 IN IF i % 2 = 1 THEN Low(c, p, 0, TRUE) ELSE High(c, p, 0)]

Entries == acpi_get_madt[1].entries

\* ptr += hdr->length.  Mutant: an interrupt source override is not stepped over.
StepStuck(e) == IF e.type = "iso" THEN 0 ELSE 1
StepOver(e) == IF e.length = 0 THEN 0 ELSE 1

\* Mutant: one I/O APIC too many.
FullLate == Len(ioapics) > Limit
Full == Len(ioapics) >= Limit

\* One turn of the loop in ioapic_init_all; overrides are skipped.
MadtEntry ==
  /\ stage = "walk" /\ todo = <<>> /\ walked < Len(Entries)
  /\ LET e == Entries[walked + 1] IN
     /\ walked' = walked + StepOver(e)
     /\ IF e.type = "ioapic" /\ ~Full
        THEN /\ ioapics' = Append(ioapics, [chip |-> e.chip, gsi_base |-> e.base, max_redirection |-> MaxPin])
             /\ todo' = Clear(e.chip)
        ELSE UNCHANGED <<ioapics, todo>>
  /\ UNCHANGED <<firmware, stage, redir, want>>

WalkDone ==
  /\ stage = "walk" /\ todo = <<>> /\ walked = Len(Entries)
  /\ stage' = "up"
  /\ UNCHANGED <<firmware, walked, ioapics, redir, todo, want>>

-----------------------------------------------------------------------------
Covers(io, gsi) == io.gsi_base <= gsi /\ gsi < io.gsi_base + io.max_redirection + 1

\* The first I/O APIC that covers gsi, as a sequence of none or one <<chip, pin>>.
ioapic_for_gsi(gsi) ==
  LET found == {i \in 1 .. Len(ioapics) : Covers(ioapics[i], gsi)}
  IN  IF found = {} THEN <<>>
      ELSE <<ioapics[Min(found)].chip, gsi - ioapics[Min(found)].gsi_base>>

\* Mutant: the entry is opened before its destination is written.
RouteUnmaskedFirst(c, p, vec, dest) == <<Low(c, p, vec, FALSE), High(c, p, dest)>>
Route(c, p, vec, dest) == <<Low(c, p, vec, TRUE), High(c, p, dest), Low(c, p, vec, FALSE)>>

ioapic_set_irq(irq, vec, dest) ==
  /\ stage = "up" /\ todo = <<>>
  /\ LET t == ioapic_for_gsi(irq) IN
     IF t = <<>> THEN UNCHANGED <<todo, want>>
     ELSE /\ todo' = Route(t[1], t[2], vec, dest)
          /\ want' = [want EXCEPT ![irq] = [vec |-> vec, masked |-> FALSE, dest |-> dest]]
  /\ UNCHANGED <<firmware, stage, walked, ioapics, redir>>

\* Mutant: the vector is not kept.
KeepNothing(val, mask) == [vec |-> 0, masked |-> mask, dest |-> val.dest]
Keep(val, mask) == [vec |-> val.vec, masked |-> mask, dest |-> val.dest]

\* ioapic_mask_irq and ioapic_unmask_irq; only a line that was routed is unmasked.
ioapic_mask_irq(irq, mask) ==
  /\ stage = "up" /\ todo = <<>>
  /\ mask \/ want[irq] # None
  /\ LET t == ioapic_for_gsi(irq)
         val == Keep(redir[t[1]][t[2]], mask)
     IN  todo' = IF t = <<>> THEN <<>> ELSE <<Low(t[1], t[2], val.vec, val.masked)>>
  /\ want' = [want EXCEPT ![irq] = Keep(@, mask)]
  /\ UNCHANGED <<firmware, stage, walked, ioapics, redir>>

IoapicNext ==
  \/ apic_init \/ MadtEntry \/ WalkDone \/ ioapic_write
  \/ \E irq \in Irqs :
       \/ \E v \in Vectors, d \in Dests : ioapic_set_irq(irq, v, d)
       \/ \E mask \in BOOLEAN : ioapic_mask_irq(irq, mask)

\* The boot code goes on.
IoapicFairness == WF_ioapicVars(apic_init \/ MadtEntry \/ WalkDone \/ ioapic_write)
IoapicSpec == IoapicInit /\ [][IoapicNext]_ioapicVars /\ IoapicFairness

-----------------------------------------------------------------------------
Redirection == [vec : Vectors \cup {0, -1}, masked : BOOLEAN, dest : Dests \cup {0, -1}]

\* Every entry holds values that were written.
IoapicTypeOK ==
  /\ stage \in {"acpi", "walk", "up"} /\ walked \in Nat
  /\ \A i \in 1 .. Len(ioapics) : ioapics[i].chip \in Chips
  /\ redir \in [Chips -> [Pins -> Redirection]]
  /\ want \in [Irqs -> Redirection \cup {None}]

\* The chips that were found.
Found == {ioapics[i].chip : i \in 1 .. Len(ioapics)}

\* Once the interrupts are set up, a write that leaves an entry open leaves it
\* whole: no interrupt is delivered with the new vector and the old
\* destination, or the other way round, between the writes of ioapic_set_irq.
NeverHalfOpen ==
  [][\A c \in Chips, p \in Pins :
       redir'[c][p] # redir[c][p] /\ ~redir'[c][p].masked =>
         \E g \in Irqs : ioapic_for_gsi(g) = <<c, p>> /\ redir'[c][p] = want[g]]_ioapicVars

\* Between two calls the entries are what the callers asked for, and every
\* other entry of a chip that was found is masked: one line never disturbs
\* another, also where the ranges of two chips overlap, and with more chips than
\* ioapics[] has room for.
RoutedAsAsked ==
  /\ Len(ioapics) <= Limit
  /\ stage = "up" /\ todo = <<>> => \A c \in Found, p \in Pins :
       LET gs == {g \in Irqs : want[g] # None /\ ioapic_for_gsi(g) = <<c, p>>}
       IN  IF gs = {} THEN redir[c][p].masked ELSE \A g \in gs : redir[c][p] = want[g]

\* If every entry of the MADT has a length the walk of ioapic_init_all ends,
\* also with more I/O APICs than there is room for.
BootEnds ==
  (\A t \in Range(firmware.tables) : \A e \in Range(t.entries) : e.length > 0) => <>(stage = "up")
=============================================================================
