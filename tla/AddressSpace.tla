---------------------------- MODULE AddressSpace ----------------------------
(***************************************************************************)
(* What the virtual memory manager promises about one address space,       *)
(* without page tables: a partial map from pages to frames, made of single *)
(* pages and of blocks (2 MiB mappings).  A page that is mapped is never   *)
(* given another frame before it was unmapped.  Vmm.tla implements this    *)
(* specification for the kernel and for every task.                        *)
(***************************************************************************)
EXTENDS Integers

CONSTANTS Span,      \* pages in a block
          Pages,     \* the pages somebody uses
          Targets    \* the frames somebody maps

VARIABLES view,      \* the frame of each page, or None
          blocks     \* the first pages of the blocks that are mapped as one

vars == <<view, blocks>>

None == -1

BlockOf(p) == p - (p % Span)
PagesOf(b) == {p \in Pages : BlockOf(p) = b}

\* The pages that unmapping p takes away: its block if it was mapped as one.
UnitOf(p) == IF BlockOf(p) \in blocks THEN PagesOf(BlockOf(p)) ELSE {p}

Without(S) == [p \in Pages |-> IF p \in S THEN None ELSE view[p]]

\* The bootloader may have mapped something.
Init == view \in [Pages -> Nat \cup {None}] /\ blocks \subseteq {BlockOf(p) : p \in Pages}

\* The frame is the caller's choice.
Map(p) ==
  /\ view[p] = None /\ view'[p] \in Targets
  /\ view' = [view EXCEPT ![p] = view'[p]]
  /\ UNCHANGED blocks

MapBlock(b) ==
  /\ \A p \in PagesOf(b) : view[p] = None
  /\ \E f \in Targets :
       view' = [p \in Pages |-> IF p \in PagesOf(b) THEN f + (p - b) ELSE view[p]]
  /\ blocks' = blocks \cup {b}

Unmap(p) ==
  /\ view[p] # None
  /\ view' = Without(UnitOf(p))
  /\ blocks' = blocks \ {BlockOf(p)}

UnmapBlock(b) ==
  /\ view' = Without(PagesOf(b))
  /\ blocks' = blocks \ {b}

\* Every step takes or gives some page its frame.
Next == \E p \in Pages :
          /\ view'[p] # view[p]
          /\ Map(p) \/ MapBlock(BlockOf(p)) \/ Unmap(p) \/ UnmapBlock(BlockOf(p))

Spec == Init /\ [][Next]_vars
=============================================================================
