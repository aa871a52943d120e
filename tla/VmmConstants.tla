---------------------------- MODULE VmmConstants ----------------------------
(***************************************************************************)
(* The sizes and the pages that Vmm.tla is about.  A page is a number      *)
(* whose digits are the four table indexes; the kernel's pages are in the  *)
(* upper half of the addresses, as are the bootloader's, and the tasks'    *)
(* pages in the lower half.                                                *)
(***************************************************************************)
EXTENDS Integers

CONSTANTS TopSpan, Span,             \* entries of a top-level and of any other table
          NTables,                   \* bound: the frames there are for tables
          KernelPages, UserPages,    \* the pages somebody uses
          Choices,                   \* the pairs <<frame, no-execute>> to map
          MaxCount,                  \* bound: pages in a range
          BootPage, BootFrame,       \* what the bootloader mapped with 2 MiB
          MaxSpaces                  \* bound: address spaces of tasks

Top  == TopSpan * (Span * Span * Span)
Half == (TopSpan \div 2) * (Span * Span * Span)

\* A table of any level has room for its indexes; there are frames for the
\* bootloader's three tables.
ASSUME TablesAssumption ==
  /\ Span \in Nat \ {0} /\ TopSpan \in Nat /\ Span <= TopSpan
  /\ NTables \in Nat /\ NTables >= 3

ASSUME PagesAssumption ==
  KernelPages \cup {BootPage} \subseteq Half .. Top - 1 /\ UserPages \subseteq 0 .. Half - 1

ASSUME CallsAssumption ==
  /\ Choices \subseteq Nat \X BOOLEAN /\ BootFrame \in Nat
  /\ MaxCount \in Nat \ {0} /\ MaxSpaces \in Nat
=============================================================================
