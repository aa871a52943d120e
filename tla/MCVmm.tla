------------------------------- MODULE MCVmm -------------------------------
(***************************************************************************)
(* The page tables with three kinds of callers, one per scene, each using  *)
(* some of the pages.  In the first a task maps a page and the kernel maps *)
(* page 24, under a top-level entry that is empty at first; there may be a *)
(* second task.  In the second there are tasks with nothing mapped, which  *)
(* leave two tables to the kernel; it works on pages 16 to 18, the last in *)
(* a 2 MiB mapping at first, until it runs out of them.  In the third two  *)
(* tasks map pages and ranges that cross from one page table into the      *)
(* next; there are tables for a page of each or for both pages of one.     *)
(* The properties are looked at on all pages in all scenes.                *)
(***************************************************************************)
EXTENDS Vmm

VARIABLE scene   \* which of the three

OneChoice == {<<100, TRUE>>}

MCInit == Init /\ scene \in {"tasks", "kernel", "range"}

\* Next with the calls that concern some of the pages.
KernelCalls(S) ==
  \/ \E r \in Calls("map", Kernel, S, Choices, Counts) : vmm_map(r)
  \/ \E r \in Calls("unmap", Kernel, S, {Nothing}, Counts) : vmm_unmap(r)
  \/ \E r \in Calls("map_huge", Kernel, S, Choices, {1}) : vmm_map_huge_2mb(r)
  \/ \E r \in Calls("unmap_huge", Kernel, S, {Nothing}, {1}) : vmm_unmap_huge_2mb(r)
TaskCalls(S) ==
  \/ \E r \in Calls("map_for", spaces, S, Choices, Counts) : vmm_map_for_pml4(r)
  \/ Cardinality(spaces) < 2 /\ NewSpace

MCNext ==
  /\ UNCHANGED scene
  /\ \/ scene = "tasks" /\ (KernelCalls({24}) \/ TaskCalls({1}))
     \/ scene = "kernel" /\ IF Cardinality(spaces) < MaxSpaces THEN NewSpace
                             ELSE KernelCalls({16, 17, 18})
     \/ scene = "range" /\ TaskCalls({1, 2})

MCSpec == MCInit /\ [][MCNext]_<<vars, scene>>
=============================================================================
