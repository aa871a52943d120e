------------------------------- MODULE MCPmm -------------------------------
(***************************************************************************)
(* The physical memory manager on small machines: either the allocator     *)
(* works on one memory (Pmm), or pmm_init works through one of all memory  *)
(* maps of up to three entries (PmmInit).  While one of the two is at work *)
(* the other rests, so that the run looks at them side by side.            *)
(***************************************************************************)
EXTENDS Pmm, PmmInit

CONSTANTS Units   \* the size of physical memory for pmm_init, in half pages

\* A hole separates two usable regions, frame 0 is not usable, as Limine's
\* memory maps have it, and the bitmap is in the first usable frame.
HighUsable == {1, 2, 3, 5, 6, 7, 8}
HighBitmap == {1}
MCCounts == 0 .. 3
MCAligns == {0, 1, 2}

-----------------------------------------------------------------------------
\* As the Limine protocol has it, entries are sorted and do not overlap, and
\* usable ones are page-aligned; others need not be.
Entry == [base : 0 .. (Units - 1), length : 1 .. Units,
          type : {"USABLE", "ACPI_RECLAIMABLE", "RESERVED"}]
Entries == {e \in Entry : /\ e.base + e.length <= Units
                          /\ e.type = "USABLE" => /\ e.base % PageSize = 0
                                                  /\ e.length % PageSize = 0}
After(d) == {e \in Entries : d.base + d.length <= e.base}
MCMaps == UNION {{<<d>>} \cup UNION {{<<d, e>>} \cup {<<d, e, f>> : f \in After(e)}
                                     : e \in After(d)}
                 : d \in Entries}

VARIABLE part   \* which of the two is at work

\* pmm_init after a memory map without entries.
BootRests ==
  /\ memmap = <<>> /\ step = "failed" /\ i = 1
  /\ max_addr = 0 /\ total_frames = 0 /\ usable_frames = 0
  /\ bitmap_frames = 0 /\ bitmap_size = 0 /\ bitmap_at = -1
  /\ boot_used = {} /\ boot_free = 0 /\ boot_taken = 0

MCInit ==
  /\ Init
  /\ \/ part = "pmm" /\ BootRests
     \/ part = "pmm_init" /\ BootInit

MCNext ==
  /\ UNCHANGED part
  /\ \/ part = "pmm" /\ Next /\ UNCHANGED bootVars
     \/ part = "pmm_init" /\ BootNext /\ UNCHANGED vars

MCSpec == MCInit /\ [][MCNext]_<<vars, bootVars, part>> /\ WF_vars(Scan)

=============================================================================
