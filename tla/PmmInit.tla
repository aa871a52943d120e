------------------------------ MODULE PmmInit ------------------------------
(***************************************************************************)
(* pmm_init of kernel/mm/pmm.c: from the boot loader's memory map to the   *)
(* bitmap and counters that Pmm.tla starts from.  One action per loop body *)
(* or block of the function.                                               *)
(***************************************************************************)
EXTENDS Integers, Sequences, FiniteSets

CONSTANTS MemoryMaps,    \* sequences of entries [base, length, type]
          PageSize,      \* PAGE_SIZE, in the units of base and length
          BitsPerPage,   \* how many frames one page of bitmap describes
          Modulus        \* 2^64: size_t wraps here

VARIABLES
  memmap,         \* memmap_request.response
  step,           \* the part of pmm_init that runs next
  i,              \* the loop index, from 1
  max_addr, total_frames, usable_frames,
  bitmap_frames,  \* pmm_bitmap_frames
  bitmap_size,    \* in pages
  bitmap_at,      \* the first frame of the bitmap, or -1: none found
  boot_used,      \* the frames whose bit is set
  boot_free,      \* pmm_free_frames_count
  boot_taken      \* pmm_used_frames_count

countVars == <<max_addr, total_frames, usable_frames>>
placeVars == <<bitmap_frames, bitmap_size, bitmap_at>>
resultVars == <<boot_used, boot_free, boot_taken>>
bootVars == <<memmap, step, i, countVars, placeVars, resultVars>>

is_ram_type(t) == t \in {"USABLE", "BOOTLOADER_RECLAIMABLE", "ACPI_RECLAIMABLE"}

\* Mutant: rounded the wrong way.
DivDown(n, d) == n \div d

\* The page numbers align_up(base) and align_down(base + length) lie at.
DivUp(n, d) == (n + d - 1) \div d
FirstPage(e) == DivUp(e.base, PageSize)
EndPage(e)   == (e.base + e.length) \div PageSize
Pages(e)     == FirstPage(e) .. (EndPage(e) - 1)

\* Memory of a RAM type is listed once, a usable entry has at least a page, and
\* the number of frames fits into size_t.
ASSUME MapsAssumption ==
  /\ PageSize \in Nat \ {0} /\ BitsPerPage \in Nat \ {0} /\ Modulus \in Nat \ {0}
  /\ \A m \in MemoryMaps :
       /\ Len(m) \in Nat
       /\ \A k \in 1 .. Len(m) :
            /\ m[k].base \in Nat /\ m[k].length \in Nat /\ EndPage(m[k]) < Modulus
            /\ m[k].type = "USABLE" => m[k].length >= PageSize
            /\ \A j \in 1 .. Len(m) :
                 j # k /\ is_ram_type(m[j].type) /\ is_ram_type(m[k].type) =>
                   \/ m[j].base + m[j].length <= m[k].base
                   \/ m[k].base + m[k].length <= m[j].base

BootInit ==
  /\ memmap \in MemoryMaps
  /\ step = "count" /\ i = 1
  /\ max_addr = 0 /\ total_frames = 0 /\ usable_frames = 0
  /\ bitmap_frames = 0 /\ bitmap_size = 0 /\ bitmap_at = -1
  /\ boot_used = {} /\ boot_free = 0 /\ boot_taken = 0

\* The first loop; max_addr is kept in pages.
Count ==
  /\ step = "count" /\ i <= Len(memmap)
  /\ LET e == memmap[i]
         n == Cardinality(Pages(e))
     IN  /\ total_frames' = total_frames + IF is_ram_type(e.type) THEN n ELSE 0
         /\ max_addr' = IF is_ram_type(e.type) /\ EndPage(e) > max_addr
                        THEN EndPage(e) ELSE max_addr
         /\ usable_frames' = usable_frames + IF e.type = "USABLE" THEN n ELSE 0
  /\ i' = i + 1
  /\ UNCHANGED <<memmap, step, placeVars, resultVars>>

Size ==
  /\ step = "count" /\ i > Len(memmap)
  /\ bitmap_frames' = max_addr
  /\ bitmap_size' = DivUp(max_addr, BitsPerPage)
  /\ step' = "place" /\ i' = 1
  /\ UNCHANGED <<memmap, countVars, bitmap_at, resultVars>>

\* Mutants: an entry is taken whatever its size; only one that is larger is.
HasRoomAny(e) == e.type = "USABLE" /\ e.base + e.length > FirstPage(e) * PageSize
HasRoomStrict(e) ==
  e.type = "USABLE" /\ e.base + e.length - FirstPage(e) * PageSize > bitmap_size * PageSize

\* The end is not aligned here, but it is compared with a multiple of the page size.
HasRoom(e) ==
  LET start == FirstPage(e) * PageSize
      end   == e.base + e.length
  IN  e.type = "USABLE" /\ end > start /\ end - start >= bitmap_size * PageSize

\* The second loop, ending with the first entry that has room ...
Place ==
  /\ step = "place" /\ i <= Len(memmap)
  /\ IF HasRoom(memmap[i])
     THEN bitmap_at' = FirstPage(memmap[i]) /\ step' = "fill" /\ UNCHANGED i
     ELSE i' = i + 1 /\ UNCHANGED <<bitmap_at, step>>
  /\ UNCHANGED <<memmap, countVars, bitmap_frames, bitmap_size, resultVars>>

\* ... or without one: there is no bitmap and nothing is free.
NoPlace ==
  /\ step = "place" /\ i > Len(memmap)
  /\ boot_free' = 0 /\ boot_taken' = usable_frames
  /\ step' = "failed"
  /\ UNCHANGED <<memmap, i, countVars, placeVars, boot_used>>

\* All bits set.
Fill ==
  /\ step = "fill"
  /\ boot_used' = 0 .. (bitmap_frames - 1)
  /\ boot_free' = 0 /\ boot_taken' = usable_frames
  /\ step' = "free" /\ i' = 1
  /\ UNCHANGED <<memmap, countVars, placeVars>>

\* Mutant: the counters are signed.
DownSigned(n, k) == n - k

\* Marking frames F free, or used, counts those whose bit really changes.
Down(n, k) == (n - k) % Modulus
Up(n, k)   == (n + k) % Modulus
MarkFree(F) ==
  LET c == Cardinality(F \cap boot_used)
  IN  boot_used' = boot_used \ F /\ boot_free' = Up(boot_free, c) /\ boot_taken' = Down(boot_taken, c)

\* Mutant: every frame is counted.
MarkUsedAll(F) ==
  LET c == Cardinality(F)
  IN  boot_used' = boot_used \cup F /\ boot_free' = Down(boot_free, c) /\ boot_taken' = Up(boot_taken, c)

MarkUsed(F) ==
  LET c == Cardinality(F \ boot_used)
  IN  boot_used' = boot_used \cup F /\ boot_free' = Down(boot_free, c) /\ boot_taken' = Up(boot_taken, c)

Below(F) == {f \in F : f < bitmap_frames}

\* The third loop.
FreeEntry ==
  /\ step = "free" /\ i <= Len(memmap)
  /\ IF memmap[i].type = "USABLE" THEN MarkFree(Below(Pages(memmap[i])))
                                  ELSE UNCHANGED resultVars
  /\ i' = i + 1
  /\ UNCHANGED <<memmap, step, countVars, placeVars>>

\* Frame 0: its bit is set in any case, and the counters are moved by one unless
\* nothing is free.
ProtectZero ==
  /\ step = "free" /\ i > Len(memmap)
  /\ boot_used' = boot_used \cup {0}
  /\ IF boot_free > 0
     THEN boot_free' = boot_free - 1 /\ boot_taken' = Up(boot_taken, 1)
     ELSE UNCHANGED <<boot_free, boot_taken>>
  /\ step' = "protect"
  /\ UNCHANGED <<memmap, i, countVars, placeVars>>

BitmapPages == bitmap_at .. (bitmap_at + bitmap_size - 1)
ProtectBitmap ==
  /\ step = "protect"
  /\ MarkUsed(Below(BitmapPages))
  /\ step' = "done"
  /\ UNCHANGED <<memmap, i, countVars, placeVars>>

Finished == step \in {"done", "failed"} /\ UNCHANGED bootVars

BootNext == \/ Count \/ Size \/ Place \/ NoPlace \/ Fill \/ FreeEntry
            \/ ProtectZero \/ ProtectBitmap \/ Finished

BootSpec == BootInit /\ [][BootNext]_bootVars
-----------------------------------------------------------------------------
(* Properties. *)

\* Every variable is a number, a set of frames or a step.
BootTypeOK ==
  /\ step \in {"count", "place", "fill", "free", "protect", "done", "failed"}
  /\ i \in 1 .. (Len(memmap) + 1)
  /\ \A n \in {max_addr, total_frames, usable_frames, bitmap_frames, bitmap_size} : n \in Nat
  /\ bitmap_at \in Nat \cup {-1}
  /\ boot_used \subseteq Nat
  /\ boot_free \in 0 .. (Modulus - 1) /\ boot_taken \in 0 .. (Modulus - 1)

\* The frames that lie wholly inside an entry of a type for which Want holds.
Inside(Want(_)) ==
  {f \in 0 .. bitmap_frames : \E k \in 1 .. Len(memmap) :
     LET e == memmap[k]
     IN  Want(e.type) /\ e.base <= f * PageSize /\ (f + 1) * PageSize <= e.base + e.length}
IsUsable(t) == t = "USABLE"
UsablePages == Inside(IsUsable)

\* The bitmap is put into usable memory that is large enough for it, and has a
\* bit for every frame that can be used.
BitmapInUsable ==
  step \in {"fill", "free", "protect", "done"} =>
    /\ BitmapPages \subseteq UsablePages
    /\ bitmap_size * BitsPerPage >= bitmap_frames
    /\ bitmap_frames \notin UsablePages

\* pmm_init establishes what Pmm.tla takes as its initial state: the same bits
\* and the same counters.  (Like Pmm's RoomAssumption, this leaves out the map in
\* which the bitmap takes up all usable memory: there the counter wraps.)
EstablishesPmmInit ==
  step = "done" /\ bitmap_size < Cardinality(UsablePages) =>
    /\ boot_used = ((0 .. (bitmap_frames - 1)) \ UsablePages) \cup {0} \cup BitmapPages
    /\ boot_free = (Cardinality(UsablePages) - 1) - Cardinality(BitmapPages \ {0})
    /\ boot_taken = Cardinality(UsablePages) - boot_free

\* The totals that print_memory_info reports are the numbers of frames that lie
\* wholly inside memory of the kind.
TotalsRight ==
  step \notin {"count"} =>
    /\ total_frames = Cardinality(Inside(is_ram_type))
    /\ usable_frames = Cardinality(UsablePages)

\* Without a place for the bitmap no frame is ever handed out.
FailsSafe ==
  step = "failed" => /\ boot_free = 0
                     /\ \A k \in 1 .. Len(memmap) :
                          IsUsable(memmap[k].type) => Cardinality(Pages(memmap[k])) < bitmap_size

\* pmm_init leaves what the allocator starts from: the same bits and counters as
\* Pmm's Init, with the bitmap inside usable memory and a bit for every usable
\* frame, and the totals print_memory_info reports are right.  Without a place
\* for the bitmap nothing is ever handed out.
BootLeavesPmm ==
  BootTypeOK /\ BitmapInUsable /\ EstablishesPmmInit /\ TotalsRight /\ FailsSafe
=============================================================================
