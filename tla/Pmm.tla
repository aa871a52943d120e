-------------------------------- MODULE Pmm --------------------------------
(***************************************************************************)
(* The physical memory manager, kernel/mm/pmm.c: a bitmap with one bit per *)
(* frame, two counters and a next-fit hint.  An allocation is modelled one *)
(* iteration of its scan loop at a time, so that what the loop maintains   *)
(* is an invariant of the specification.  pmm_init is modelled by the      *)
(* state it leaves (Init); PmmInit.tla shows how it gets there.            *)
(***************************************************************************)
EXTENDS Integers, FiniteSets

CONSTANTS NFrames,   \* pmm_bitmap_frames: the bitmap covers 0 .. NFrames-1
          Usable,    \* the frames inside LIMINE_MEMMAP_USABLE entries
          Bitmap,    \* the frames the bitmap itself occupies
          Counts,    \* block sizes callers ask for (0 included: an early return)
          Aligns     \* alignments callers ask for, in frames (0 included)

Frame == 0 .. (NFrames - 1)

ASSUME FramesAssumption == NFrames \in Nat \ {0}
ASSUME UsableAssumption == Usable \subseteq Frame /\ Bitmap \subseteq Usable
ASSUME RoomAssumption   == Cardinality(Bitmap) < Cardinality(Usable)
ASSUME CallsAssumption  == Counts \subseteq Nat /\ Aligns \subseteq Nat

VARIABLES
  used,         \* the frames whose bit is set
  free_frames,  \* pmm_free_frames_count
  used_frames,  \* pmm_used_frames_count
  hint,         \* next_fit_hint
  pc,           \* "idle" or "scan": inside the loop of an allocation
  req,          \* the arguments of the last allocation, [count, align]
  frame, run_start, run_length, wrapped,  \* the loop's locals
  held,         \* the blocks callers hold (each a set of frames)
  ret,          \* the frame number last returned; frame 0 is the NULL pointer
  outcome       \* how the last call ended: "none", "pending", "granted", "refused"

scanVars == <<frame, run_start, run_length, wrapped>>
vars == <<used, free_frames, used_frames, hint, pc, req, scanVars, held, ret, outcome>>

NULL == 0

\* Frame 0, the bitmap and everything that is not usable RAM.
Reserved == (Frame \ Usable) \cup {0} \cup Bitmap
Pool == Frame \ Reserved

Clear == Frame \ used
BlockAt(s, n) == s .. (s + n - 1)

\* Mutant: the bitmap's own frames are not subtracted.
InitialFreeNoBitmap == Cardinality(Usable) - 1

\* pmm_init: all bits set, usable frames cleared, then frame 0 and the bitmap
\* protected.  The free counter is lowered for frame 0 whether or not frame 0
\* was among the frames just cleared.
InitialFree == (Cardinality(Usable) - 1) - Cardinality(Bitmap \ {0})

Init ==
  /\ used = Reserved
  /\ free_frames = InitialFree
  /\ used_frames = Cardinality(Usable) - InitialFree
  /\ hint = 0
  /\ pc = "idle"
  /\ req = [count |-> 0, align |-> 0]
  /\ frame = 0 /\ run_start = 0 /\ run_length = 0 /\ wrapped = FALSE
  /\ held = {}
  /\ ret = NULL
  /\ outcome = "none"

\* The two early returns of pmm_alloc_frames and pmm_alloc_frames_aligned.
\* pmm_alloc_frames is the aligned function with an alignment of one frame.
TooMuch(r) == r.count = 0 \/ free_frames < r.count \/ r.align = 0

Call(r) ==
  /\ pc = "idle"
  /\ outcome # "pending"
  /\ req' = r
  /\ outcome' = "pending"
  /\ UNCHANGED <<used, free_frames, used_frames, hint, pc, scanVars, held, ret>>

ReturnEarly ==
  /\ pc = "idle"
  /\ outcome = "pending"
  /\ TooMuch(req)
  /\ ret' = NULL
  /\ outcome' = "refused"
  /\ UNCHANGED <<used, free_frames, used_frames, hint, pc, req, scanVars, held>>

StartScan ==
  /\ pc = "idle"
  /\ outcome = "pending"
  /\ ~TooMuch(req)
  /\ pc' = "scan"
  /\ frame' = hint
  /\ run_start' = 0
  /\ run_length' = 0
  /\ wrapped' = FALSE
  /\ UNCHANGED <<used, free_frames, used_frames, hint, req, held, ret, outcome>>

\* Mutant: a set bit does not end the run.
NewLengthNoReset == run_length + 1

\* The run after looking at the current frame: a clear frame extends a run, or
\* starts one if it is aligned; a set bit ends the run.
StartsRun == run_length = 0 /\ frame % req.align = 0
NewStart  == IF frame \notin used /\ StartsRun THEN frame ELSE run_start
NewLength == IF frame \in used THEN 0
             ELSE IF StartsRun THEN 1
             ELSE IF run_length > 0 THEN run_length + 1 ELSE 0
NextFrame == (frame + 1) % NFrames

\* Mutants: one round instead of two; no end at all.
GiveUpOnFirst == NextFrame = hint
GiveUpNever   == FALSE

\* The loop ends when it is back at the hint for the second time.
GiveUp == NextFrame = hint /\ wrapped

\* Returning: the locals are gone.
LeaveScan ==
  /\ pc' = "idle"
  /\ frame' = 0 /\ run_start' = 0 /\ run_length' = 0 /\ wrapped' = FALSE

\* The loop that sets the bits of the block from s on, and the hint behind it.
MarkBlock(s) == used' = used \cup BlockAt(s, req.count)
SetHint(s)   == hint' = (s + req.count) % NFrames

\* The run has reached the requested length: mark it and return it.
ScanFound ==
  /\ pc = "scan"
  /\ NewLength = req.count
  /\ MarkBlock(NewStart)
  /\ free_frames' = free_frames - req.count
  /\ used_frames' = used_frames + req.count
  /\ SetHint(NewStart)
  /\ held' = held \cup {BlockAt(NewStart, req.count)}
  /\ ret' = NewStart
  /\ outcome' = "granted"
  /\ LeaveScan
  /\ UNCHANGED req

\* Not there yet: on to the next frame, noting the first return to the hint.
ScanAdvance ==
  /\ pc = "scan"
  /\ NewLength # req.count
  /\ ~GiveUp
  /\ run_start' = NewStart
  /\ run_length' = NewLength
  /\ frame' = NextFrame
  /\ wrapped' = (wrapped \/ NextFrame = hint)
  /\ UNCHANGED <<used, free_frames, used_frames, hint, pc, req, held, ret, outcome>>

\* Nothing found.
ScanFail ==
  /\ pc = "scan"
  /\ NewLength # req.count
  /\ GiveUp
  /\ ret' = NULL
  /\ outcome' = "refused"
  /\ LeaveScan
  /\ UNCHANGED <<used, free_frames, used_frames, hint, req, held>>

\* Mutant: the last frame of the bitmap is taken to be past its end.
FreedShort(b) == {f \in b : f < NFrames - 1 /\ f \in used}

\* The frames of b whose bits the loop clears: it stops at the end of the bitmap
\* and skips frames that are already clear.
Freed(b) == {f \in b : f < NFrames /\ f \in used}

\* pmm_free_frames on a block the caller holds.
pmm_free_frames(b) ==
  /\ pc = "idle"
  /\ outcome # "pending"
  /\ used' = used \ Freed(b)
  /\ free_frames' = free_frames + Cardinality(Freed(b))
  /\ used_frames' = used_frames - Cardinality(Freed(b))
  /\ held' = held \ {b}
  /\ outcome' = "none"
  /\ UNCHANGED <<hint, pc, req, scanVars, ret>>

Next ==
  \/ \E c \in Counts, a \in Aligns : Call([count |-> c, align |-> a])
  \/ ReturnEarly
  \/ StartScan
  \/ ScanFound
  \/ ScanAdvance
  \/ ScanFail
  \/ \E b \in held : pmm_free_frames(b)

Scan == ReturnEarly \/ StartScan \/ ScanFound \/ ScanAdvance \/ ScanFail

Spec == Init /\ [][Next]_vars

\* The CPU keeps executing the loop; callers need not call again.
FairSpec == Spec /\ WF_vars(Scan)
-----------------------------------------------------------------------------
(* Properties. *)

Results == {"none", "pending", "granted", "refused"}

\* Every variable keeps the type its declaration in pmm.c gives it: the hint and
\* the scanned frame index the bitmap, and the counters never wrap below zero.
TypeOK ==
  /\ used \subseteq Frame
  /\ free_frames \in Nat /\ used_frames \in Nat
  /\ hint \in Frame
  /\ pc \in {"idle", "scan"}
  /\ req \in [count : Nat, align : Nat]
  /\ frame \in Frame /\ run_start \in Frame /\ run_length \in Nat
  /\ wrapped \in BOOLEAN
  /\ held \subseteq SUBSET Frame
  /\ ret \in Frame
  /\ outcome \in Results

\* How many clear bits pmm_free_frames_count leaves out.
Slack == IF 0 \in Usable THEN 0 ELSE 1

\* No frame is ever in two blocks, and no caller ever gets frame 0, a frame of
\* the bitmap or a frame that is not usable RAM: the run that the scan loop
\* returns never continues past the last frame, although the loop itself does.
\* No frame leaks either: a set bit is a reserved frame or somebody's block.
BlocksExclusive ==
  /\ \A b, c \in held : b # c => b \cap c = {}
  /\ \A b \in held : b # {} /\ b \subseteq Pool
  /\ used = Reserved \cup UNION held

\* After any history of allocations and frees the two counters agree with the
\* bitmap, up to the one frame that pmm_init miscounts when frame 0 is not usable,
\* and add up to the usable frames.
CountersAgree ==
  /\ free_frames = Cardinality(Clear) - Slack
  /\ free_frames + used_frames = Cardinality(Usable)

\* A granted request has a non-NULL, aligned address, of a block now held.
GrantedIsUsable ==
  outcome = "granted" => /\ ret # NULL
                         /\ ret % req.align = 0
                         /\ BlockAt(ret, req.count) \in held

\* The first frames from which a run of r.count clear, aligned frames starts.
Fits(r) == {s \in Frame : /\ s % r.align = 0
                          /\ BlockAt(s, r.count) \subseteq Clear}

\* pmm_alloc_frames and pmm_alloc_frames_aligned return NULL only when they
\* must: a two-round scan from the hint misses no run, wherever the hint was
\* left, also not one that lies across it.
RefusedOnlyIfFull ==
  outcome = "refused" => TooMuch(req) \/ Fits(req) = {}

\* Every call returns: the scan loop terminates.
CallsReturn == outcome = "pending" ~> outcome # "pending"

\* The scan loop and the bitmap implement the allocator callers rely on.
FA == INSTANCE FrameAllocator
ImplementsFrameAllocator == FA!Spec

\* What print_memory_info reports as "Free ... pages" is the number of frames
\* whose bit is clear.
FreeCountExact == free_frames = Cardinality(Clear)
=============================================================================
