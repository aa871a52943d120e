--------------------------- MODULE FrameAllocator ---------------------------
(***************************************************************************)
(* What the physical memory manager promises its callers, without saying   *)
(* how it searches: blocks of consecutive frames are handed out of a fixed *)
(* pool, never twice, and a request is refused only for lack of room.      *)
(* Pmm.tla implements this specification.                                  *)
(***************************************************************************)
EXTENDS Integers, FiniteSets

CONSTANTS Pool,      \* the frames that may ever be handed out
          Slack,     \* how many free frames the free counter leaves out
          Counts,    \* the block sizes callers ask for
          Aligns     \* the alignments, in frames, callers ask for

VARIABLES held,      \* the blocks handed out and not given back
          req,       \* the last request, [count, align]
          outcome    \* "none", "pending", "granted" or "refused"

vars == <<held, req, outcome>>

\* The frames nobody holds.
Vacant == Pool \ UNION held

\* A block that answers request r: r.count consecutive vacant frames whose
\* first one is a multiple of r.align.
Answers(b, r) ==
  /\ b \subseteq Vacant
  /\ \E s \in Pool : /\ s % r.align = 0
                     /\ b = s .. (s + r.count - 1)

\* Request r cannot be answered, or asks for a frame the counter leaves out.
Unanswerable(r) ==
  \/ r.count = 0
  \/ r.align = 0
  \/ r.count > Cardinality(Vacant) - Slack
  \/ \A s \in Pool : s % r.align = 0 => ~(s .. (s + r.count - 1) \subseteq Vacant)

Init ==
  /\ held = {}
  /\ req = [count |-> 0, align |-> 0]
  /\ outcome = "none"

Ask(r) ==
  /\ outcome # "pending"
  /\ req' = r
  /\ outcome' = "pending"
  /\ UNCHANGED held

Grant ==
  /\ outcome = "pending"
  /\ req.count > 0 /\ req.align > 0
  /\ \E b \in SUBSET Pool : Answers(b, req) /\ held' = held \cup {b}
  /\ outcome' = "granted"
  /\ UNCHANGED req

Refuse ==
  /\ outcome = "pending"
  /\ Unanswerable(req)
  /\ outcome' = "refused"
  /\ UNCHANGED <<held, req>>

Release(b) ==
  /\ outcome # "pending"
  /\ held' = held \ {b}
  /\ outcome' = "none"
  /\ UNCHANGED req

Next ==
  \/ \E c \in Counts, a \in Aligns : Ask([count |-> c, align |-> a])
  \/ Grant
  \/ Refuse
  \/ \E b \in held : Release(b)

Spec == Init /\ [][Next]_vars
=============================================================================
