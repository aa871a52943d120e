---------------------------- MODULE MCTaskLoader ----------------------------
(* Three tasks with user pages 0 to 5, on memories that range from too     *)
(* small for one task to enough for three, with a hole: a program of two   *)
(* segments, the second partly zeroed, a smaller one, one whose segments   *)
(* share a page, one that reaches into the stack, one with an empty        *)
(* segment, one with more in the file than in memory, and no program.      *)
EXTENDS TaskLoader

Seg(p, n, c) == [page |-> p, n |-> n, copied |-> c]
Program == [valid |-> TRUE, segs |-> <<Seg(0, 1, 1), Seg(1, 2, 1)>>]
Tiny == [valid |-> TRUE, segs |-> <<Seg(0, 1, 1)>>]
Overlapping == [valid |-> TRUE, segs |-> <<Seg(1, 1, 1), Seg(0, 2, 2)>>]
IntoStack == [valid |-> TRUE, segs |-> <<Seg(3, 3, 3)>>]
EmptySegment == [valid |-> TRUE, segs |-> <<Seg(0, 0, 0)>>]
Oversized == [valid |-> TRUE, segs |-> <<Seg(0, 1, 3)>>]
NotElf == [valid |-> FALSE, segs |-> <<>>]

MCFiles == {Program, Tiny, Overlapping, IntoStack, EmptySegment, Oversized, NotElf}
MCUserPages == 0 .. 5
MCMemories == {1 .. h \cup (h + 2) .. m : h \in {3, 8, 14}, m \in 3 .. 28}

\* One frame is the lowest; of two or more also the highest are granted, so that
\* tasks come to lie in front of one another.
MCAmong(G, n) == {b \in G : (\A c \in G : b <= c) \/ (n > 1 /\ \A c \in G : b >= c)}
=============================================================================
