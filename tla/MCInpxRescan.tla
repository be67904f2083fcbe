---------------------------- MODULE MCInpxRescan ----------------------------
(***************************************************************************)
(* Small collections for the runs of InpxRescan.                           *)
(***************************************************************************)
EXTENDS InpxRescan

CONSTANTS s1, s2, s3, b1, b2, a1, a2, t1, t2

\* One archive for all segments, or two segments in one and the third in another.
SharedArchive == [s \in Segments |-> a1]
TwoArchives == [s \in Segments |-> IF s = s3 THEN a2 ELSE a1]

\* A segment lists a LibId as an active book, withdraws it, or does neither.
SegmentContents ==
    {[rec |-> [l \in LibIds |-> IF l \in act THEN t1 ELSE NoRecord], del |-> gone] :
        <<act, gone>> \in {p \in (SUBSET LibIds) \X (SUBSET LibIds) : p[1] \cap p[2] = {}}}

Rank(s) == CASE s = s1 -> 0 [] s = s2 -> 1 [] OTHER -> 2

File(S, p, c) ==
    [segs    |-> S,
     pos     |-> [s \in Segments |-> IF s \in S THEN p[s] ELSE 0],
     content |-> [s \in Segments |-> IF s \in S THEN c[s] ELSE EmptyContent]]

\* Every file over the segments with every content; all three segments also in
\* the reverse order.
AllFiles ==
    LET up(S) == [s \in S |-> Cardinality({t \in S : Rank(t) < Rank(s)})]
        down(S) == [s \in S |-> Cardinality({t \in S : Rank(t) > Rank(s)})]
        inOrder(S, p) == {File(S, p, c) : c \in [S -> SegmentContents]}
    IN  inOrder(Segments, down(Segments))
        \cup UNION {inOrder(S, up(S)) : S \in (SUBSET Segments) \ {{}}}

Books(l, text) == [rec |-> [x \in LibIds |-> IF x = l THEN text ELSE NoRecord], del |-> {}]
Marker(l) == [rec |-> [x \in LibIds |-> NoRecord], del |-> {l}]
Both == [rec |-> [x \in LibIds |-> t1], del |-> {}]

\* A few files over two segments: a book in place, re-described, moved to the
\* other segment, listed twice, withdrawn; and the books in two archives.
FewFiles ==
    LET two(t, x, y) == File({s1, t}, [s \in {s1, t} |-> IF s = s1 THEN 0 ELSE 1],
                             [s \in {s1, t} |-> IF s = s1 THEN x ELSE y])
    IN  {two(s2, Books(b1, t1), Books(b2, t1)),
         two(s2, Books(b1, t2), Books(b2, t1)),
         two(s2, Both, EmptyContent),
         two(s2, Both, Books(b2, t1)),
         two(s2, Books(b1, t1), Marker(b1)),
         two(s3, Books(b1, t1), Books(b2, t1))}
=============================================================================
