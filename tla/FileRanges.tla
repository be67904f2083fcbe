------------------------------ MODULE FileRanges ------------------------------
(***************************************************************************)
(* Which bytes of a file an HTTP response carries: NormalizeRequestedRanges *)
(* of libs/Server/HttpServer.cpp, and what RFC 9110 asks of it.            *)
(*                                                                         *)
(* A range is what cpp-httplib parsed: <<first, last>>, where a negative   *)
(* first is a suffix of last bytes and a negative last is an open end.     *)
(* The overlap limit of cpp-httplib is enforced beforehand with a binary   *)
(* indexed tree of maxima over the sorted starts of the ranges.            *)
(***************************************************************************)
EXTENDS Integers, Sequences, FiniteSetsExt

CONSTANTS
    MaxOffset,     \* the largest TRangeOffset
    MaxRangeCount  \* CPPHTTPLIB_RANGE_MAX_COUNT

ASSUME RangeAssumption == MaxOffset \in Nat /\ MaxRangeCount \in Nat \ {0}

Refused == [status |-> 416, ranges |-> <<>>]

-----------------------------------------------------------------------------
(* One range                                                               *)

Reversed(range) == range[1] >= 0 /\ range[2] >= 0 /\ range[1] > range[2]

\* Mutant of Normalized: a suffix begins one byte early.
NormalizedEarly(range, size) ==
    IF range[1] < 0
    THEN <<IF range[2] >= size THEN 0 ELSE size - 1 - range[2], size - 1>>
    ELSE <<range[1], IF range[2] < 0 \/ range[2] >= size THEN size - 1 ELSE range[2]>>

Normalized(range, size) ==
    IF range[1] < 0
    THEN <<IF range[2] >= size THEN 0 ELSE size - 1 - range[2] + 1, size - 1>>
    ELSE <<range[1], IF range[2] < 0 \/ range[2] >= size THEN size - 1 ELSE range[2]>>

\* What remove_if erases.
Erased(range, size) ==
    \/ range[1] < 0 /\ range[2] <= 0
    \/ Reversed(range)
    \/ range[1] >= size

-----------------------------------------------------------------------------
(* The tree of maxima                                                      *)

\* index & (~index + 1): the largest power of two that divides index.
LowestBit(index) ==
    LET bit[i \in Nat] == IF i = 0 THEN 0 ELSE IF i % 2 = 1 THEN 1 ELSE 2 * bit[i \div 2]
    IN  bit[index]

\* The places recordEnd writes and readMaximumEnd reads.
Upward(index, size) ==
    LET up[i \in Nat \ {0}] == IF i > size THEN {} ELSE {i} \cup up[i + LowestBit(i)]
    IN  up[index]

Downward(index) ==
    LET down[i \in Nat] == IF i = 0 THEN {} ELSE {i} \cup down[i - LowestBit(i)]
    IN  down[index]

RecordEnd(tree, index, end) ==
    [i \in DOMAIN tree |->
        IF i \in Upward(index, Len(tree)) THEN Max({tree[i], end}) ELSE tree[i]]

ReadMaximumEnd(tree, index) == Max({-1} \cup {tree[i] : i \in Downward(index)})

\* upper_bound and lower_bound in the sorted, unique starts.
StartsThrough(starts, end) == Cardinality({s \in starts : s <= end})
StartsBefore(starts, first) == Cardinality({s \in starts : s < first})

\* One turn of the loop: the ends of the ranges before are in the tree, each at its start.
Visit(starts, st, range) ==
    [tree  |-> RecordEnd(st.tree, StartsBefore(starts, range[1]) + 1, range[2]),
     count |-> IF ReadMaximumEnd(st.tree, StartsThrough(starts, range[2])) >= range[1]
               THEN st.count + 1 ELSE st.count]

\* overlappingRangeCount after all ranges; the code leaves as soon as it exceeds two.
OverlapCount(ranges) ==
    LET starts == {ranges[i][1] : i \in DOMAIN ranges}
        after[n \in 0..Len(ranges)] ==
            IF n = 0 THEN [tree |-> [i \in 1..Cardinality(starts) |-> -1], count |-> 0]
            ELSE Visit(starts, after[n - 1], ranges[n])
    IN  after[Len(ranges)].count

-----------------------------------------------------------------------------
\* What remove_if leaves of the ranges, normalised.
KeptRanges(asked, size) ==
    LET kept[n \in 0..Len(asked)] ==
            IF n = 0 THEN <<>>
            ELSE IF Erased(asked[n], size) THEN kept[n - 1]
            ELSE Append(kept[n - 1], Normalized(asked[n], size))
    IN  kept[Len(asked)]

\* NormalizeRequestedRanges and the status that SetFileResponse derives from it.
NormalizeRequestedRanges(asked, size) ==
    LET ranges == KeptRanges(asked, size)
    IN  IF asked = <<>> THEN [status |-> 200, ranges |-> <<>>]
        ELSE IF \/ size = 0 \/ Len(asked) > MaxRangeCount \/ size > MaxOffset
                \/ \E i \in DOMAIN asked : Reversed(asked[i])
                \/ ranges = <<>>
                \/ OverlapCount(ranges) > 2
             THEN Refused
             ELSE [status |-> 206, ranges |-> ranges]

-----------------------------------------------------------------------------
(* The reference                                                           *)

\* The bytes a range stands for, by RFC 9110: of a suffix the last bytes of the file.
BytesOf(range, size) ==
    {k \in 0..(size - 1) :
        IF range[1] < 0 THEN k >= size - range[2]
        ELSE k >= range[1] /\ (range[2] >= 0 => k <= range[2])}

\* The ranges the file has bytes for, and those of them that share a byte with one before.
Satisfiable(asked, size) == {i \in DOMAIN asked : BytesOf(asked[i], size) # {}}

Overlapping(asked, size) ==
    {i \in DOMAIN asked :
        \E j \in 1..(i - 1) : BytesOf(asked[i], size) \cap BytesOf(asked[j], size) # {}}

Unanswerable(asked, size) ==
    \/ \E i \in DOMAIN asked : Reversed(asked[i])
    \/ Satisfiable(asked, size) = {}
    \/ Cardinality(Overlapping(asked, size)) > 2
    \/ Len(asked) > MaxRangeCount \/ size > MaxOffset

\* The place of the i-th range among the satisfiable ones.
Place(asked, size, i) == Cardinality({j \in Satisfiable(asked, size) : j <= i})

\* The answer carries exactly the requested bytes, range by range and in the order asked.
AnswerExact(asked, size) ==
    LET answer == NormalizeRequestedRanges(asked, size)
    IN  IF asked = <<>> THEN answer = [status |-> 200, ranges |-> <<>>]
        ELSE IF Unanswerable(asked, size) THEN answer = Refused
        ELSE /\ answer.status = 206
             /\ Len(answer.ranges) = Cardinality(Satisfiable(asked, size))
             /\ \A i \in Satisfiable(asked, size) :
                   LET sent == answer.ranges[Place(asked, size, i)]
                   IN  sent[1]..sent[2] = BytesOf(asked[i], size)
=============================================================================
