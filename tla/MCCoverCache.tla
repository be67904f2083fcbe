----------------------------- MODULE MCCoverCache -----------------------------
(* A cache of three covers, one of them as large as the other two.           *)
EXTENDS CoverReaders, TLC

CONSTANTS c1, c2, c3

CoverSizes == [c \in Covers |-> IF c = c3 THEN 2 ELSE 1]

\* Books are interchangeable.
BookSymmetry == Permutations(Books)
=============================================================================
