---------------------------- MODULE MCWebCatalog ----------------------------
(* Values for the constants of WebCatalog.                                 *)
EXTENDS WebCatalog, TLC

CONSTANTS q1, q2

\* A list of four fills the capacity of a session and one of five exceeds it; in the
\* first catalog the other list is a single page.
Sizes == << [q \in Queries |-> IF q = q1 THEN 4 ELSE 1],
            [q \in Queries |-> IF q = q1 THEN 5 ELSE 2] >>

RequestSymmetry == Permutations(Readers)
=============================================================================
