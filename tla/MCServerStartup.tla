---------------------------- MODULE MCServerStartup ----------------------------
(* Small values for ServerStartup: two contents of the INPX file of one size,  *)
(* and documents and environments that complete, empty and contradict each     *)
(* other.                                                                      *)
EXTENDS ServerStartup, TLC

CONSTANTS c1, c2

MCContents == {c1, c2}
MCSizeOf   == [c \in MCContents |-> 1]
Symmetry   == Permutations(MCContents)

Document(inpx, archive, limit, scans) ==
    [inpx |-> inpx, archive |-> archive, limit |-> limit,
     autoScan |-> scans, onEmpty |-> scans, onChange |-> scans]

MCDocuments ==
    {Document("set", "set", 1, TRUE), Document("set", "", 1, TRUE),
     Document("", "", 1, FALSE), Document("set", "set", 0, TRUE)}

Unset == [inpx |-> "unset", archive |-> "unset", limit |-> <<>>]

MCEnvironments ==
    {Unset, [Unset EXCEPT !.archive = "set", !.limit = <<-1>>],
     [Unset EXCEPT !.limit = <<1>>], [Unset EXCEPT !.limit = <<-8>>]}
===============================================================================
