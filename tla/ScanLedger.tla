------------------------------ MODULE ScanLedger ------------------------------
(***************************************************************************)
(* What the scan service promises its users, without threads, queues or    *)
(* polling: scans happen one at a time, each under a fresh id; a scan that *)
(* has ended keeps its outcome; and it is cancelled only if somebody asked *)
(* for it.  ScanService is shown to implement this specification.          *)
(***************************************************************************)
EXTENDS Naturals

CONSTANT Jobs    \* the job ids, numbers given out in ascending order

VARIABLES
    state,   \* job -> "absent", "running" or the outcome of its scan
    asked    \* the running jobs somebody asked to stop

ledgerVars == <<state, asked>>

Outcomes == {"Completed", "Failed", "Cancelled"}

Init ==
    /\ state = [j \in Jobs |-> "absent"]
    /\ asked = {}

\* A scan starts: none runs, and no id of its rank or above was ever used.
Begin(j) ==
    /\ \A i \in Jobs : state[i] # "running"
    /\ \A i \in Jobs : i >= j => state[i] = "absent"
    /\ state' = [state EXCEPT ![j] = "running"]
    /\ UNCHANGED asked

\* Cancel, or the service going down.
AskStop(j) ==
    /\ state[j] = "running"
    /\ asked' = asked \cup {j}
    /\ UNCHANGED state

\* The scan ends and its outcome is fixed.
End(j, o) ==
    /\ state[j] = "running"
    /\ o = "Cancelled" => j \in asked
    /\ state' = [state EXCEPT ![j] = o]
    /\ asked' = asked \ {j}

\* The process ends, and with it the memory of its scans.
Forget ==
    /\ state' = [j \in Jobs |-> "absent"]
    /\ asked' = {}

Next ==
    \/ \E j \in Jobs : Begin(j) \/ AskStop(j) \/ \E o \in Outcomes : End(j, o)
    \/ Forget

Spec == Init /\ [][Next]_ledgerVars
=============================================================================
