--------------------------- MODULE PayloadPipeline ---------------------------
(***************************************************************************)
(* How a scan reads and parses its payloads: the record loop of RunScan    *)
(* (libs/App/InpxScanJobService.cpp) with its window of parsing tasks.     *)
(*                                                                         *)
(* The scan thread reads the payloads one after the other, hands each to a *)
(* pool of workers, and takes the parsed books back, whichever is ready    *)
(* first, when the window or the byte budget is full, when the archive     *)
(* changes and at the end.  The tasks point into the scan's records and at *)
(* its statistics, which go when RunScan leaves.  What is written where is *)
(* the subject of InpxRescan.                                              *)
(***************************************************************************)
EXTENDS Integers, Sequences, FiniteSets, SequencesExt

CONSTANTS
    SizeOf,           \* record -> bytes of its payload; records are 1, 2, ...
    ArchiveOf,        \* record -> the archive its payload is in
    NoArchive,        \* no archive is open
    MaxInFlight,      \* maxInFlightPayloads, and the threads of the pool
    MaxInFlightBytes  \* maxInFlightPayloadBytes

Records == DOMAIN SizeOf

ASSUME PipelineAssumption ==
    /\ SizeOf \in Seq(Nat)
    /\ DOMAIN ArchiveOf = Records
    /\ \A r \in Records : ArchiveOf[r] # NoArchive
    /\ MaxInFlight \in Nat \ {0} /\ MaxInFlightBytes \in Nat

VARIABLES
    pc,        \* where the scan thread stands
    back,      \* the loop a drain returns to
    next,      \* the record the loop is at
    open,      \* currentArchivePathUtf8
    inFlight,  \* inFlightParsedRecords
    reserved,  \* inFlightPayloadBytes
    taken,     \* the task that drainParsedRecord has taken out of the queue, 0: none
    tasks,     \* record -> its task
    written,   \* record -> how often it was written to the catalog
    stop,      \* stop requested
    outcome    \* how RunScan leaves

vars == <<pc, back, next, open, inFlight, reserved, taken, tasks, written, stop, outcome>>

RecordCount == Len(SizeOf)

Init ==
    /\ pc = "record" /\ back = "record"
    /\ next = 1
    /\ open = NoArchive
    /\ inFlight = <<>>
    /\ reserved = 0
    /\ taken = 0
    /\ tasks = [r \in Records |-> "none"]
    /\ written = [r \in Records |-> 0]
    /\ stop = FALSE
    /\ outcome = "none"

-----------------------------------------------------------------------------
(* The pool                                                                *)

\* A free thread takes the oldest task.
StartTask(r) ==
    /\ tasks[r] = "queued"
    /\ \A t \in Records : tasks[t] = "queued" => t >= r
    /\ Cardinality({t \in Records : tasks[t] = "running"}) < MaxInFlight
    /\ tasks' = [tasks EXCEPT ![r] = "running"]
    /\ UNCHANGED <<pc, back, next, open, inFlight, reserved, taken, written, stop, outcome>>

\* Mutant of EndTask: an exception of the parser does not reach the future.
EndTaskSwallowsError(r) ==
    /\ tasks[r] = "running"
    /\ tasks' \in {[tasks EXCEPT ![r] = t] : t \in {"ready", "lost"}}
    /\ UNCHANGED <<pc, back, next, open, inFlight, reserved, taken, written, stop, outcome>>

\* ParseInpxPayloadBytes returns or throws; a stop request makes it throw.
EndTask(r) ==
    /\ tasks[r] = "running"
    /\ tasks' \in {[tasks EXCEPT ![r] = t] : t \in {"ready", "failed"}}
    /\ UNCHANGED <<pc, back, next, open, inFlight, reserved, taken, written, stop, outcome>>

Done(r) == tasks[r] \in {"ready", "failed"}

RequestStop ==
    /\ ~stop
    /\ pc # "left"
    /\ stop' = TRUE
    /\ UNCHANGED <<pc, back, next, open, inFlight, reserved, taken, tasks, written, outcome>>

-----------------------------------------------------------------------------
(* An exception                                                            *)

\* The exception reaches the catch around the loop.
Throw(why) ==
    /\ pc' = "unwind"
    /\ outcome' = why
    /\ UNCHANGED <<back, next, open, inFlight, tasks, written, stop>>

\* An archive or a payload that cannot be read, or a checkpoint that sees the stop.
ThrowReading ==
    /\ \E why \in {"Failed"} \cup (IF stop THEN {"Cancelled"} ELSE {}) : Throw(why)
    /\ UNCHANGED <<reserved, taken>>

\* Mutant of DrainRemaining: the queue is dropped.
DropRemaining ==
    /\ pc = "unwind"
    /\ inFlight # <<>>
    /\ inFlight' = <<>>
    /\ UNCHANGED <<pc, back, next, open, reserved, taken, tasks, written, stop, outcome>>

\* drainRemainingPayloadWork waits for every task.
DrainRemaining ==
    /\ pc = "unwind"
    /\ inFlight # <<>>
    /\ Done(Head(inFlight))
    /\ inFlight' = Tail(inFlight)
    /\ reserved' = reserved - SizeOf[Head(inFlight)]
    /\ UNCHANGED <<pc, back, next, open, taken, tasks, written, stop, outcome>>

\* RunScan is left; its records are destroyed.
Leave ==
    /\ pc = "unwind"
    /\ inFlight = <<>>
    /\ pc' = "left"
    /\ UNCHANGED <<back, next, open, inFlight, reserved, taken, tasks, written, stop, outcome>>

-----------------------------------------------------------------------------
(* drainParsedRecord                                                       *)

\* Mutant of OverBudget: the payload about to be read is left out of account.
OverBudgetAlready == inFlight # <<>> /\ reserved > MaxInFlightBytes

OverBudget == inFlight # <<>> /\ reserved > MaxInFlightBytes - SizeOf[next]

\* The four loops that drain.
MustDrain ==
    CASE pc = "window"  -> Len(inFlight) >= MaxInFlight
      [] pc = "archive" -> open # ArchiveOf[next] /\ inFlight # <<>>
      [] pc = "budget"  -> SizeOf[next] <= MaxInFlightBytes /\ OverBudget
      [] pc = "rest"    -> inFlight # <<>>
      [] OTHER          -> FALSE

\* Mutant of Without: the front goes, whichever task was taken.
WithoutFront(i) == Tail(inFlight)

Without(i) == RemoveAt(inFlight, i)

\* The first task that is ready; if there is none, the front.
TakeParsedRecord ==
    \E i \in DOMAIN inFlight :
        /\ MustDrain
        /\ \A j \in 1..(i-1) : ~Done(inFlight[j])
        /\ \/ Done(inFlight[i])
           \/ i = 1 /\ \A j \in DOMAIN inFlight : ~Done(inFlight[j])
        /\ taken' = inFlight[i]
        /\ inFlight' = Without(i)
        /\ back' = pc
        /\ pc' = "taken"
        /\ UNCHANGED <<next, open, reserved, tasks, written, stop, outcome>>

\* The future is waited for; the book is written, or the reservation is given back
\* on the way out.
DrainParsedRecord ==
    /\ pc = "taken"
    /\ Done(taken)
    /\ reserved' = reserved - SizeOf[taken]
    /\ taken' = 0
    /\ \/ /\ tasks[taken] = "ready" /\ ~stop
          /\ written' = [written EXCEPT ![taken] = @ + 1]
          /\ pc' = back
          /\ UNCHANGED <<back, next, open, inFlight, tasks, stop, outcome>>
       \/ /\ stop
          /\ Throw("Cancelled")
       \/ /\ ~stop  \* the task, or the write, has failed
          /\ Throw("Failed")

-----------------------------------------------------------------------------
(* The record loop                                                         *)

\* throwIfCancelled and the duplicate test.
BeginRecord ==
    /\ pc = "record"
    /\ next <= RecordCount
    /\ \/ /\ ~stop
          /\ pc' = "window"
          /\ UNCHANGED <<back, next, open, inFlight, reserved, taken, tasks, written, stop, outcome>>
       \/ /\ Throw(IF stop THEN "Cancelled" ELSE "Failed")
          /\ UNCHANGED <<reserved, taken>>

WindowHasRoom ==
    /\ pc = "window"
    /\ ~MustDrain
    /\ pc' = "archive"
    /\ UNCHANGED <<back, next, open, inFlight, reserved, taken, tasks, written, stop, outcome>>

\* The archive is open already, or is opened and compared with the plan.
OpenArchive ==
    /\ pc = "archive"
    /\ ~MustDrain
    /\ \/ /\ open' = ArchiveOf[next]
          /\ pc' = "budget"
          /\ UNCHANGED <<back, next, inFlight, reserved, taken, tasks, written, stop, outcome>>
       \/ open # ArchiveOf[next] /\ ThrowReading

\* The payload is read and handed to the pool.
SubmitPayload ==
    /\ pc = "budget"
    /\ ~MustDrain
    /\ \/ /\ SizeOf[next] <= MaxInFlightBytes
          /\ tasks' = [tasks EXCEPT ![next] = "queued"]
          /\ inFlight' = Append(inFlight, next)
          /\ reserved' = reserved + SizeOf[next]
          /\ next' = next + 1
          /\ pc' = "record"
          /\ UNCHANGED <<back, open, taken, written, stop, outcome>>
       \/ ThrowReading

EndRecords ==
    /\ pc = "record"
    /\ next > RecordCount
    /\ pc' = "rest"
    /\ UNCHANGED <<back, next, open, inFlight, reserved, taken, tasks, written, stop, outcome>>

EndRest ==
    /\ pc = "rest"
    /\ ~MustDrain
    /\ pc' = "left"
    /\ outcome' = "Completed"
    /\ UNCHANGED <<back, next, open, inFlight, reserved, taken, tasks, written, stop>>

-----------------------------------------------------------------------------
ScanStep ==
    \/ BeginRecord \/ WindowHasRoom \/ OpenArchive \/ SubmitPayload
    \/ EndRecords \/ EndRest
    \/ TakeParsedRecord \/ DrainParsedRecord
    \/ DrainRemaining \/ Leave

TaskStep(r) == StartTask(r) \/ EndTask(r)

Next ==
    \/ ScanStep
    \/ \E r \in Records : TaskStep(r)
    \/ RequestStop

Spec == Init /\ [][Next]_vars

\* The scan thread and the pool run; parsing one payload ends.
FairSpec ==
    /\ Spec
    /\ WF_vars(ScanStep)
    /\ \A r \in Records : WF_vars(TaskStep(r))

-----------------------------------------------------------------------------
(* Properties                                                              *)

\* The payloads that were read and not yet taken back.
Held == ToSet(inFlight) \cup ({taken} \ {0})

\* The bytes of a set of payloads, each counted.
Bytes(R) == Cardinality(UNION {{r} \X (1..SizeOf[r]) : r \in R})

\* The memory of the window is bounded, in payloads and in bytes, on every path; the
\* reservation, which is released in four places, is that of the payloads held.
PayloadMemoryBounded ==
    /\ reserved = Bytes(Held)
    /\ reserved <= MaxInFlightBytes
    /\ Cardinality(Held) <= MaxInFlight

\* No task is left when RunScan returns or throws: the records and the statistics that
\* the tasks point at go before the pool does.
NoTaskOutlivesScan ==
    pc = "left" => \A r \in Records : tasks[r] \notin {"queued", "running"}

\* A scan that completes has written every record exactly once, in whatever order the
\* tasks became ready; no scan writes a record twice.
EveryRecordWrittenOnce ==
    /\ \A r \in Records : written[r] <= 1
    /\ outcome = "Completed" => \A r \in Records : written[r] = 1

\* The scan thread, which waits for tasks in two places, always leaves.
ScanLeaves == <>(pc = "left")
=============================================================================
