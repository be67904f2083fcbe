----------------------------- MODULE ScanService -----------------------------
(***************************************************************************)
(* Who may run a scan and what its clients are told:                       *)
(*   CInpxScanJobService (libs/App/InpxScanJobService.cpp), one worker     *)
(*     thread per job;                                                     *)
(*   CBackendExecutor (libs/Server/BackendExecutor.hpp and .cpp), the one  *)
(*     thread that runs every call into the catalog application, behind a  *)
(*     bounded queue;                                                      *)
(*   CServerScanCoordinator (libs/Server/ServerScanCoordinator.cpp), which *)
(*     HTTP request threads enter under one mutex and which reaches the    *)
(*     job service through the executor.                                   *)
(* A full queue makes any of the coordinator's calls throw, in the middle  *)
(* of an operation.  What a scan does is the subject of InpxRescan; here   *)
(* it is a thread that runs for a while and ends in one of three ways.     *)
(***************************************************************************)
EXTENDS Integers, Sequences

CONSTANTS
    Requests,       \* HTTP request threads
    None,           \* no job, no request, no snapshot, no result
    MaxJobs,        \* bound: job ids handed out by one process
    MaxQueueDepth,  \* capacity of the executor's queue
    MaxRequests,    \* bound: requests served
    MaxBoots        \* bound: starts of the process

ASSUME ServiceAssumption ==
    /\ None \notin Requests
    /\ None \notin Int
    /\ None \notin {"Pending", "Running", "Cancelling", "Completed", "Failed", "Cancelled"}
    /\ MaxJobs \in Nat
    /\ MaxQueueDepth \in Nat \ {0}
    /\ MaxRequests \in Nat
    /\ MaxBoots \in Nat

VARIABLES
    process,      \* "running", "closing" (destructors run) or "dead"
    jobs,         \* job id -> SJobRecord with its worker thread
    dirs,         \* job ids whose workspace directory exists
    nextJobId,    \* m_nextJobId
    queue,        \* m_tasks: the requests whose call waits, in order
    active,       \* the request whose call the executor runs
    starting,     \* the job that CInpxScanJobService::Start has emplaced but not spawned
    removing,     \* the job that Remove has erased and is about to join
    pc,           \* request -> where its thread stands
    op,           \* request -> the operation it was sent for
    call,         \* request -> its current call into the application
    reply,        \* request -> the value of the call's future
    mutex,        \* the request that holds the coordinator's mutex
    phase,        \* "pre": the poll before a start; "post": the poll after the call
    accepted,     \* what CancelInpxScanJob returned
    activeJobId,  \* m_activeJobId
    progress,     \* m_lastProgress
    answer,       \* what the latest request to end told its client
    served, boots

serviceVars == <<jobs, dirs, nextJobId>>
execVars    == <<queue, active, starting, removing>>
lockVars    == <<mutex, phase, accepted>>
coordVars   == <<mutex, phase, accepted, activeJobId, progress>>
clientVars  == <<pc, op, call, reply, answer>>
boundVars   == <<served, boots>>
vars == <<process, jobs, dirs, nextJobId, queue, active, starting, removing,
          pc, op, call, reply, mutex, phase, accepted, activeJobId, progress, answer,
          served, boots>>

JobIds   == 1..MaxJobs
Terminal == {"Completed", "Failed", "Cancelled"}

\* known: in m_jobs; status: Snapshot.Status, "Pending", "Running", "Cancelling" or terminal;
\* result: Result; stop: stop requested; worker: the jthread of the record, "Spawned",
\* "Scanning", "Leaving", "Exited" or "Joined"; outcome: how RunScan ended.
NoJob == [known |-> FALSE, status |-> "Pending", result |-> None, stop |-> FALSE,
          worker |-> "None", outcome |-> None]

\* Snapshot and result of SServerScanProgress, each with the job it is of.
NoProgress == [job |-> None, status |-> None, resultJob |-> None, result |-> None]

Operations == {"StartScan", "PollProgress", "CancelActiveScan", "ListBooks"}

\* The value of a future: a status, a result or a Boolean, and a job id.  An
\* exception of StartInpxScan is NoReply.
NoReply == [value |-> None, job |-> None]
Value(v) == [value |-> v, job |-> None]
Started(j) == [value |-> None, job |-> j]

NoAnswer == [kind |-> None, progress |-> NoProgress]
Answered(kind) == [kind |-> kind, progress |-> NoProgress]

IsTerminal(j) == jobs[j].status \in Terminal
Unfinished(j) == jobs[j].known /\ ~IsTerminal(j)

\* HasActiveScanLocked, of the values the caller is about to store.
HasActiveScan(job, p) == job # None /\ p.status \notin Terminal

\* Nothing runs; earlier processes may have left workspaces behind.
Init ==
    /\ process = "dead"
    /\ jobs = [j \in JobIds |-> NoJob]
    /\ dirs \in SUBSET JobIds
    /\ nextJobId = 1
    /\ queue = <<>>
    /\ active = None /\ starting = None /\ removing = None
    /\ pc = [r \in Requests |-> "idle"]
    /\ op = [r \in Requests |-> None]
    /\ call = [r \in Requests |-> None]
    /\ reply = [r \in Requests |-> NoReply]
    /\ answer = NoAnswer
    /\ mutex = None
    /\ phase = "post"
    /\ accepted = FALSE
    /\ activeJobId = None
    /\ progress = NoProgress
    /\ served = 0
    /\ boots = 0

-----------------------------------------------------------------------------
(* The worker thread of a job                                              *)

\* RunScan publishes Running whatever the status is by then.
PublishRunning(j) ==
    /\ jobs[j].worker = "Spawned"
    /\ jobs' = [jobs EXCEPT ![j].status = "Running", ![j].worker = "Scanning"]
    /\ UNCHANGED <<process, dirs, nextJobId, execVars, coordVars, clientVars, boundVars>>

\* Mutant of ThrowIfCancelled: the test of the stop token is inverted.
ThrowUnlessCancelled(j) ==
    /\ jobs[j].worker = "Scanning"
    /\ ~jobs[j].stop
    /\ jobs' = [jobs EXCEPT ![j].status = "Cancelling", ![j].worker = "Leaving",
                            ![j].outcome = "Cancelled"]
    /\ UNCHANGED <<process, dirs, nextJobId, execVars, coordVars, clientVars, boundVars>>

\* throwIfCancelled at one of the checkpoints.
ThrowIfCancelled(j) ==
    /\ jobs[j].worker = "Scanning"
    /\ jobs[j].stop
    /\ jobs' = [jobs EXCEPT ![j].status = "Cancelling", ![j].worker = "Leaving",
                            ![j].outcome = "Cancelled"]
    /\ UNCHANGED <<process, dirs, nextJobId, execVars, coordVars, clientVars, boundVars>>

\* RunScan returns its result or throws, perhaps before it published anything;
\* a stop request that comes after the last checkpoint is not seen.
FinishScan(j) ==
    /\ \E o \in {"Completed", "Failed"} :
          /\ \/ jobs[j].worker = "Scanning"
             \/ jobs[j].worker = "Spawned" /\ o = "Failed"
          /\ jobs' = [jobs EXCEPT ![j].worker = "Leaving", ![j].outcome = o]
    /\ UNCHANGED <<process, dirs, nextJobId, execVars, coordVars, clientVars, boundVars>>

\* Snapshot and result are published under one lock.
PublishResult(j) ==
    /\ jobs[j].worker = "Leaving"
    /\ jobs' = [jobs EXCEPT ![j].status = jobs[j].outcome, ![j].result = jobs[j].outcome,
                            ![j].worker = "Exited"]
    /\ UNCHANGED <<process, dirs, nextJobId, execVars, coordVars, clientVars, boundVars>>

-----------------------------------------------------------------------------
(* The executor's thread                                                   *)

\* Run takes the next task.
TakeTask ==
    /\ active = None
    /\ queue # <<>>
    /\ active' = Head(queue)
    /\ queue' = Tail(queue)
    /\ UNCHANGED <<process, serviceVars, starting, removing, coordVars, clientVars, boundVars>>

\* The packaged task ends and its future is ready.
Return(r, v) ==
    /\ active' = None
    /\ reply' = [reply EXCEPT ![r] = v]
    /\ pc' = [pc EXCEPT ![r] = "returned"]

Running(r, c) == active = r /\ call[r] = c

\* CInpxScanJobService::Start, up to the map insertion.  StartInpxScan refuses
\* a source that is not there, Start a second scan.
StartEmplace(r) ==
    /\ Running(r, "StartInpxScan")
    /\ starting = None
    /\ \/ /\ Return(r, NoReply)
          /\ UNCHANGED <<serviceVars, starting>>
       \/ /\ \A j \in JobIds : ~Unfinished(j)
          /\ nextJobId \in JobIds
          /\ jobs' = [jobs EXCEPT ![nextJobId] = [NoJob EXCEPT !.known = TRUE]]
          /\ starting' = nextJobId
          /\ nextJobId' = nextJobId + 1
          /\ UNCHANGED <<dirs, active, reply, pc>>
    /\ UNCHANGED <<process, queue, removing, op, call, answer, coordVars, boundVars>>

\* Mutant of StartSpawn: a start that fails leaves its record in the map.
StartSpawnLeaksRecord(r) ==
    /\ Running(r, "StartInpxScan")
    /\ starting # None
    /\ starting' = None
    /\ \/ /\ jobs' = [jobs EXCEPT ![starting].worker = "Spawned"]
          /\ dirs' = dirs \cup {starting}
          /\ Return(r, Started(starting))
       \/ /\ Return(r, NoReply)
          /\ UNCHANGED <<jobs, dirs>>
    /\ UNCHANGED <<process, nextJobId, queue, removing, op, call, answer, coordVars, boundVars>>

\* The workspace and the thread are created, or the record is taken back.
StartSpawn(r) ==
    /\ Running(r, "StartInpxScan")
    /\ starting # None
    /\ starting' = None
    /\ \/ /\ jobs' = [jobs EXCEPT ![starting].worker = "Spawned"]
          /\ dirs' = dirs \cup {starting}
          /\ Return(r, Started(starting))
       \/ /\ jobs' = [jobs EXCEPT ![starting] = NoJob]
          /\ Return(r, NoReply)
          /\ UNCHANGED dirs
    /\ UNCHANGED <<process, nextJobId, queue, removing, op, call, answer, coordVars, boundVars>>

TryGetSnapshot(r) ==
    /\ Running(r, "GetSnapshot")
    /\ Return(r, Value(IF jobs[activeJobId].known THEN jobs[activeJobId].status ELSE None))
    /\ UNCHANGED <<process, serviceVars, queue, starting, removing, op, call, answer,
                   coordVars, boundVars>>

TryGetResult(r) ==
    /\ Running(r, "GetResult")
    /\ Return(r, Value(IF jobs[activeJobId].known THEN jobs[activeJobId].result ELSE None))
    /\ UNCHANGED <<process, serviceVars, queue, starting, removing, op, call, answer,
                   coordVars, boundVars>>

\* Mutant of Cancel: the status changes but the thread is not told.
CancelWithoutStop(r) ==
    LET j == activeJobId
    IN  /\ Running(r, "CancelJob")
        /\ jobs' = IF Unfinished(j) THEN [jobs EXCEPT ![j].status = "Cancelling"] ELSE jobs
        /\ Return(r, Value(IF Unfinished(j) THEN "True" ELSE "False"))
        /\ UNCHANGED <<process, dirs, nextJobId, queue, starting, removing, op, call, answer,
                       coordVars, boundVars>>

\* request_stop reaches the thread only if there is one.
Cancel(r) ==
    LET j == activeJobId
    IN  /\ Running(r, "CancelJob")
        /\ jobs' = IF Unfinished(j)
                     THEN [jobs EXCEPT ![j].status = "Cancelling",
                                       ![j].stop = (jobs[j].worker # "None")]
                     ELSE jobs
        /\ Return(r, Value(IF Unfinished(j) THEN "True" ELSE "False"))
        /\ UNCHANGED <<process, dirs, nextJobId, queue, starting, removing, op, call, answer,
                       coordVars, boundVars>>

\* Remove erases a record that has its result ...
RemoveErase(r) ==
    LET j == activeJobId
    IN  /\ Running(r, "RemoveJob")
        /\ removing = None
        /\ IF jobs[j].known /\ jobs[j].result # None
             THEN /\ jobs' = [jobs EXCEPT ![j].known = FALSE]
                  /\ removing' = j
                  /\ UNCHANGED <<active, reply, pc>>
             ELSE /\ Return(r, Value("False"))
                  /\ UNCHANGED <<jobs, removing>>
        /\ UNCHANGED <<process, dirs, nextJobId, queue, starting, op, call, answer,
                       coordVars, boundVars>>

\* ... waits for its thread and deletes its workspace.
RemoveJoin(r) ==
    /\ Running(r, "RemoveJob")
    /\ removing # None
    /\ jobs[removing].worker = "Exited"
    /\ jobs' = [jobs EXCEPT ![removing].worker = "Joined"]
    /\ dirs' = dirs \ {removing}
    /\ removing' = None
    /\ Return(r, Value("True"))
    /\ UNCHANGED <<process, nextJobId, queue, starting, op, call, answer, coordVars, boundVars>>

\* Any call that only reads the catalog.
ReadCatalog(r) ==
    /\ Running(r, "ListBooks")
    /\ Return(r, Value("True"))
    /\ UNCHANGED <<process, serviceVars, queue, starting, removing, op, call, answer,
                   coordVars, boundVars>>

RunTask(r) ==
    \/ StartEmplace(r)
    \/ StartSpawn(r)
    \/ TryGetSnapshot(r)
    \/ TryGetResult(r)
    \/ Cancel(r)
    \/ RemoveErase(r)
    \/ RemoveJoin(r)
    \/ ReadCatalog(r)

-----------------------------------------------------------------------------
(* Request threads                                                         *)

\* The handler goes on to its next call into the application.
GoCall(r, c) ==
    /\ call' = [call EXCEPT ![r] = c]
    /\ pc' = [pc EXCEPT ![r] = "submit"]

\* Mutant of Finish: an operation that throws keeps the lock.
FinishKeepsLock(r, a) ==
    /\ answer' = a
    /\ pc' = [pc EXCEPT ![r] = "idle"]
    /\ call' = [call EXCEPT ![r] = None]
    /\ op' = [op EXCEPT ![r] = None]
    /\ IF mutex = r /\ a.kind = "Progress"
         THEN mutex' = None /\ phase' = "post" /\ accepted' = FALSE
         ELSE UNCHANGED lockVars

\* The operation returns or throws; a coordinator operation releases its lock.
Finish(r, a) ==
    /\ answer' = a
    /\ pc' = [pc EXCEPT ![r] = "idle"]
    /\ call' = [call EXCEPT ![r] = None]
    /\ op' = [op EXCEPT ![r] = None]
    /\ IF mutex = r
         THEN mutex' = None /\ phase' = "post" /\ accepted' = FALSE
         ELSE UNCHANGED lockVars

Receive(r, o) ==
    /\ process = "running"
    /\ served < MaxRequests
    /\ pc[r] = "idle"
    /\ served' = served + 1
    /\ op' = [op EXCEPT ![r] = o]
    /\ IF o = "ListBooks"
         THEN GoCall(r, "ListBooks")
         ELSE /\ pc' = [pc EXCEPT ![r] = "lock"]
              /\ UNCHANGED call
    /\ UNCHANGED <<process, serviceVars, execVars, reply, answer, coordVars, boots>>

\* scoped_lock, and what the operation decides without a call.  GetRuntimeStatus
\* only reads; it is left out.
Lock(r) ==
    /\ pc[r] = "lock"
    /\ mutex = None
    /\ IF activeJobId = None /\ op[r] # "StartScan"
         THEN Finish(r, IF op[r] = "PollProgress"
                          THEN [kind |-> "Progress", progress |-> progress]
                          ELSE Answered("NotFound"))
         ELSE /\ GoCall(r, CASE op[r] = "CancelActiveScan" -> "CancelJob"
                             [] op[r] = "StartScan" /\ activeJobId = None -> "StartInpxScan"
                             [] OTHER -> "GetSnapshot")
              /\ mutex' = r
              /\ phase' = IF op[r] = "StartScan" /\ activeJobId # None THEN "pre" ELSE "post"
              /\ UNCHANGED <<accepted, answer, op>>
    /\ UNCHANGED <<process, serviceVars, execVars, reply, activeJobId, progress, boundVars>>

\* CBackendExecutor::Submit: a full queue throws, out of the whole operation.
Submit(r) ==
    /\ pc[r] = "submit"
    /\ IF Len(queue) >= MaxQueueDepth
         THEN /\ Finish(r, Answered("Overload"))
              /\ UNCHANGED queue
         ELSE /\ queue' = Append(queue, r)
              /\ pc' = [pc EXCEPT ![r] = "wait"]
              /\ UNCHANGED <<answer, call, op, lockVars>>
    /\ UNCHANGED <<process, serviceVars, active, starting, removing, reply,
                   activeJobId, progress, boundVars>>

\* PollProgressLocked returns, having stored `job' and `p'.
AfterPoll(r, job, p) ==
    /\ activeJobId' = job
    /\ progress' = p
    /\ \/ /\ phase = "pre"
          /\ HasActiveScan(job, p)
          /\ Finish(r, Answered("Conflict"))
       \/ /\ phase = "pre"
          /\ ~HasActiveScan(job, p)
          /\ GoCall(r, "StartInpxScan")
          /\ phase' = "post"
          /\ UNCHANGED <<answer, op, mutex, accepted>>
       \/ /\ phase = "post"
          /\ Finish(r, IF op[r] = "CancelActiveScan" /\ ~accepted /\ ~HasActiveScan(job, p)
                         THEN Answered("NotFound")
                         ELSE [kind |-> "Progress", progress |-> p])

\* Mutant of OnSnapshot: the result of the previous scan is not cleared.
OnSnapshotKeepsResult(r) ==
    /\ call[r] = "GetSnapshot"
    /\ LET s == reply[r].value
           p == [progress EXCEPT !.job = activeJobId, !.status = s]
       IN  CASE s = None -> AfterPoll(r, None, NoProgress)
             [] s \in Terminal -> /\ progress' = p
                                  /\ GoCall(r, "GetResult")
                                  /\ UNCHANGED <<activeJobId, answer, op, lockVars>>
             [] OTHER -> AfterPoll(r, activeJobId, p)

\* The snapshot part of PollProgressLocked.
OnSnapshot(r) ==
    /\ call[r] = "GetSnapshot"
    /\ LET s == reply[r].value
           p == [progress EXCEPT !.job = activeJobId, !.status = s]
       IN  CASE s = None -> AfterPoll(r, None, NoProgress)
             [] s \in Terminal -> /\ progress' = p
                                  /\ GoCall(r, "GetResult")
                                  /\ UNCHANGED <<activeJobId, answer, op, lockVars>>
             [] OTHER -> AfterPoll(r, activeJobId, [p EXCEPT !.resultJob = None, !.result = None])

OnResult(r) ==
    /\ call[r] = "GetResult"
    /\ LET s == reply[r].value
       IN  progress' = [progress EXCEPT !.resultJob = IF s = None THEN None ELSE activeJobId,
                                        !.result = s]
    /\ GoCall(r, "RemoveJob")
    /\ UNCHANGED <<activeJobId, answer, op, lockVars>>

\* A removal that returned false is only logged.
OnRemoved(r) ==
    /\ call[r] = "RemoveJob"
    /\ AfterPoll(r, None, progress)

\* An exception of StartInpxScan leaves the operation; a job is remembered before
\* its first poll.
OnStarted(r) ==
    /\ call[r] = "StartInpxScan"
    /\ IF reply[r].job = None
         THEN /\ Finish(r, Answered("Error"))
              /\ UNCHANGED activeJobId
         ELSE /\ activeJobId' = reply[r].job
              /\ GoCall(r, "GetSnapshot")
              /\ UNCHANGED <<answer, op, lockVars>>
    /\ UNCHANGED progress

OnCancelled(r) ==
    /\ call[r] = "CancelJob"
    /\ accepted' = (reply[r].value = "True")
    /\ GoCall(r, "GetSnapshot")
    /\ UNCHANGED <<activeJobId, progress, mutex, phase, answer, op>>

OnListed(r) ==
    /\ call[r] = "ListBooks"
    /\ Finish(r, Answered("Books"))
    /\ UNCHANGED <<activeJobId, progress>>

\* The future is ready: the handler goes on.
Resume(r) ==
    /\ pc[r] = "returned"
    /\ \/ OnSnapshot(r) \/ OnResult(r) \/ OnRemoved(r)
       \/ OnStarted(r) \/ OnCancelled(r) \/ OnListed(r)
    /\ reply' = [reply EXCEPT ![r] = NoReply]
    /\ UNCHANGED <<process, serviceVars, execVars, boundVars>>

-----------------------------------------------------------------------------
(* The life of the process                                                 *)

ResetMemory ==
    /\ jobs' = [j \in JobIds |-> NoJob]
    /\ nextJobId' = 1
    /\ queue' = <<>>
    /\ active' = None /\ starting' = None /\ removing' = None
    /\ pc' = [r \in Requests |-> "idle"]
    /\ op' = [r \in Requests |-> None]
    /\ call' = [r \in Requests |-> None]
    /\ reply' = [r \in Requests |-> NoReply]
    /\ answer' = NoAnswer
    /\ mutex' = None
    /\ phase' = "post"
    /\ accepted' = FALSE
    /\ activeJobId' = None
    /\ progress' = NoProgress

\* Mutant of BeginClose: the destructor joins without a stop request.
BeginCloseWithoutStop ==
    /\ process = "running"
    /\ \A r \in Requests : pc[r] = "idle"
    /\ process' = "closing"
    /\ UNCHANGED <<serviceVars, execVars, coordVars, clientVars, boundVars>>

\* The HTTP server has drained its requests; ~CInpxScanJobService stops every
\* worker ...
BeginClose ==
    /\ process = "running"
    /\ \A r \in Requests : pc[r] = "idle"
    /\ process' = "closing"
    /\ jobs' = [j \in JobIds |-> IF jobs[j].known THEN [jobs[j] EXCEPT !.stop = TRUE] ELSE jobs[j]]
    /\ UNCHANGED <<dirs, nextJobId, execVars, coordVars, clientVars, boundVars>>

\* ... joins it and deletes its workspace.
EndClose ==
    /\ process = "closing"
    /\ \A j \in JobIds : jobs[j].known => jobs[j].worker = "Exited"
    /\ process' = "dead"
    /\ dirs' = {j \in dirs : ~jobs[j].known}
    /\ ResetMemory
    /\ UNCHANGED boundVars

Crash ==
    /\ process # "dead"
    /\ process' = "dead"
    /\ ResetMemory
    /\ UNCHANGED <<dirs, boundVars>>

\* The constructor deletes the workspaces an earlier process left.
Boot ==
    /\ process = "dead"
    /\ boots < MaxBoots
    /\ boots' = boots + 1
    /\ process' = "running"
    /\ dirs' = {}
    /\ UNCHANGED <<jobs, nextJobId, execVars, coordVars, clientVars, served>>

-----------------------------------------------------------------------------
WorkerStep(j) == PublishRunning(j) \/ ThrowIfCancelled(j) \/ PublishResult(j)

ExecutorStep == TakeTask \/ \E r \in Requests : RunTask(r)

RequestStep(r) == Lock(r) \/ Submit(r) \/ Resume(r)

Next ==
    \/ \E j \in JobIds : WorkerStep(j) \/ FinishScan(j)
    \/ ExecutorStep
    \/ \E r \in Requests : RequestStep(r) \/ \E o \in Operations : Receive(r, o)
    \/ BeginClose \/ EndClose
    \/ Crash \/ Boot

Spec == Init /\ [][Next]_vars

\* Threads that can run do run.  Nothing says when a scan ends by itself, when
\* requests arrive or when the process stops.
FairSpec ==
    /\ Spec
    /\ \A j \in JobIds : WF_vars(WorkerStep(j))
    /\ WF_vars(ExecutorStep)
    /\ \A r \in Requests : WF_vars(RequestStep(r))
    /\ WF_vars(EndClose)

-----------------------------------------------------------------------------
(* Properties                                                              *)

\* Whenever no operation of the coordinator is under way, every job the service
\* still keeps is the one m_activeJobId names: no exception thrown in the middle of
\* an operation by a full queue loses a job that nobody could poll, cancel or remove,
\* and no workspace outlives its job while the process runs.
NoOrphanedJob ==
    process = "running" /\ mutex = None =>
        /\ \A j \in JobIds : jobs[j].known => j = activeJobId
        /\ \A j \in dirs : j = activeJobId

\* A client that is told of a finished scan gets the result of that very job, and
\* one that is told of an unfinished scan gets no result, although m_lastProgress
\* is filled in by two calls and an operation may stop between them.
ReportedResultMatches ==
    LET p == answer.progress
    IN  answer.kind = "Progress" =>
            IF p.status \in Terminal
              THEN p.resultJob = p.job /\ p.result = p.status
              ELSE p.resultJob = None /\ p.result = None

\* A scan whose cancellation was accepted reaches a terminal status or dies with its
\* process, although RunScan may publish Running over the Cancelling status.
CancelTakesEffect ==
    \A j \in JobIds : jobs[j].status = "Cancelling" ~> (IsTerminal(j) \/ process = "dead")

\* ~CInpxScanJobService does not wait for ever for a scan of unknown length.
ShutdownEnds == process = "closing" ~> process = "dead"

\* Every request is answered, or dies with its process: no thread waits for ever for
\* the coordinator's mutex, for the executor or, in Remove, for a worker.
RequestsAnswered ==
    \A r \in Requests : pc[r] # "idle" ~> pc[r] = "idle"

\* How the service implements ScanLedger: a scan runs while its thread may still
\* publish an outcome.
LedgerState(j) ==
    CASE jobs[j].worker = "None" -> "absent"
      [] jobs[j].worker \in {"Spawned", "Scanning", "Leaving"} -> "running"
      [] OTHER -> jobs[j].status

Ledger == INSTANCE ScanLedger
    WITH Jobs  <- JobIds,
         state <- [j \in JobIds |-> LedgerState(j)],
         asked <- {j \in JobIds : jobs[j].stop /\ LedgerState(j) = "running"}

\* The service, with all its threads, the queue and the coordinator, implements the
\* one-scan-at-a-time contract.
ImplementsLedger == Ledger!Spec
=============================================================================
