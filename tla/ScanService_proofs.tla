-------------------------- MODULE ScanService_proofs --------------------------
(***************************************************************************)
(* Proofs about ScanService for any number of request threads, jobs,       *)
(* requests and restarts and for every depth of the executor's queue.      *)
(***************************************************************************)
EXTENDS ScanService, TLAPS

-----------------------------------------------------------------------------
(* The inductive invariant                                                 *)

Statuses == {"Pending", "Running", "Cancelling", "Completed", "Failed", "Cancelled"}
Live     == {"Spawned", "Scanning", "Leaving"}
Ended    == {"Exited", "Joined"}
Values   == Statuses \cup {"True", "False", None}
PollCalls == {"GetSnapshot", "GetResult", "CancelJob", "RemoveJob"}
Calls     == PollCalls \cup {"StartInpxScan", "ListBooks"}

JobRecord == [known: BOOLEAN, status: Statuses, result: Terminal \cup {None}, stop: BOOLEAN,
              worker: {"None"} \cup Live \cup Ended, outcome: Terminal \cup {None}]

JobTypeOK ==
    /\ jobs \in [JobIds -> JobRecord]
    /\ dirs \subseteq JobIds
    /\ nextJobId \in Nat
    /\ starting \in JobIds \cup {None} /\ removing \in JobIds \cup {None}
    /\ activeJobId \in JobIds \cup {None}

RequestTypeOK ==
    /\ pc \in [Requests -> {"idle", "lock", "submit", "wait", "returned"}]
    /\ call \in [Requests -> Calls \cup {None}]
    /\ reply \in [Requests -> [value: Values, job: JobIds \cup {None}]]
    /\ mutex \in Requests \cup {None}
    /\ progress \in [job: JobIds \cup {None}, status: Values, resultJob: JobIds \cup {None}, result: Values]

\* The calls in the queue and the one that runs are of different requests, which wait.
ExecutorInv ==
    /\ queue \in Seq(Requests)
    /\ active \in Requests \cup {None}
    /\ active # None => pc[active] = "wait"
    /\ \A i \in 1..Len(queue) : pc[queue[i]] = "wait" /\ queue[i] # active
    /\ \A i, k \in 1..Len(queue) : i # k => queue[i] # queue[k]

\* A request has a call under way.
Calling(r) == pc[r] \in {"submit", "wait", "returned"}

\* Only the request that holds the coordinator's mutex calls the job service.
LockInv ==
    \A r \in Requests :
        /\ Calling(r) => call[r] \in Calls
        /\ Calling(r) /\ call[r] # "ListBooks" <=> mutex = r

\* The status, the result and the thread of a job agree.
WorkerInv ==
    \A j \in JobIds :
        /\ jobs[j].status \in Terminal <=> jobs[j].worker \in Ended
        /\ jobs[j].result = IF jobs[j].worker \in Ended THEN jobs[j].status ELSE None
        /\ jobs[j].worker = "Leaving" =>
              /\ jobs[j].outcome \in Terminal
              /\ jobs[j].outcome = "Cancelled" => jobs[j].stop
        /\ jobs[j].worker \in Live => jobs[j].known
        /\ jobs[j].worker = "None" => ~jobs[j].stop

\* The start of job j has returned, and the coordinator does not know it yet.
JustStarted(j) ==
    \E r \in Requests : call[r] = "StartInpxScan" /\ pc[r] = "returned" /\ reply[r].job = j

\* The map holds one job at most, and somebody has it in hand.
KnownInv ==
    \A j \in JobIds : jobs[j].known =>
        /\ j = activeJobId \/ j = starting \/ JustStarted(j)
        /\ jobs[j].worker = "None" => j = starting

StartingInv ==
    /\ starting # None => /\ active # None /\ call[active] = "StartInpxScan"
                          /\ jobs[starting].known /\ jobs[starting].worker = "None"
                          /\ nextJobId = starting + 1
    /\ \A j \in JobIds : j >= nextJobId => jobs[j].worker = "None"

RemovingInv == removing # None => active # None /\ call[active] = "RemoveJob" /\ removing = activeJobId

DirsInv ==
    process # "dead" => \A j \in dirs : j # starting /\ (jobs[j].known \/ j = removing)

\* m_lastProgress has the result of the scan it reports, or none.
Consistent(p) ==
    IF p.status \in Terminal THEN p.resultJob = p.job /\ p.result = p.status
    ELSE p.resultJob = None /\ p.result = None

SnapshotOK(r) ==
    pc[r] = "returned" =>
        /\ reply[r].value = None => ~jobs[activeJobId].known
        /\ reply[r].value \in Terminal =>
              jobs[activeJobId].known /\ jobs[activeJobId].status = reply[r].value

\* Between the snapshot of a finished scan and its result.
ResultOK(r) ==
    /\ jobs[activeJobId].known
    /\ jobs[activeJobId].status = progress.status /\ progress.status \in Terminal
    /\ progress.job = activeJobId
    /\ pc[r] = "returned" => reply[r].value = progress.status

RemovalOK(r) ==
    /\ Consistent(progress)
    /\ IF pc[r] = "returned" \/ removing # None THEN ~jobs[activeJobId].known
       ELSE jobs[activeJobId].known /\ jobs[activeJobId].status \in Terminal

\* What the coordinator may rely on when a call comes back.
CallOK(r) ==
    Calling(r) =>
        /\ call[r] \in PollCalls => activeJobId # None
        /\ call[r] = "StartInpxScan" => activeJobId = None
        /\ call[r] = "GetSnapshot" => SnapshotOK(r)
        /\ call[r] = "GetResult" => ResultOK(r)
        /\ call[r] = "RemoveJob" => RemovalOK(r)

CallInv == \A r \in Requests : CallOK(r)

ReportInv ==
    /\ activeJobId = None => Consistent(progress)
    /\ answer.kind = "Progress" => Consistent(answer.progress)

RequestInv == RequestTypeOK /\ ExecutorInv /\ LockInv
JobInv     == JobTypeOK /\ WorkerInv /\ KnownInv /\ StartingInv /\ RemovingInv /\ DirsInv
IInv       == RequestInv /\ JobInv /\ CallInv /\ ReportInv

-----------------------------------------------------------------------------
(* The request threads and the executor                                    *)

\* A request that is not in the executor's hands goes on.
LEMMA RequestMoves ==
    ASSUME RequestInv, NEW r \in Requests, pc[r] # "wait",
           NEW p \in {"idle", "lock", "submit"}, NEW c \in Calls \cup {None},
           pc' = [pc EXCEPT ![r] = p], call' = [call EXCEPT ![r] = c],
           reply' \in [Requests -> [value: Values, job: JobIds \cup {None}]],
           progress' \in [job: JobIds \cup {None}, status: Values, resultJob: JobIds \cup {None},
                          result: Values],
           p = "submit" => c \in Calls,
           mutex' = mutex \/ (mutex \in {r, None} /\ mutex' \in {r, None}),
           p = "submit" /\ c # "ListBooks" <=> mutex' = r,
           UNCHANGED <<queue, active>>
    PROVE  RequestInv'
  <1>1. RequestTypeOK'
    BY ServiceAssumption DEF RequestInv, RequestTypeOK
  <1>2. ExecutorInv'
    BY DEF RequestInv, ExecutorInv, RequestTypeOK
  <1>3. LockInv'
    <2> SUFFICES ASSUME NEW q \in Requests
                 PROVE  /\ Calling(q)' => call'[q] \in Calls
                        /\ Calling(q)' /\ call'[q] # "ListBooks" <=> mutex' = q
      BY DEF LockInv
    <2>1. CASE q = r
      BY <2>1 DEF RequestInv, RequestTypeOK, Calling
    <2>2. CASE q # r
      BY <2>2, ServiceAssumption DEF RequestInv, RequestTypeOK, LockInv, Calling
    <2> QED
      BY <2>1, <2>2
  <1> QED
    BY <1>1, <1>2, <1>3 DEF RequestInv

\* A call is queued.
LEMMA RequestQueued ==
    ASSUME RequestInv, NEW r \in Requests, pc[r] = "submit",
           pc' = [pc EXCEPT ![r] = "wait"], queue' = Append(queue, r),
           UNCHANGED <<call, reply, progress, mutex, active>>
    PROVE  RequestInv'
  <1>1. RequestTypeOK' /\ LockInv'
    BY DEF RequestInv, RequestTypeOK, LockInv, Calling
  <1>2. ExecutorInv'
    <2>1. queue' \in Seq(Requests) /\ Len(queue') = Len(queue) + 1
      BY DEF RequestInv, ExecutorInv
    <2>2. \A i \in 1..Len(queue') : queue'[i] = IF i = Len(queue) + 1 THEN r ELSE queue[i]
      BY DEF RequestInv, ExecutorInv
    <2>3. \A i \in 1..Len(queue) : queue[i] # r /\ queue[i] \in Requests
      BY DEF RequestInv, ExecutorInv
    <2>4. active # r /\ (active # None => pc'[active] = "wait")
      BY ServiceAssumption DEF RequestInv, ExecutorInv, RequestTypeOK
    <2>5. \A i \in 1..Len(queue') : pc'[queue'[i]] = "wait" /\ queue'[i] # active
      BY <2>1, <2>2, <2>3, <2>4 DEF RequestInv, ExecutorInv, RequestTypeOK
    <2>6. \A i, k \in 1..Len(queue') : i # k => queue'[i] # queue'[k]
      BY <2>1, <2>2, <2>3 DEF RequestInv, ExecutorInv
    <2> QED
      BY <2>1, <2>4, <2>5, <2>6 DEF RequestInv, ExecutorInv
  <1> QED
    BY <1>1, <1>2 DEF RequestInv

\* The executor takes the call at the front.
LEMMA RequestTaken ==
    ASSUME RequestInv, TakeTask
    PROVE  RequestInv' /\ UNCHANGED <<pc, call, reply, mutex, progress>>
  <1>1. UNCHANGED <<pc, call, reply, mutex, progress>>
    BY DEF TakeTask, coordVars, clientVars
  <1>2. RequestTypeOK' /\ LockInv'
    BY <1>1 DEF RequestInv, RequestTypeOK, LockInv, Calling
  <1>3. ExecutorInv'
    <2>1. queue # <<>> /\ active' = Head(queue) /\ queue' = Tail(queue) /\ queue \in Seq(Requests)
      BY DEF TakeTask, RequestInv, ExecutorInv
    <2>2. /\ Len(queue) \in Nat \ {0} /\ active' = queue[1] /\ queue' \in Seq(Requests)
          /\ Len(queue') = Len(queue) - 1
          /\ \A i \in 1..Len(queue') : queue'[i] = queue[i + 1]
      BY <2>1
    <2>3. \A i \in 1..Len(queue') : i + 1 \in 1..Len(queue) /\ i + 1 # 1
      BY <2>2
    <2>4. 1 \in 1..Len(queue) /\ active' \in Requests /\ pc[active'] = "wait"
      BY <2>2 DEF RequestInv, ExecutorInv
    <2>5. \A i \in 1..Len(queue') : pc[queue'[i]] = "wait" /\ queue'[i] # active'
      BY <2>2, <2>3, <2>4 DEF RequestInv, ExecutorInv
    <2>6. \A i, k \in 1..Len(queue') : i # k => queue'[i] # queue'[k]
      <3> SUFFICES ASSUME NEW i \in 1..Len(queue'), NEW k \in 1..Len(queue'), i # k
                   PROVE  queue[i + 1] # queue[k + 1]
        BY <2>2
      <3>1. i + 1 # k + 1 /\ i + 1 \in 1..Len(queue) /\ k + 1 \in 1..Len(queue)
        BY <2>2, <2>3
      <3> QED
        BY <3>1 DEF RequestInv, ExecutorInv
    <2> QED
      BY <1>1, <2>2, <2>4, <2>5, <2>6 DEF ExecutorInv
  <1> QED
    BY <1>1, <1>2, <1>3 DEF RequestInv

\* The call that runs returns.
LEMMA RequestReturned ==
    ASSUME RequestInv, NEW r \in Requests, active = r,
           NEW v \in [value: Values, job: JobIds \cup {None}], Return(r, v),
           UNCHANGED <<call, progress, mutex, queue>>
    PROVE  RequestInv'
  <1>1. /\ active' = None /\ pc' = [pc EXCEPT ![r] = "returned"]
        /\ reply' = [reply EXCEPT ![r] = v]
    BY DEF Return
  <1>2. RequestTypeOK'
    BY <1>1 DEF RequestInv, RequestTypeOK
  <1>3. ExecutorInv'
    <2>1. \A i \in 1..Len(queue) : queue[i] # r /\ queue[i] \in Requests
      BY DEF RequestInv, ExecutorInv
    <2>2. \A i \in 1..Len(queue) : pc'[queue[i]] = "wait" /\ queue[i] # None
      BY <1>1, <2>1, ServiceAssumption DEF RequestInv, ExecutorInv, RequestTypeOK
    <2> QED
      BY <1>1, <2>1, <2>2 DEF RequestInv, ExecutorInv
  <1>4. LockInv'
    <2>1. \A q \in Requests : Calling(q)' <=> Calling(q)
      BY <1>1, ServiceAssumption DEF RequestInv, RequestTypeOK, ExecutorInv, Calling
    <2> QED
      BY <2>1 DEF RequestInv, LockInv
  <1> QED
    BY <1>2, <1>3, <1>4 DEF RequestInv

-----------------------------------------------------------------------------
(* What a step leaves alone                                                *)

\* The request that calls the job service is the one that holds the mutex.
LEMMA Holder ==
    ASSUME RequestInv, NEW r \in Requests, Calling(r), call[r] # "ListBooks"
    PROVE  mutex = r /\ \A q \in Requests : Calling(q) /\ q # r => call[q] = "ListBooks"
  BY DEF RequestInv, LockInv

\* The executor runs one call, and while a job is being started or removed it is that one.
LEMMA RunningCall ==
    ASSUME RequestInv, JobInv, NEW r \in Requests, Calling(r), call[r] # "ListBooks",
           starting # None \/ removing # None
    PROVE  r = active /\ pc[r] = "wait"
  <1>1. active \in Requests /\ pc[active] = "wait" /\ call[active] # "ListBooks"
    BY ServiceAssumption DEF JobInv, StartingInv, RemovingInv, RequestInv, ExecutorInv
  <1>2. Calling(active)
    BY <1>1 DEF Calling
  <1> QED
    BY <1>1, <1>2, Holder

\* The requests, when a step leaves them alone.
LEMMA RequestsUnchanged ==
    ASSUME RequestInv, UNCHANGED <<pc, call, reply, mutex, progress, queue, active>>
    PROVE  RequestInv'
  BY DEF RequestInv, RequestTypeOK, ExecutorInv, LockInv, Calling

\* What was reported, when a step changes no report.
LEMMA ReportUnchanged ==
    ASSUME ReportInv, UNCHANGED <<activeJobId, progress, answer>>
    PROVE  ReportInv'
  BY DEF ReportInv, Consistent

\* The calls of the other requests.
LEMMA OtherCalls ==
    ASSUME RequestInv, CallInv, NEW r \in Requests, NEW q \in Requests, q # r,
           pc'[q] = pc[q], call'[q] = call[q], reply'[q] = reply[q],
           mutex \in {r, None} \/ UNCHANGED <<jobs, activeJobId, progress, removing>>
    PROVE  CallOK(q)'
  <1>1. CASE mutex \in {r, None}
    <2>1. Calling(q) => call[q] = "ListBooks"
      BY <1>1, ServiceAssumption DEF RequestInv, LockInv
    <2> QED
      BY <2>1 DEF CallOK, Calling, PollCalls
  <1>2. CASE UNCHANGED <<jobs, activeJobId, progress, removing>>
    BY <1>2 DEF CallInv, CallOK, Calling, SnapshotOK, ResultOK, RemovalOK, Consistent
  <1> QED
    BY <1>1, <1>2

\* A request goes on, and the job service is as it was.
LEMMA JobsUntouched ==
    ASSUME RequestInv, JobInv, NEW r \in Requests, pc[r] # "wait",
           UNCHANGED <<process, jobs, dirs, nextJobId, starting, removing, active>>,
           \A q \in Requests \ {r} : pc'[q] = pc[q] /\ call'[q] = call[q] /\ reply'[q] = reply[q],
           activeJobId' \in JobIds \cup {None},
           \A j \in JobIds : jobs[j].known /\ j = activeJobId => j = activeJobId',
           removing # None => activeJobId' = activeJobId,
           call[r] = "StartInpxScan" /\ pc[r] = "returned" /\ reply[r].job # None
             => activeJobId' = reply[r].job
    PROVE  JobInv'
  <1>1. JobTypeOK' /\ WorkerInv' /\ DirsInv'
    BY DEF JobInv, JobTypeOK, WorkerInv, DirsInv
  <1>2. KnownInv'
    <2> SUFFICES ASSUME NEW j \in JobIds, jobs[j].known
                 PROVE  /\ j = activeJobId' \/ j = starting \/ JustStarted(j)'
                        /\ jobs[j].worker = "None" => j = starting
      BY DEF KnownInv
    <2>1. j = activeJobId \/ j = starting \/ JustStarted(j)
      BY DEF JobInv, KnownInv
    <2>2. ASSUME JustStarted(j) PROVE j = activeJobId' \/ JustStarted(j)'
      <3>1. PICK q \in Requests : call[q] = "StartInpxScan" /\ pc[q] = "returned" /\ reply[q].job = j
        BY <2>2 DEF JustStarted
      <3>2. j # None
        BY ServiceAssumption DEF JobIds
      <3>3. CASE q = r
        BY <3>1, <3>2, <3>3
      <3>4. CASE q # r
        BY <3>1, <3>4 DEF JustStarted
      <3> QED
        BY <3>3, <3>4
    <2> QED
      BY <2>1, <2>2 DEF JobInv, KnownInv
  <1>3. StartingInv' /\ RemovingInv'
    <2>1. active # None => active \in Requests /\ active # r
      BY DEF RequestInv, ExecutorInv
    <2> QED
      BY <2>1 DEF JobInv, StartingInv, RemovingInv
  <1> QED
    BY <1>1, <1>2, <1>3 DEF JobInv

-----------------------------------------------------------------------------
(* The worker threads                                                      *)

\* A worker changes its own record, which is unfinished until it has published a result.
LEMMA WorkerStepInv ==
    ASSUME IInv, NEW j \in JobIds, WorkerStep(j) \/ FinishScan(j)
    PROVE  IInv'
  <1> DEFINE old == jobs[j]
             new == jobs'[j]
  <1>1. /\ UNCHANGED <<process, dirs, nextJobId, queue, active, starting, removing, pc, call, reply,
                       mutex, activeJobId, progress, answer>>
    BY DEF WorkerStep, PublishRunning, ThrowIfCancelled, PublishResult, FinishScan, execVars,
       coordVars, clientVars
  <1>2. /\ jobs' \in [JobIds -> JobRecord]
        /\ \A i \in JobIds \ {j} : jobs'[i] = jobs[i]
    BY DEF IInv, JobInv, JobTypeOK, WorkerInv, JobRecord, WorkerStep, PublishRunning,
       ThrowIfCancelled, PublishResult, FinishScan, Statuses, Live, Ended, Terminal
  <1>3. /\ new.known = old.known /\ old.worker \in Live /\ new.stop = old.stop
        /\ new.worker # "None"
    BY DEF IInv, JobInv, JobTypeOK, WorkerInv, JobRecord, WorkerStep, PublishRunning,
       ThrowIfCancelled, PublishResult, FinishScan, Live
  <1>4. /\ new.status \in Terminal <=> new.worker \in Ended
        /\ new.result = IF new.worker \in Ended THEN new.status ELSE None
        /\ new.worker = "Leaving" => /\ new.outcome \in Terminal
                                     /\ new.outcome = "Cancelled" => new.stop
    <2>1. /\ old.status \in Terminal <=> old.worker \in Ended
          /\ old.result = IF old.worker \in Ended THEN old.status ELSE None
          /\ old.worker = "Leaving" => /\ old.outcome \in Terminal
                                       /\ old.outcome = "Cancelled" => old.stop
          /\ old \in JobRecord
      BY DEF IInv, JobInv, JobTypeOK, WorkerInv
    <2>2. CASE PublishRunning(j)
      <3>1. /\ old.worker = "Spawned" /\ new.worker = "Scanning" /\ new.status = "Running"
            /\ new.result = old.result
        BY <2>2 DEF PublishRunning, IInv, JobInv, JobTypeOK, JobRecord
      <3> QED
        BY <2>1, <3>1 DEF Ended, Terminal
    <2>3. CASE ThrowIfCancelled(j)
      <3>1. /\ old.worker = "Scanning" /\ new.worker = "Leaving" /\ new.status = "Cancelling"
            /\ new.result = old.result /\ new.outcome = "Cancelled" /\ old.stop
        BY <2>3 DEF ThrowIfCancelled, IInv, JobInv, JobTypeOK, JobRecord
      <3> QED
        BY <1>3, <2>1, <3>1 DEF Ended, Terminal
    <2>4. CASE FinishScan(j)
      <3>1. /\ old.worker \in {"Spawned", "Scanning"} /\ new.worker = "Leaving"
            /\ new.status = old.status /\ new.result = old.result
            /\ new.outcome \in {"Completed", "Failed"}
        BY <2>4 DEF FinishScan, IInv, JobInv, JobTypeOK, JobRecord
      <3> QED
        BY <2>1, <3>1 DEF Ended, Terminal
    <2>5. CASE PublishResult(j)
      <3>1. /\ old.worker = "Leaving" /\ new.worker = "Exited"
            /\ new.status = old.outcome /\ new.result = old.outcome
        BY <2>5 DEF PublishResult, IInv, JobInv, JobTypeOK, JobRecord
      <3> QED
        BY <2>1, <3>1 DEF Ended, Terminal
    <2> QED
      BY <2>2, <2>3, <2>4, <2>5 DEF WorkerStep
  <1>5. old.status \notin Terminal /\ old.known
    BY <1>3 DEF IInv, JobInv, WorkerInv, Live, Ended
  <1>6. WorkerInv'
    <2> SUFFICES ASSUME NEW i \in JobIds
                 PROVE  /\ jobs'[i].status \in Terminal <=> jobs'[i].worker \in Ended
                        /\ jobs'[i].result = IF jobs'[i].worker \in Ended THEN jobs'[i].status
                                                                        ELSE None
                        /\ jobs'[i].worker = "Leaving" =>
                              /\ jobs'[i].outcome \in Terminal
                              /\ jobs'[i].outcome = "Cancelled" => jobs'[i].stop
                        /\ jobs'[i].worker \in Live => jobs'[i].known
                        /\ jobs'[i].worker = "None" => ~jobs'[i].stop
      BY DEF WorkerInv
    <2>1. CASE i = j
      BY <1>3, <1>4, <1>5, <2>1
    <2>2. CASE i # j
      <3>1. jobs'[i] = jobs[i]
        BY <1>2, <2>2
      <3> QED
        BY <3>1 DEF IInv, JobInv, WorkerInv
    <2> QED
      BY <2>1, <2>2
  <1>7. \A i \in JobIds : jobs'[i].known = jobs[i].known /\ (jobs[i].status \in Terminal => jobs'[i] = jobs[i])
    BY <1>2, <1>3, <1>5
  <1>8. \A i \in JobIds : jobs'[i].worker = "None" <=> jobs[i].worker = "None"
    BY <1>2, <1>3 DEF Live
  <1> HIDE DEF old, new
  <1>9. JobInv'
    <2>1. JobTypeOK' /\ DirsInv' /\ RemovingInv'
      BY <1>1, <1>2, <1>7 DEF IInv, JobInv, JobTypeOK, DirsInv, RemovingInv
    <2>2. KnownInv'
      BY <1>1, <1>7, <1>8 DEF IInv, JobInv, KnownInv, JustStarted
    <2>3. StartingInv'
      BY <1>1, <1>7, <1>8 DEF IInv, JobInv, JobTypeOK, StartingInv
    <2> QED
      BY <1>6, <2>1, <2>2, <2>3 DEF JobInv
  <1>10. RequestInv' /\ ReportInv'
    BY <1>1, RequestsUnchanged, ReportUnchanged DEF IInv
  <1>11. CallInv'
    <2> SUFFICES ASSUME NEW r \in Requests PROVE CallOK(r)'
      BY DEF CallInv
    <2>1. CASE activeJobId = None
      BY <1>1, <2>1 DEF IInv, CallInv, CallOK, Calling, PollCalls
    <2>2. CASE activeJobId \in JobIds
      BY <1>1, <1>7, <2>2
      DEF IInv, CallInv, CallOK, Calling, SnapshotOK, ResultOK, RemovalOK, Consistent
    <2> QED
      BY <2>1, <2>2 DEF IInv, JobInv, JobTypeOK
  <1> QED
    BY <1>9, <1>10, <1>11 DEF IInv

-----------------------------------------------------------------------------
(* The executor                                                            *)

\* The executor takes a task.
LEMMA TakeTaskInv ==
    ASSUME IInv, TakeTask
    PROVE  IInv'
  <1>1. /\ UNCHANGED <<process, jobs, dirs, nextJobId, starting, removing, pc, call, reply, mutex,
                       activeJobId, progress, answer>>
        /\ active = None
    BY DEF TakeTask, serviceVars, coordVars, clientVars
  <1>2. starting = None /\ removing = None
    BY <1>1 DEF IInv, JobInv, StartingInv, RemovingInv
  <1>3. JobInv'
    BY <1>1, <1>2 DEF IInv, JobInv, JobTypeOK, WorkerInv, KnownInv, JustStarted, StartingInv,
       RemovingInv, DirsInv
  <1>4. CallInv'
    BY <1>1 DEF IInv, CallInv, CallOK, Calling, SnapshotOK, ResultOK, RemovalOK, Consistent
  <1> QED
    BY <1>1, <1>3, <1>4, RequestTaken, ReportUnchanged DEF IInv

\* The request whose call runs.
LEMMA RunningFacts ==
    ASSUME IInv, NEW r \in Requests, NEW c \in Calls, Running(r, c)
    PROVE  /\ active = r /\ pc[r] = "wait" /\ call[r] = c /\ Calling(r)
           /\ c # "ListBooks" => mutex = r
           /\ c # "StartInpxScan" => starting = None
           /\ c # "RemoveJob" => removing = None
           /\ c \in PollCalls => activeJobId \in JobIds
           /\ c = "StartInpxScan" => activeJobId = None
           /\ CallOK(r)
  <1>1. active = r /\ pc[r] = "wait" /\ call[r] = c /\ Calling(r)
    BY ServiceAssumption DEF Running, IInv, RequestInv, ExecutorInv, Calling
  <1>2. c # "ListBooks" => mutex = r
    BY <1>1 DEF IInv, RequestInv, LockInv
  <1>3. /\ c # "StartInpxScan" => starting = None
        /\ c # "RemoveJob" => removing = None
    BY <1>1 DEF IInv, JobInv, StartingInv, RemovingInv
  <1>4. CallOK(r)
    BY DEF IInv, CallInv
  <1>5. /\ c \in PollCalls => activeJobId \in JobIds
        /\ c = "StartInpxScan" => activeJobId = None
    BY <1>1, <1>4 DEF CallOK, IInv, JobInv, JobTypeOK
  <1> QED
    BY <1>1, <1>2, <1>3, <1>4, <1>5

\* A call that only reads returns.
LEMMA ReadReturns ==
    ASSUME IInv, NEW r \in Requests, NEW c \in {"GetSnapshot", "GetResult", "ListBooks"},
           Running(r, c), NEW v \in [value: Values, job: JobIds \cup {None}], Return(r, v),
           UNCHANGED <<process, jobs, dirs, nextJobId, starting, removing, queue, call, mutex,
                       activeJobId, progress, answer>>,
           CallOK(r)'
    PROVE  IInv'
  <1>1. /\ active = r /\ call[r] = c /\ starting = None /\ removing = None
        /\ active' = None /\ \A q \in Requests \ {r} : pc'[q] = pc[q] /\ reply'[q] = reply[q]
    BY RunningFacts DEF Calls, PollCalls, Return, IInv, RequestInv, RequestTypeOK
  <1>2. RequestInv' /\ ReportInv'
    BY <1>1, RequestReturned, ReportUnchanged DEF IInv
  <1>3. JobInv'
    <2>1. \A j \in JobIds : JustStarted(j) => JustStarted(j)'
      BY <1>1 DEF JustStarted
    <2> QED
      BY <1>1, <2>1 DEF IInv, JobInv, JobTypeOK, WorkerInv, KnownInv, StartingInv, RemovingInv, DirsInv
  <1>4. CallInv'
    BY <1>1, OtherCalls DEF IInv, CallInv
  <1> QED
    BY <1>2, <1>3, <1>4 DEF IInv

\* TryGetSnapshot copies what the record says.
LEMMA TryGetSnapshotInv ==
    ASSUME IInv, NEW r \in Requests, TryGetSnapshot(r)
    PROVE  IInv'
  <1> DEFINE job == jobs[activeJobId]
             v == Value(IF job.known THEN job.status ELSE None)
  <1>1. /\ Running(r, "GetSnapshot") /\ Return(r, v)
        /\ UNCHANGED <<process, jobs, dirs, nextJobId, starting, removing, queue, call, mutex,
                       activeJobId, progress, answer>>
    BY DEF TryGetSnapshot, serviceVars, coordVars
  <1>2. activeJobId \in JobIds /\ call[r] = "GetSnapshot"
    BY <1>1, RunningFacts DEF Calls, PollCalls
  <1>3. job \in JobRecord
    BY <1>2 DEF IInv, JobInv, JobTypeOK
  <1>4. /\ v \in [value: Values, job: JobIds \cup {None}]
        /\ v.value = IF job.known THEN job.status ELSE None
        /\ job.status # None
    BY <1>3, ServiceAssumption DEF JobRecord, Value, Values, Statuses
  <1>5. reply'[r] = v
    BY <1>1 DEF Return, IInv, RequestInv, RequestTypeOK
  <1>6. CallOK(r)'
    <2>1. activeJobId # None
      BY <1>2, ServiceAssumption DEF JobIds
    <2>2. None \notin Terminal
      BY ServiceAssumption DEF Terminal
    <2> HIDE DEF v
    <2>3. SnapshotOK(r)'
      BY <1>1, <1>4, <1>5, <2>2 DEF SnapshotOK
    <2> QED
      BY <1>1, <1>2, <2>1, <2>3 DEF CallOK, PollCalls
  <1> HIDE DEF v
  <1> QED
    BY <1>1, <1>4, <1>6, ReadReturns

\* TryGetResult copies a terminal result.
LEMMA TryGetResultInv ==
    ASSUME IInv, NEW r \in Requests, TryGetResult(r)
    PROVE  IInv'
  <1> DEFINE job == jobs[activeJobId]
             v == Value(IF job.known THEN job.result ELSE None)
  <1>1. /\ Running(r, "GetResult") /\ Return(r, v)
        /\ UNCHANGED <<process, jobs, dirs, nextJobId, starting, removing, queue, call, mutex,
                       activeJobId, progress, answer>>
    BY DEF TryGetResult, serviceVars, coordVars
  <1>2. activeJobId \in JobIds /\ call[r] = "GetResult" /\ Calling(r) /\ CallOK(r)
    BY <1>1, RunningFacts DEF Calls, PollCalls
  <1>3. job \in JobRecord /\ ResultOK(r)
    BY <1>2 DEF IInv, JobInv, JobTypeOK, CallOK
  <1>4. job.result = progress.status
    BY <1>2, <1>3 DEF IInv, JobInv, WorkerInv, ResultOK
  <1>5. v \in [value: Values, job: JobIds \cup {None}] /\ v.value = progress.status
    BY <1>3, <1>4 DEF JobRecord, Value, Values, Statuses, Terminal, ResultOK
  <1>6. reply'[r] = v
    BY <1>1 DEF Return, IInv, RequestInv, RequestTypeOK
  <1>7. CallOK(r)'
    <2>1. activeJobId # None
      BY <1>2, ServiceAssumption DEF JobIds
    <2> HIDE DEF v
    <2>2. ResultOK(r)'
      BY <1>1, <1>3, <1>5, <1>6 DEF ResultOK
    <2> QED
      BY <1>1, <1>2, <2>1, <2>2 DEF CallOK, PollCalls
  <1> HIDE DEF v
  <1> QED
    BY <1>1, <1>5, <1>7, ReadReturns

\* A request for books reads the catalog.
LEMMA ReadCatalogInv ==
    ASSUME IInv, NEW r \in Requests, ReadCatalog(r)
    PROVE  IInv'
  <1>1. /\ Running(r, "ListBooks") /\ Return(r, Value("True"))
        /\ UNCHANGED <<process, jobs, dirs, nextJobId, starting, removing, queue, call, mutex,
                       activeJobId, progress, answer>>
    BY DEF ReadCatalog, serviceVars, coordVars
  <1>2. call[r] = "ListBooks"
    BY <1>1, RunningFacts DEF Calls
  <1>3. CallOK(r)'
    BY <1>1, <1>2 DEF CallOK, PollCalls
  <1>4. Value("True") \in [value: Values, job: JobIds \cup {None}]
    BY DEF Value, Values
  <1> QED
    BY <1>1, <1>3, <1>4, ReadReturns

\* While a start runs, the map holds the job being started and no other.
LEMMA StartIsAlone ==
    ASSUME IInv, NEW r \in Requests, Running(r, "StartInpxScan")
    PROVE  \A j \in JobIds : ~JustStarted(j) /\ (jobs[j].known => j = starting)
  <1>1. active = r /\ pc[r] = "wait" /\ call[r] = "StartInpxScan" /\ activeJobId = None /\ Calling(r)
    BY RunningFacts DEF Calls, PollCalls
  <1>2. ASSUME NEW q \in Requests, call[q] = "StartInpxScan", pc[q] = "returned"
        PROVE  FALSE
    <2>1. Calling(q)
      BY <1>2 DEF Calling
    <2> QED
      BY <1>1, <1>2, <2>1, Holder DEF IInv
  <1>3. \A j \in JobIds : ~JustStarted(j)
    BY <1>2 DEF JustStarted
  <1>4. None \notin JobIds
    BY ServiceAssumption DEF JobIds
  <1> QED
    BY <1>1, <1>3, <1>4 DEF IInv, JobInv, KnownInv

\* The calls of all requests when r, which holds the mutex, has one that says nothing yet.
LEMMA HolderCalls ==
    ASSUME RequestInv, CallInv, NEW r \in Requests, mutex = r, CallOK(r)',
           \A q \in Requests \ {r} : pc'[q] = pc[q] /\ call'[q] = call[q] /\ reply'[q] = reply[q]
    PROVE  CallInv'
  BY OtherCalls DEF CallInv

\* StartJob puts the record into the map.
LEMMA StartEmplaceInv ==
    ASSUME IInv, NEW r \in Requests, StartEmplace(r)
    PROVE  IInv'
  <1>1. /\ Running(r, "StartInpxScan") /\ starting = None
        /\ UNCHANGED <<process, queue, removing, call, answer, mutex, activeJobId, progress, dirs>>
    BY DEF StartEmplace, serviceVars, coordVars
  <1>2. /\ active = r /\ pc[r] = "wait" /\ call[r] = "StartInpxScan" /\ activeJobId = None
        /\ removing = None /\ mutex = r /\ Calling(r)
    BY <1>1, RunningFacts DEF Calls, PollCalls
  <1>3. \A j \in JobIds : ~jobs[j].known
    BY <1>1, StartIsAlone, ServiceAssumption DEF JobIds
  <1>4. ReportInv'
    BY <1>1, ReportUnchanged DEF IInv
  <1>5. CASE Return(r, NoReply) /\ UNCHANGED <<jobs, nextJobId, starting>>
    <2>1. NoReply \in [value: Values, job: JobIds \cup {None}]
      BY DEF NoReply, Values
    <2>2. RequestInv'
      BY <1>1, <1>2, <1>5, <2>1, RequestReturned DEF IInv
    <2>3. JobInv'
      BY <1>1, <1>2, <1>3, <1>5
      DEF IInv, JobInv, JobTypeOK, WorkerInv, KnownInv, StartingInv, RemovingInv, DirsInv
    <2>4. CallOK(r)'
      BY <1>1, <1>2 DEF CallOK, PollCalls
    <2>5. CallInv'
      BY <1>1, <1>2, <1>5, <2>4, HolderCalls DEF IInv, Return, RequestInv, RequestTypeOK
    <2> QED
      BY <1>4, <2>2, <2>3, <2>5 DEF IInv
  <1>6. CASE /\ nextJobId \in JobIds
             /\ jobs' = [jobs EXCEPT ![nextJobId] = [NoJob EXCEPT !.known = TRUE]]
             /\ starting' = nextJobId
             /\ nextJobId' = nextJobId + 1
             /\ UNCHANGED <<active, reply, pc>>
    <2> DEFINE new == [NoJob EXCEPT !.known = TRUE]
    <2>1. /\ new \in JobRecord /\ new.known /\ new.status = "Pending" /\ new.result = None
          /\ new.worker = "None" /\ ~new.stop
      BY DEF NoJob, JobRecord, Statuses
    <2>2. jobs' = [jobs EXCEPT ![nextJobId] = new]
      BY <1>6
    <2> HIDE DEF new
    <2>3. jobs' \in [JobIds -> JobRecord] /\ jobs'[nextJobId] = new
          /\ \A j \in JobIds \ {nextJobId} : jobs'[j] = jobs[j]
      BY <1>6, <2>1, <2>2 DEF IInv, JobInv, JobTypeOK
    <2>4. JobTypeOK'
      BY <1>1, <1>6, <2>3 DEF IInv, JobInv, JobTypeOK
    <2>5. WorkerInv'
      BY <2>1, <2>3 DEF IInv, JobInv, WorkerInv, Terminal, Ended, Live
    <2>6. KnownInv' /\ RemovingInv' /\ DirsInv'
      BY <1>1, <1>2, <1>3, <1>6, <2>1, <2>3
      DEF IInv, JobInv, JobTypeOK, KnownInv, RemovingInv, DirsInv
    <2>7. StartingInv'
      <3>1. \A j \in JobIds : j \in Int
        BY DEF JobIds
      <3>2. \A j \in JobIds : j >= nextJobId' => j >= nextJobId
        BY <1>6, <3>1 DEF IInv, JobInv, JobTypeOK
      <3> QED
        BY <1>1, <1>2, <1>6, <2>1, <2>3, <3>2, ServiceAssumption DEF IInv, JobInv, JobTypeOK, StartingInv
    <2>8. RequestInv'
      BY <1>1, <1>6, RequestsUnchanged DEF IInv
    <2>9. CallOK(r)'
      BY <1>1, <1>2 DEF CallOK, PollCalls
    <2>10. CallInv'
      BY <1>1, <1>2, <1>6, <2>9, HolderCalls DEF IInv
    <2> QED
      BY <1>4, <2>4, <2>5, <2>6, <2>7, <2>8, <2>10 DEF IInv, JobInv
  <1> QED
    BY <1>5, <1>6 DEF StartEmplace, serviceVars

\* ... and creates the workspace and the thread, or takes the record back.
LEMMA StartSpawnInv ==
    ASSUME IInv, NEW r \in Requests, StartSpawn(r)
    PROVE  IInv'
  <1>1. /\ Running(r, "StartInpxScan") /\ starting # None /\ starting' = None
        /\ UNCHANGED <<process, nextJobId, queue, removing, call, answer, mutex, activeJobId, progress>>
    BY DEF StartSpawn, coordVars
  <1>2. /\ active = r /\ pc[r] = "wait" /\ call[r] = "StartInpxScan" /\ activeJobId = None
        /\ removing = None /\ mutex = r /\ Calling(r)
    BY <1>1, RunningFacts DEF Calls, PollCalls
  <1>3. \A j \in JobIds : jobs[j].known => j = starting
    BY <1>1, StartIsAlone
  <1>4. /\ starting \in JobIds /\ jobs[starting].known /\ jobs[starting].worker = "None"
        /\ nextJobId = starting + 1 /\ jobs[starting] \in JobRecord
    BY <1>1 DEF IInv, JobInv, JobTypeOK, StartingInv
  <1>5. ReportInv'
    BY <1>1, ReportUnchanged DEF IInv
  <1>6. CallOK(r)'
    BY <1>1, <1>2 DEF CallOK, PollCalls
  <1>7. CASE /\ jobs' = [jobs EXCEPT ![starting].worker = "Spawned"]
             /\ dirs' = dirs \cup {starting}
             /\ Return(r, Started(starting))
    <2>1. /\ jobs' \in [JobIds -> JobRecord]
          /\ \A j \in JobIds \ {starting} : jobs'[j] = jobs[j]
      BY <1>4, <1>7 DEF IInv, JobInv, JobTypeOK, JobRecord, Live
    <2>2. /\ jobs'[starting].worker = "Spawned" /\ jobs'[starting].known
          /\ jobs'[starting].status = jobs[starting].status /\ jobs'[starting].result = jobs[starting].result
      BY <1>4, <1>7 DEF IInv, JobInv, JobTypeOK, JobRecord
    <2>3. /\ Started(starting) \in [value: Values, job: JobIds \cup {None}]
          /\ Started(starting).job = starting
      BY <1>4 DEF Started, Values
    <2>4. RequestInv'
      BY <1>1, <1>2, <1>7, <2>3, RequestReturned DEF IInv
    <2>5. JustStarted(starting)
          \/ (call'[r] = "StartInpxScan" /\ pc'[r] = "returned" /\ reply'[r].job = starting)
      BY <1>1, <1>2, <1>7, <2>3 DEF Return, IInv, RequestInv, RequestTypeOK
    <2>6. KnownInv'
      <3>1. call'[r] = "StartInpxScan" /\ pc'[r] = "returned" /\ reply'[r].job = starting
        BY <1>1, <1>4, <2>5, StartIsAlone
      <3>2. \A j \in JobIds : jobs'[j].known => j = starting
        BY <1>3, <2>1
      <3> QED
        BY <2>2, <3>1, <3>2 DEF KnownInv, JustStarted
    <2>7. JobTypeOK' /\ RemovingInv'
      BY <1>1, <1>2, <1>4, <1>7, <2>1 DEF IInv, JobInv, JobTypeOK, RemovingInv
    <2>8. WorkerInv'
      BY <1>4, <2>1, <2>2 DEF IInv, JobInv, WorkerInv, Ended, Live
    <2>9. StartingInv'
      <3>1. \A j \in JobIds : j \in Int
        BY DEF JobIds
      <3>2. ~(starting >= nextJobId)
        BY <1>4, <3>1
      <3> QED
        BY <1>1, <1>4, <2>1, <3>2 DEF IInv, JobInv, StartingInv
    <2>10. DirsInv'
      BY <1>1, <1>2, <1>4, <1>7, <2>1, <2>2, ServiceAssumption DEF IInv, JobInv, JobTypeOK, DirsInv, JobIds
    <2>11. CallInv'
      BY <1>1, <1>2, <1>6, <1>7, HolderCalls DEF IInv, Return, RequestInv, RequestTypeOK
    <2> QED
      BY <1>5, <2>4, <2>6, <2>7, <2>8, <2>9, <2>10, <2>11 DEF IInv, JobInv
  <1>8. CASE /\ jobs' = [jobs EXCEPT ![starting] = NoJob]
             /\ Return(r, NoReply)
             /\ UNCHANGED dirs
    <2>1. /\ NoJob \in JobRecord /\ ~NoJob.known /\ NoJob.status = "Pending" /\ NoJob.result = None
          /\ NoJob.worker = "None" /\ ~NoJob.stop
      BY DEF NoJob, JobRecord, Statuses
    <2>2. /\ jobs' \in [JobIds -> JobRecord] /\ jobs'[starting] = NoJob
          /\ \A j \in JobIds \ {starting} : jobs'[j] = jobs[j]
      BY <1>4, <1>8, <2>1 DEF IInv, JobInv, JobTypeOK
    <2>3. NoReply \in [value: Values, job: JobIds \cup {None}]
      BY DEF NoReply, Values
    <2>4. RequestInv'
      BY <1>1, <1>2, <1>8, <2>3, RequestReturned DEF IInv
    <2>5. \A j \in JobIds : ~jobs'[j].known
      BY <1>3, <2>1, <2>2
    <2>6. JobTypeOK' /\ RemovingInv' /\ KnownInv'
      BY <1>1, <1>2, <1>8, <2>2, <2>5 DEF IInv, JobInv, JobTypeOK, RemovingInv, KnownInv
    <2>7. WorkerInv'
      BY <2>1, <2>2 DEF IInv, JobInv, WorkerInv, Ended, Live, Terminal
    <2>8. StartingInv'
      BY <1>1, <2>1, <2>2 DEF IInv, JobInv, StartingInv
    <2>9. DirsInv'
      <3>1. process # "dead" => \A j \in dirs : j # starting /\ jobs[j].known
        BY <1>2, ServiceAssumption DEF IInv, JobInv, JobTypeOK, DirsInv, JobIds
      <3>2. process # "dead" => dirs = {}
        BY <1>3, <3>1 DEF IInv, JobInv, JobTypeOK
      <3> QED
        BY <1>1, <1>8, <3>2 DEF DirsInv
    <2>10. CallInv'
      BY <1>1, <1>2, <1>6, <1>8, HolderCalls DEF IInv, Return, RequestInv, RequestTypeOK
    <2> QED
      BY <1>5, <2>4, <2>6, <2>7, <2>8, <2>9, <2>10 DEF IInv, JobInv
  <1> QED
    BY <1>7, <1>8 DEF StartSpawn

\* Cancel sets the stop request of an active job.
LEMMA CancelInv ==
    ASSUME IInv, NEW r \in Requests, Cancel(r)
    PROVE  IInv'
  <1> DEFINE a == activeJobId
             v == Value(IF Unfinished(a) THEN "True" ELSE "False")
  <1>1. /\ Running(r, "CancelJob") /\ Return(r, v)
        /\ UNCHANGED <<process, dirs, nextJobId, queue, starting, removing, call, answer, mutex,
                       activeJobId, progress>>
    BY DEF Cancel, coordVars
  <1>2. /\ active = r /\ pc[r] = "wait" /\ call[r] = "CancelJob" /\ mutex = r
        /\ a \in JobIds /\ a # None /\ starting = None /\ removing = None
    BY <1>1, RunningFacts, ServiceAssumption DEF Calls, PollCalls, JobIds
  <1>3. v \in [value: Values, job: JobIds \cup {None}]
    BY DEF Value, Values
  <1> HIDE DEF v
  <1>4. RequestInv' /\ ReportInv'
    BY <1>1, <1>2, <1>3, RequestReturned, ReportUnchanged DEF IInv
  <1>5. CallOK(r)'
    BY <1>1, <1>2 DEF CallOK, PollCalls
  <1>6. CallInv'
    BY <1>1, <1>2, <1>5, HolderCalls DEF IInv, Return, RequestInv, RequestTypeOK
  <1>7. /\ jobs' \in [JobIds -> JobRecord]
        /\ \A j \in JobIds \ {a} : jobs'[j] = jobs[j]
        /\ jobs'[a].known = jobs[a].known /\ jobs'[a].worker = jobs[a].worker
    <2>1. jobs \in [JobIds -> JobRecord]
      BY DEF IInv, JobInv, JobTypeOK
    <2>2. CASE Unfinished(a)
      <3> DEFINE s == jobs[a].worker # "None"
      <3>1. jobs' = [jobs EXCEPT ![a].status = "Cancelling", ![a].stop = s] /\ s \in BOOLEAN
        BY <1>2, <2>2 DEF Cancel
      <3> HIDE DEF s
      <3> DEFINE new == [jobs[a] EXCEPT !.status = "Cancelling", !.stop = s]
      <3>2. jobs[a] \in JobRecord
        BY <1>2, <2>1
      <3>3. new \in JobRecord /\ new.known = jobs[a].known /\ new.worker = jobs[a].worker
        BY <3>1, <3>2 DEF JobRecord, Statuses
      <3>4. jobs' = [jobs EXCEPT ![a] = new]
        BY <1>2, <2>1, <3>1
      <3> HIDE DEF new
      <3> QED
        BY <1>2, <2>1, <3>3, <3>4
    <2>3. CASE ~Unfinished(a)
      BY <1>2, <2>1, <2>3 DEF Cancel
    <2> QED
      BY <2>2, <2>3
  <1>8. WorkerInv'
    <2>1. CASE Unfinished(a)
      <3>1. /\ jobs'[a].status = "Cancelling" /\ jobs'[a].result = jobs[a].result
            /\ jobs'[a].outcome = jobs[a].outcome
        BY <1>2, <2>1 DEF Cancel, IInv, JobInv, JobTypeOK, JobRecord
      <3>2. jobs'[a].stop = (jobs[a].worker # "None")
        <4> DEFINE s == jobs[a].worker # "None"
        <4>1. jobs' = [jobs EXCEPT ![a].status = "Cancelling", ![a].stop = s]
          BY <1>2, <2>1 DEF Cancel
        <4> HIDE DEF s
        <4>2. jobs'[a].stop = s
          BY <1>2, <4>1 DEF IInv, JobInv, JobTypeOK, JobRecord
        <4> QED
          BY <4>2 DEF s
      <3>3. jobs[a].worker \notin Ended /\ jobs[a].known
        BY <1>2, <2>1 DEF Unfinished, IsTerminal, IInv, JobInv, WorkerInv
      <3>4. /\ jobs[a].result = None
            /\ jobs[a].worker = "Leaving" => jobs[a].outcome \in Terminal
        BY <1>2, <3>3 DEF IInv, JobInv, WorkerInv
      <3>5. /\ jobs'[a].status \notin Terminal /\ jobs'[a].worker \notin Ended
            /\ jobs'[a].result = None
            /\ jobs'[a].worker = "Leaving" => jobs'[a].outcome \in Terminal /\ jobs'[a].stop
            /\ jobs'[a].known
            /\ jobs'[a].worker = "None" => ~jobs'[a].stop
        BY <1>7, <3>1, <3>2, <3>3, <3>4 DEF Terminal
      <3> QED
        BY <1>7, <3>5 DEF IInv, JobInv, WorkerInv
    <2>2. CASE ~Unfinished(a)
      BY <2>2 DEF Cancel, IInv, JobInv, WorkerInv
    <2> QED
      BY <2>1, <2>2
  <1>9. \A j \in JobIds : jobs'[j].known = jobs[j].known /\ jobs'[j].worker = jobs[j].worker
    BY <1>7
  <1>10. \A j \in JobIds : JustStarted(j) => JustStarted(j)'
    BY <1>1, <1>2 DEF JustStarted, Return, IInv, RequestInv, RequestTypeOK
  <1>11. JobTypeOK' /\ RemovingInv' /\ DirsInv'
    BY <1>1, <1>2, <1>7, <1>9 DEF IInv, JobInv, JobTypeOK, RemovingInv, DirsInv
  <1>12. KnownInv' /\ StartingInv'
    BY <1>1, <1>2, <1>9, <1>10 DEF IInv, JobInv, KnownInv, StartingInv
  <1> QED
    BY <1>4, <1>6, <1>8, <1>11, <1>12 DEF IInv, JobInv

\* RemoveJob takes the record out of the map.
LEMMA RemoveEraseInv ==
    ASSUME IInv, NEW r \in Requests, RemoveErase(r)
    PROVE  IInv'
  <1> DEFINE a == activeJobId
  <1>1. /\ Running(r, "RemoveJob") /\ removing = None
        /\ UNCHANGED <<process, dirs, nextJobId, queue, starting, call, answer, mutex,
                       activeJobId, progress>>
    BY DEF RemoveErase, coordVars
  <1>2. /\ active = r /\ pc[r] = "wait" /\ call[r] = "RemoveJob" /\ mutex = r /\ Calling(r)
        /\ a \in JobIds /\ a # None /\ starting = None /\ CallOK(r)
    BY <1>1, RunningFacts, ServiceAssumption DEF Calls, PollCalls, JobIds
  <1>3. jobs[a].known /\ jobs[a].status \in Terminal /\ Consistent(progress)
    BY <1>1, <1>2 DEF CallOK, RemovalOK
  <1>4. jobs[a].worker \in Ended /\ jobs[a].result # None
    BY <1>2, <1>3, ServiceAssumption DEF IInv, JobInv, WorkerInv, Terminal
  <1>5. /\ jobs' = [jobs EXCEPT ![a].known = FALSE] /\ removing' = a
        /\ UNCHANGED <<active, reply, pc>>
    BY <1>3, <1>4 DEF RemoveErase
  <1>6. /\ jobs' \in [JobIds -> JobRecord]
        /\ \A j \in JobIds \ {a} : jobs'[j] = jobs[j]
        /\ ~jobs'[a].known /\ jobs'[a].worker = jobs[a].worker
        /\ jobs'[a].status = jobs[a].status /\ jobs'[a].result = jobs[a].result
    BY <1>2, <1>5 DEF IInv, JobInv, JobTypeOK, JobRecord
  <1>7. RequestInv' /\ ReportInv'
    BY <1>1, <1>5, RequestsUnchanged, ReportUnchanged DEF IInv
  <1>8. JobTypeOK' /\ RemovingInv' /\ StartingInv'
    <2>1. JobTypeOK' /\ RemovingInv'
      BY <1>1, <1>2, <1>5, <1>6, ServiceAssumption DEF IInv, JobInv, JobTypeOK, RemovingInv
    <2>2. \A j \in JobIds : jobs'[j].worker = jobs[j].worker
      BY <1>6
    <2>3. StartingInv'
      BY <1>1, <1>2, <2>2 DEF IInv, JobInv, StartingInv
    <2> QED
      BY <2>1, <2>3
  <1>9. WorkerInv'
    <2>1. /\ jobs'[a].outcome = jobs[a].outcome /\ jobs'[a].stop = jobs[a].stop
      BY <1>2, <1>5 DEF IInv, JobInv, JobTypeOK, JobRecord
    <2> QED
      BY <1>2, <1>4, <1>6, <2>1 DEF IInv, JobInv, WorkerInv, Ended, Live
  <1>10. DirsInv' /\ KnownInv'
    BY <1>1, <1>2, <1>5, <1>6 DEF IInv, JobInv, JobTypeOK, DirsInv, KnownInv, JustStarted
  <1>11. RemovalOK(r)'
    BY <1>1, <1>2, <1>3, <1>5, <1>6 DEF RemovalOK, Consistent
  <1>12. CallOK(r)'
    BY <1>1, <1>2, <1>11 DEF CallOK, PollCalls
  <1>13. CallInv'
    BY <1>1, <1>2, <1>5, <1>12, HolderCalls DEF IInv
  <1> QED
    BY <1>7, <1>8, <1>9, <1>10, <1>13 DEF IInv, JobInv

\* ... waits for its thread and deletes its workspace.
LEMMA RemoveJoinInv ==
    ASSUME IInv, NEW r \in Requests, RemoveJoin(r)
    PROVE  IInv'
  <1> DEFINE a == activeJobId
             v == Value("True")
  <1>1. /\ Running(r, "RemoveJob") /\ removing # None /\ jobs[removing].worker = "Exited"
        /\ jobs' = [jobs EXCEPT ![removing].worker = "Joined"]
        /\ dirs' = dirs \ {removing} /\ removing' = None /\ Return(r, v)
        /\ UNCHANGED <<process, nextJobId, queue, starting, call, answer, mutex, activeJobId, progress>>
    BY DEF RemoveJoin, coordVars
  <1>2. /\ active = r /\ pc[r] = "wait" /\ call[r] = "RemoveJob" /\ mutex = r /\ Calling(r)
        /\ a \in JobIds /\ a # None /\ starting = None /\ CallOK(r)
    BY <1>1, RunningFacts, ServiceAssumption DEF Calls, PollCalls, JobIds
  <1>3. ~jobs[a].known /\ Consistent(progress) /\ removing = a
    BY <1>1, <1>2 DEF CallOK, RemovalOK, IInv, JobInv, RemovingInv
  <1>4. /\ jobs' \in [JobIds -> JobRecord]
        /\ \A j \in JobIds \ {a} : jobs'[j] = jobs[j]
        /\ ~jobs'[a].known /\ jobs'[a].worker = "Joined" /\ jobs'[a].stop = jobs[a].stop
        /\ jobs'[a].status = jobs[a].status /\ jobs'[a].result = jobs[a].result
    BY <1>1, <1>2, <1>3 DEF IInv, JobInv, JobTypeOK, JobRecord, Ended
  <1>5. v \in [value: Values, job: JobIds \cup {None}]
    BY DEF Value, Values
  <1> HIDE DEF v
  <1>6. RequestInv' /\ ReportInv'
    BY <1>1, <1>2, <1>5, RequestReturned, ReportUnchanged DEF IInv
  <1>7. JobTypeOK' /\ RemovingInv' /\ DirsInv'
    BY <1>1, <1>2, <1>3, <1>4 DEF IInv, JobInv, JobTypeOK, RemovingInv, DirsInv
  <1>8. WorkerInv'
    BY <1>1, <1>3, <1>4 DEF IInv, JobInv, WorkerInv, Ended, Live
  <1>9. \A j \in JobIds : JustStarted(j) => JustStarted(j)'
    BY <1>1, <1>2 DEF JustStarted, Return, IInv, RequestInv, RequestTypeOK
  <1>10. KnownInv'
    BY <1>1, <1>4, <1>9 DEF IInv, JobInv, KnownInv
  <1>11. StartingInv'
    BY <1>1, <1>2, <1>3, <1>4 DEF IInv, JobInv, StartingInv
  <1>12. RemovalOK(r)'
    BY <1>1, <1>2, <1>3, <1>4 DEF RemovalOK, Consistent, Return, IInv, RequestInv, RequestTypeOK
  <1>13. CallOK(r)'
    BY <1>1, <1>2, <1>12 DEF CallOK, PollCalls
  <1>14. CallInv'
    BY <1>1, <1>2, <1>13, HolderCalls DEF IInv, Return, RequestInv, RequestTypeOK
  <1> QED
    BY <1>6, <1>7, <1>8, <1>10, <1>11, <1>14 DEF IInv, JobInv

\* Every step of the executor's thread.
LEMMA ExecutorStepInv ==
    ASSUME IInv, ExecutorStep
    PROVE  IInv'
  BY TakeTaskInv, StartEmplaceInv, StartSpawnInv, TryGetSnapshotInv, TryGetResultInv, CancelInv,
     RemoveEraseInv, RemoveJoinInv, ReadCatalogInv
  DEF ExecutorStep, RunTask

-----------------------------------------------------------------------------
(* The request threads                                                     *)

\* What a request may do to the coordinator's job on its way.
Keeps(r) ==
    /\ \A j \in JobIds : jobs[j].known /\ j = activeJobId => j = activeJobId'
    /\ removing # None => activeJobId' = activeJobId
    /\ call[r] = "StartInpxScan" /\ pc[r] = "returned" /\ reply[r].job # None
         => activeJobId' = reply[r].job

\* A request goes on to its next call, or is done.
LEMMA RequestStepInv ==
    ASSUME IInv, NEW r \in Requests, pc[r] # "wait",
           NEW p \in {"idle", "lock", "submit"}, NEW c \in Calls \cup {None},
           pc' = [pc EXCEPT ![r] = p], call' = [call EXCEPT ![r] = c],
           reply' = reply \/ reply' = [reply EXCEPT ![r] = NoReply],
           p = "submit" => c \in Calls,
           mutex' = mutex \/ (mutex \in {r, None} /\ mutex' \in {r, None}),
           p = "submit" /\ c # "ListBooks" <=> mutex' = r,
           UNCHANGED <<process, jobs, dirs, nextJobId, queue, active, starting, removing>>,
           mutex \in {r, None} \/ UNCHANGED <<activeJobId, progress>>,
           progress' \in [job: JobIds \cup {None}, status: Values, resultJob: JobIds \cup {None},
                          result: Values],
           activeJobId' \in JobIds \cup {None},
           Keeps(r), CallOK(r)', ReportInv'
    PROVE  IInv'
  <1>1. NoReply \in [value: Values, job: JobIds \cup {None}]
    BY DEF NoReply, Values
  <1>2. /\ reply' \in [Requests -> [value: Values, job: JobIds \cup {None}]]
        /\ \A q \in Requests \ {r} : pc'[q] = pc[q] /\ call'[q] = call[q] /\ reply'[q] = reply[q]
    BY <1>1 DEF IInv, RequestInv, RequestTypeOK
  <1>3. RequestInv'
    BY <1>2, RequestMoves DEF IInv
  <1>4. JobInv'
    BY <1>2, JobsUntouched DEF IInv, Keeps
  <1>5. CallInv'
    BY <1>2, OtherCalls DEF IInv, CallInv
  <1> QED
    BY <1>3, <1>4, <1>5 DEF IInv

\* A request arrives.
LEMMA ReceiveInv ==
    ASSUME IInv, NEW r \in Requests, NEW o \in Operations, Receive(r, o)
    PROVE  IInv'
  <1>1. /\ pc[r] = "idle"
        /\ UNCHANGED <<process, jobs, dirs, nextJobId, queue, active, starting, removing, reply, answer,
                       mutex, activeJobId, progress>>
    BY DEF Receive, serviceVars, execVars, coordVars
  <1>2. mutex # r /\ Keeps(r) /\ ReportInv'
    BY <1>1, ReportUnchanged, ServiceAssumption DEF IInv, RequestInv, LockInv, Calling, Keeps
  <1>3. PICK p \in {"lock", "submit"}, c \in Calls \cup {None} :
            /\ pc' = [pc EXCEPT ![r] = p] /\ call' = [call EXCEPT ![r] = c]
            /\ p = "submit" => c = "ListBooks"
    <2>1. CASE o = "ListBooks"
      BY <2>1 DEF Receive, GoCall, Calls
    <2>2. CASE o # "ListBooks"
      <3>1. pc' = [pc EXCEPT ![r] = "lock"] /\ call' = [call EXCEPT ![r] = call[r]]
        BY <2>2 DEF Receive, IInv, RequestInv, RequestTypeOK
      <3>2. call[r] \in Calls \cup {None}
        BY DEF IInv, RequestInv, RequestTypeOK
      <3> QED
        BY <3>1, <3>2
    <2> QED
      BY <2>1, <2>2
  <1>4. CallOK(r)'
    BY <1>3 DEF CallOK, Calling, PollCalls, IInv, RequestInv, RequestTypeOK
  <1>5. /\ progress' \in [job: JobIds \cup {None}, status: Values, resultJob: JobIds \cup {None}, result: Values]
        /\ activeJobId' \in JobIds \cup {None}
    BY <1>1 DEF IInv, RequestInv, RequestTypeOK, JobInv, JobTypeOK
  <1>6. p \in {"idle", "lock", "submit"} /\ (p = "submit" => c \in Calls)
        /\ (p = "submit" /\ c # "ListBooks" <=> mutex' = r)
    BY <1>1, <1>2, <1>3 DEF Calls
  <1> QED
    BY <1>1, <1>2, <1>3, <1>4, <1>5, <1>6, RequestStepInv

\* A request takes the coordinator's mutex.
LEMMA LockStepInv ==
    ASSUME IInv, NEW r \in Requests, Lock(r)
    PROVE  IInv'
  <1>1. /\ pc[r] = "lock" /\ mutex = None
        /\ UNCHANGED <<process, jobs, dirs, nextJobId, queue, active, starting, removing, reply,
                       activeJobId, progress>>
    BY DEF Lock, serviceVars, execVars
  <1>2. mutex # r /\ Keeps(r)
    BY <1>1, ServiceAssumption DEF Keeps
  <1>3. /\ progress' \in [job: JobIds \cup {None}, status: Values, resultJob: JobIds \cup {None}, result: Values]
        /\ activeJobId' \in JobIds \cup {None}
    BY <1>1 DEF IInv, RequestInv, RequestTypeOK, JobInv, JobTypeOK
  <1>4. CASE activeJobId = None /\ op[r] # "StartScan"
    <2>1. /\ pc' = [pc EXCEPT ![r] = "idle"] /\ call' = [call EXCEPT ![r] = None] /\ mutex' = mutex
          /\ \/ answer' = [kind |-> "Progress", progress |-> progress]
             \/ answer' = Answered("NotFound")
      BY <1>1, <1>2, <1>4 DEF Lock, Finish, lockVars
    <2>2. ReportInv'
      BY <1>1, <1>4, <2>1 DEF ReportInv, IInv, Consistent, Answered
    <2>3. CallOK(r)'
      BY <2>1 DEF CallOK, Calling, IInv, RequestInv, RequestTypeOK
    <2> QED
      BY <1>1, <1>2, <1>3, <2>1, <2>2, <2>3, RequestStepInv
  <1>5. CASE ~(activeJobId = None /\ op[r] # "StartScan")
    <2>1. PICK c \in {"CancelJob", "StartInpxScan", "GetSnapshot"} :
            /\ pc' = [pc EXCEPT ![r] = "submit"] /\ call' = [call EXCEPT ![r] = c]
            /\ c = "StartInpxScan" <=> activeJobId = None
      <3>1. CASE op[r] = "CancelActiveScan"
        BY <1>5, <3>1 DEF Lock, GoCall
      <3>2. CASE op[r] = "StartScan" /\ activeJobId = None
        BY <1>5, <3>2 DEF Lock, GoCall
      <3>3. CASE op[r] # "CancelActiveScan" /\ ~(op[r] = "StartScan" /\ activeJobId = None)
        BY <1>5, <3>3 DEF Lock, GoCall
      <3> QED
        BY <3>1, <3>2, <3>3
    <2>2. mutex' = r /\ UNCHANGED answer
      BY <1>5 DEF Lock
    <2>3. ReportInv'
      BY <1>1, <2>2, ReportUnchanged DEF IInv
    <2>4. CallOK(r)'
      BY <1>1, <2>1 DEF CallOK, Calling, SnapshotOK, PollCalls, IInv, RequestInv, RequestTypeOK
    <2> QED
      BY <1>1, <1>2, <1>3, <2>1, <2>2, <2>3, <2>4, RequestStepInv DEF Calls, PollCalls
  <1> QED
    BY <1>4, <1>5

\* A service call is handed to the executor.
LEMMA SubmitInv ==
    ASSUME IInv, NEW r \in Requests, Submit(r)
    PROVE  IInv'
  <1>1. /\ pc[r] = "submit"
        /\ UNCHANGED <<process, jobs, dirs, nextJobId, active, starting, removing, reply, activeJobId, progress>>
    BY DEF Submit, serviceVars
  <1>2. CASE Len(queue) >= MaxQueueDepth
    <2>1. /\ pc' = [pc EXCEPT ![r] = "idle"] /\ call' = [call EXCEPT ![r] = None]
          /\ answer' = Answered("Overload") /\ UNCHANGED queue
          /\ IF mutex = r THEN mutex' = None ELSE mutex' = mutex
      BY <1>2 DEF Submit, Finish, lockVars
    <2>2. ReportInv'
      BY <1>1, <2>1 DEF ReportInv, IInv, Consistent, Answered
    <2>3. CallOK(r)'
      BY <2>1 DEF CallOK, Calling, IInv, RequestInv, RequestTypeOK
    <2>4. /\ progress' \in [job: JobIds \cup {None}, status: Values, resultJob: JobIds \cup {None}, result: Values]
          /\ activeJobId' \in JobIds \cup {None}
          /\ Keeps(r) /\ mutex' # r
      BY <1>1, <2>1, ServiceAssumption DEF IInv, RequestInv, RequestTypeOK, JobInv, JobTypeOK, Keeps
    <2> QED
      BY <1>1, <2>1, <2>2, <2>3, <2>4, RequestStepInv
  <1>3. CASE ~(Len(queue) >= MaxQueueDepth)
    <2>1. /\ pc' = [pc EXCEPT ![r] = "wait"] /\ queue' = Append(queue, r)
          /\ UNCHANGED <<call, mutex, answer>>
      BY <1>3 DEF Submit, lockVars
    <2>2. RequestInv' /\ ReportInv'
      BY <1>1, <2>1, RequestQueued, ReportUnchanged DEF IInv
    <2>3. \A q \in Requests : Calling(q)' = Calling(q) /\ (pc'[q] = "returned" <=> pc[q] = "returned")
      BY <1>1, <2>1 DEF Calling, IInv, RequestInv, RequestTypeOK
    <2>4. CallInv'
      BY <1>1, <2>1, <2>3 DEF IInv, CallInv, CallOK, SnapshotOK, ResultOK, RemovalOK, Consistent
    <2>5. JobInv'
      BY <1>1, <2>1, <2>3 DEF IInv, JobInv, JobTypeOK, WorkerInv, KnownInv, JustStarted, StartingInv,
         RemovingInv, DirsInv
    <2> QED
      BY <2>2, <2>4, <2>5 DEF IInv
  <1> QED
    BY <1>2, <1>3

ProgressType ==
    [job: JobIds \cup {None}, status: Values, resultJob: JobIds \cup {None}, result: Values]

\* A request whose call has come back.
LEMMA ReturnedFacts ==
    ASSUME IInv, NEW r \in Requests, pc[r] = "returned"
    PROVE  /\ Calling(r) /\ call[r] \in Calls /\ CallOK(r)
           /\ call[r] # "ListBooks" => mutex = r /\ starting = None /\ removing = None
           /\ call[r] \in PollCalls => activeJobId \in JobIds /\ activeJobId # None
           /\ progress \in ProgressType /\ activeJobId \in JobIds \cup {None}
  <1>1. Calling(r) /\ call[r] \in Calls /\ CallOK(r)
    BY DEF IInv, RequestInv, LockInv, CallInv, Calling
  <1>2. call[r] # "ListBooks" => mutex = r /\ starting = None /\ removing = None
    BY <1>1, Holder, RunningCall DEF IInv
  <1> QED
    BY <1>1, <1>2 DEF IInv, RequestInv, RequestTypeOK, JobInv, JobTypeOK, CallOK, ProgressType

\* The poll ends with the job it was for, still unfinished, or without any.
LEMMA AfterPollInv ==
    ASSUME IInv, NEW r \in Requests, pc[r] = "returned", call[r] \in {"GetSnapshot", "RemoveJob"},
           NEW job \in JobIds \cup {None}, NEW p \in ProgressType, AfterPoll(r, job, p),
           reply' = [reply EXCEPT ![r] = NoReply],
           UNCHANGED <<process, jobs, dirs, nextJobId, queue, active, starting, removing>>,
           Consistent(p),
           \/ job = None /\ ~jobs[activeJobId].known
           \/ job = activeJobId /\ p.status \notin Terminal
    PROVE  IInv'
  <1>1. mutex = r /\ removing = None /\ activeJobId \in JobIds /\ activeJobId # None
    BY ReturnedFacts DEF PollCalls
  <1>2. activeJobId' = job /\ progress' = p
    BY DEF AfterPoll
  <1>3. Keeps(r)
    BY <1>1, <1>2 DEF Keeps
  <1>4. /\ progress' \in [job: JobIds \cup {None}, status: Values, resultJob: JobIds \cup {None}, result: Values]
        /\ activeJobId' \in JobIds \cup {None}
    BY <1>2 DEF ProgressType
  <1>5. ASSUME NEW a, Finish(r, a), a = Answered("Conflict") \/ a = Answered("NotFound")
                                    \/ a = [kind |-> "Progress", progress |-> p]
        PROVE  IInv'
    <2>1. /\ pc' = [pc EXCEPT ![r] = "idle"] /\ call' = [call EXCEPT ![r] = None]
          /\ mutex' = None /\ answer' = a
      BY <1>1, <1>5 DEF Finish
    <2>2. ReportInv'
      BY <1>2, <1>5, <2>1 DEF ReportInv, Consistent, Answered
    <2>3. CallOK(r)'
      BY <2>1 DEF CallOK, Calling, IInv, RequestInv, RequestTypeOK
    <2> QED
      BY <1>1, <1>3, <1>4, <2>1, <2>2, <2>3, RequestStepInv, ServiceAssumption
  <1>6. CASE ~HasActiveScan(job, p) /\ GoCall(r, "StartInpxScan") /\ UNCHANGED <<answer, mutex>>
    <2>1. job = None
      BY <1>6 DEF HasActiveScan
    <2>2. pc' = [pc EXCEPT ![r] = "submit"] /\ call' = [call EXCEPT ![r] = "StartInpxScan"]
      BY <1>6 DEF GoCall
    <2>3. ReportInv'
      BY <1>2, <1>6 DEF ReportInv, IInv, Consistent
    <2>4. CallOK(r)'
      BY <1>2, <2>1, <2>2 DEF CallOK, PollCalls, IInv, RequestInv, RequestTypeOK
    <2> QED
      BY <1>1, <1>3, <1>4, <1>6, <2>2, <2>3, <2>4, RequestStepInv DEF Calls
  <1> QED
    BY <1>5, <1>6 DEF AfterPoll

\* The coordinator takes a snapshot from the executor.
LEMMA OnSnapshotInv ==
    ASSUME IInv, NEW r \in Requests, pc[r] = "returned", OnSnapshot(r),
           reply' = [reply EXCEPT ![r] = NoReply],
           UNCHANGED <<process, jobs, dirs, nextJobId, queue, active, starting, removing>>
    PROVE  IInv'
  <1> DEFINE s == reply[r].value
             p == [progress EXCEPT !.job = activeJobId, !.status = s]
             u == [p EXCEPT !.resultJob = None, !.result = None]
  <1>1. call[r] = "GetSnapshot"
    BY DEF OnSnapshot
  <1>2. /\ mutex = r /\ removing = None /\ activeJobId \in JobIds /\ activeJobId # None
        /\ progress \in ProgressType /\ SnapshotOK(r)
    BY <1>1, ReturnedFacts DEF PollCalls, CallOK
  <1>3. s \in Values
    BY DEF IInv, RequestInv, RequestTypeOK
  <1>4. /\ p \in ProgressType /\ p.job = activeJobId /\ p.status = s
        /\ p.resultJob = progress.resultJob /\ p.result = progress.result
    BY <1>2, <1>3 DEF ProgressType
  <1>5. None \notin Terminal /\ None \in Values
    BY ServiceAssumption DEF Terminal, Values
  <1>6. CASE s = None
    <2>1. AfterPoll(r, None, NoProgress)
      BY <1>5, <1>6 DEF OnSnapshot
    <2>2. ~jobs[activeJobId].known
      BY <1>2, <1>6 DEF SnapshotOK
    <2>3. NoProgress \in ProgressType /\ Consistent(NoProgress)
      BY <1>5 DEF NoProgress, ProgressType, Consistent
    <2> QED
      BY <1>1, <2>1, <2>2, <2>3, AfterPollInv
  <1>7. CASE s # None /\ s \in Terminal
    <2>1. /\ progress' = p /\ GoCall(r, "GetResult") /\ UNCHANGED <<activeJobId, answer, mutex>>
      BY <1>7 DEF OnSnapshot, lockVars
    <2>2. pc' = [pc EXCEPT ![r] = "submit"] /\ call' = [call EXCEPT ![r] = "GetResult"]
      BY <2>1 DEF GoCall
    <2>3. jobs[activeJobId].known /\ jobs[activeJobId].status = s
      BY <1>2, <1>7 DEF SnapshotOK
    <2> HIDE DEF p, s
    <2>4. ResultOK(r)'
      BY <1>4, <1>7, <2>1, <2>2, <2>3 DEF ResultOK, IInv, RequestInv, RequestTypeOK
    <2>5. CallOK(r)'
      BY <1>2, <2>1, <2>2, <2>4 DEF CallOK, PollCalls, IInv, RequestInv, RequestTypeOK
    <2>6. ReportInv'
      BY <1>2, <2>1 DEF ReportInv, IInv, Consistent
    <2>7. /\ progress' \in [job: JobIds \cup {None}, status: Values, resultJob: JobIds \cup {None}, result: Values]
          /\ activeJobId' \in JobIds \cup {None} /\ Keeps(r)
      BY <1>1, <1>2, <1>4, <2>1 DEF ProgressType, Keeps
    <2> QED
      BY <1>2, <2>1, <2>2, <2>5, <2>6, <2>7, RequestStepInv DEF Calls, PollCalls
  <1>8. CASE s # None /\ s \notin Terminal
    <2>1. AfterPoll(r, activeJobId, u)
      BY <1>8 DEF OnSnapshot
    <2> HIDE DEF p
    <2>2. u \in ProgressType /\ u.status = s /\ u.resultJob = None /\ u.result = None
      BY <1>4, <1>5 DEF ProgressType
    <2> HIDE DEF u, s
    <2>3. Consistent(u)
      BY <1>8, <2>2 DEF Consistent
    <2> QED
      BY <1>1, <1>2, <1>8, <2>1, <2>2, <2>3, AfterPollInv
  <1> QED
    BY <1>6, <1>7, <1>8

\* The coordinator takes a result.
LEMMA OnResultInv ==
    ASSUME IInv, NEW r \in Requests, pc[r] = "returned", OnResult(r),
           reply' = [reply EXCEPT ![r] = NoReply],
           UNCHANGED <<process, jobs, dirs, nextJobId, queue, active, starting, removing>>
    PROVE  IInv'
  <1>1. /\ call[r] = "GetResult" /\ GoCall(r, "RemoveJob") /\ UNCHANGED <<activeJobId, answer, mutex>>
        /\ progress' = [progress EXCEPT !.resultJob = IF reply[r].value = None THEN None ELSE activeJobId,
                                        !.result = reply[r].value]
    BY DEF OnResult, lockVars
  <1>2. /\ mutex = r /\ removing = None /\ activeJobId \in JobIds /\ activeJobId # None
        /\ progress \in ProgressType /\ ResultOK(r)
    BY <1>1, ReturnedFacts DEF PollCalls, CallOK
  <1>3. /\ jobs[activeJobId].known /\ progress.status \in Terminal
        /\ jobs[activeJobId].status = progress.status
        /\ progress.job = activeJobId /\ reply[r].value = progress.status /\ progress.status # None
    BY <1>2, ServiceAssumption DEF ResultOK, Terminal
  <1>4. /\ progress' \in ProgressType /\ progress'.status = progress.status
        /\ progress'.job = activeJobId /\ progress'.resultJob = activeJobId
        /\ progress'.result = progress.status
    BY <1>1, <1>2, <1>3 DEF ProgressType
  <1>5. Consistent(progress')
    BY <1>3, <1>4 DEF Consistent
  <1>6. pc' = [pc EXCEPT ![r] = "submit"] /\ call' = [call EXCEPT ![r] = "RemoveJob"]
    BY <1>1 DEF GoCall
  <1>7. RemovalOK(r)'
    BY <1>1, <1>2, <1>3, <1>5, <1>6 DEF RemovalOK, Consistent, IInv, RequestInv, RequestTypeOK
  <1>8. CallOK(r)'
    BY <1>1, <1>2, <1>6, <1>7 DEF CallOK, PollCalls, IInv, RequestInv, RequestTypeOK
  <1>9. ReportInv'
    BY <1>1, <1>2 DEF ReportInv, IInv, Consistent
  <1>10. /\ progress' \in [job: JobIds \cup {None}, status: Values, resultJob: JobIds \cup {None}, result: Values]
         /\ activeJobId' \in JobIds \cup {None} /\ Keeps(r)
    BY <1>1, <1>2, <1>4 DEF ProgressType, Keeps
  <1> QED
    BY <1>1, <1>2, <1>6, <1>8, <1>9, <1>10, RequestStepInv DEF Calls, PollCalls

\* The coordinator hears of a removal.
LEMMA OnRemovedInv ==
    ASSUME IInv, NEW r \in Requests, pc[r] = "returned", OnRemoved(r),
           reply' = [reply EXCEPT ![r] = NoReply],
           UNCHANGED <<process, jobs, dirs, nextJobId, queue, active, starting, removing>>
    PROVE  IInv'
  <1>1. call[r] = "RemoveJob" /\ AfterPoll(r, None, progress)
    BY DEF OnRemoved
  <1>2. progress \in ProgressType /\ RemovalOK(r)
    BY <1>1, ReturnedFacts DEF CallOK
  <1>3. Consistent(progress) /\ ~jobs[activeJobId].known
    BY <1>2 DEF RemovalOK
  <1> QED
    BY <1>1, <1>2, <1>3, AfterPollInv

\* The coordinator hears of a start.
LEMMA OnStartedInv ==
    ASSUME IInv, NEW r \in Requests, pc[r] = "returned", OnStarted(r),
           reply' = [reply EXCEPT ![r] = NoReply],
           UNCHANGED <<process, jobs, dirs, nextJobId, queue, active, starting, removing>>
    PROVE  IInv'
  <1>1. call[r] = "StartInpxScan" /\ UNCHANGED progress
    BY DEF OnStarted
  <1>2. mutex = r /\ removing = None /\ progress \in ProgressType /\ activeJobId = None
    BY <1>1, ReturnedFacts DEF CallOK
  <1>3. reply[r].job \in JobIds \cup {None} /\ None \notin JobIds
    BY ServiceAssumption DEF IInv, RequestInv, RequestTypeOK, JobIds
  <1>4. progress' \in [job: JobIds \cup {None}, status: Values, resultJob: JobIds \cup {None}, result: Values]
    BY <1>1, <1>2 DEF ProgressType
  <1>5. CASE reply[r].job = None
    <2>1. /\ Finish(r, Answered("Error")) /\ UNCHANGED activeJobId
      BY <1>5 DEF OnStarted
    <2>2. /\ pc' = [pc EXCEPT ![r] = "idle"] /\ call' = [call EXCEPT ![r] = None]
          /\ mutex' = None /\ answer' = Answered("Error")
      BY <1>2, <2>1 DEF Finish
    <2>3. ReportInv'
      BY <1>1, <2>1, <2>2 DEF ReportInv, IInv, Consistent, Answered
    <2>4. CallOK(r)'
      BY <2>2 DEF CallOK, Calling, IInv, RequestInv, RequestTypeOK
    <2>5. Keeps(r) /\ activeJobId' \in JobIds \cup {None}
      BY <1>2, <1>5, <2>1 DEF Keeps
    <2> QED
      BY <1>2, <1>4, <2>2, <2>3, <2>4, <2>5, RequestStepInv, ServiceAssumption
  <1>6. CASE reply[r].job # None
    <2>1. activeJobId' = reply[r].job /\ GoCall(r, "GetSnapshot") /\ UNCHANGED <<answer, mutex>>
      BY <1>6 DEF OnStarted, lockVars
    <2>2. pc' = [pc EXCEPT ![r] = "submit"] /\ call' = [call EXCEPT ![r] = "GetSnapshot"]
      BY <2>1 DEF GoCall
    <2>3. ReportInv'
      BY <1>1, <1>6, <2>1 DEF ReportInv, IInv, Consistent
    <2>4. CallOK(r)'
      BY <1>6, <2>1, <2>2 DEF CallOK, SnapshotOK, PollCalls, IInv, RequestInv, RequestTypeOK
    <2>5. Keeps(r) /\ activeJobId' \in JobIds \cup {None}
      BY <1>2, <1>3, <2>1 DEF Keeps
    <2> QED
      BY <1>2, <1>4, <2>1, <2>2, <2>3, <2>4, <2>5, RequestStepInv DEF Calls, PollCalls
  <1> QED
    BY <1>5, <1>6

\* The coordinator hears of a cancellation.
LEMMA OnCancelledInv ==
    ASSUME IInv, NEW r \in Requests, pc[r] = "returned", OnCancelled(r),
           reply' = [reply EXCEPT ![r] = NoReply],
           UNCHANGED <<process, jobs, dirs, nextJobId, queue, active, starting, removing>>
    PROVE  IInv'
  <1>1. /\ call[r] = "CancelJob" /\ GoCall(r, "GetSnapshot")
        /\ UNCHANGED <<activeJobId, progress, mutex, answer>>
    BY DEF OnCancelled
  <1>2. mutex = r /\ activeJobId \in JobIds /\ activeJobId # None /\ progress \in ProgressType
    BY <1>1, ReturnedFacts DEF PollCalls
  <1>3. pc' = [pc EXCEPT ![r] = "submit"] /\ call' = [call EXCEPT ![r] = "GetSnapshot"]
    BY <1>1 DEF GoCall
  <1>4. ReportInv'
    BY <1>1, ReportUnchanged DEF IInv
  <1>5. CallOK(r)'
    BY <1>1, <1>2, <1>3 DEF CallOK, SnapshotOK, PollCalls, IInv, RequestInv, RequestTypeOK
  <1>6. /\ progress' \in [job: JobIds \cup {None}, status: Values, resultJob: JobIds \cup {None}, result: Values]
        /\ activeJobId' \in JobIds \cup {None} /\ Keeps(r)
    BY <1>1, <1>2 DEF ProgressType, Keeps
  <1> QED
    BY <1>1, <1>2, <1>3, <1>4, <1>5, <1>6, RequestStepInv DEF Calls, PollCalls

\* A request for books is answered.
LEMMA OnListedInv ==
    ASSUME IInv, NEW r \in Requests, pc[r] = "returned", OnListed(r),
           reply' = [reply EXCEPT ![r] = NoReply],
           UNCHANGED <<process, jobs, dirs, nextJobId, queue, active, starting, removing>>
    PROVE  IInv'
  <1>1. call[r] = "ListBooks" /\ Finish(r, Answered("Books")) /\ UNCHANGED <<activeJobId, progress>>
    BY DEF OnListed
  <1>2. mutex # r
    BY <1>1 DEF IInv, RequestInv, LockInv
  <1>3. /\ pc' = [pc EXCEPT ![r] = "idle"] /\ call' = [call EXCEPT ![r] = None]
        /\ mutex' = mutex /\ answer' = Answered("Books")
    BY <1>1, <1>2 DEF Finish, lockVars
  <1>4. ReportInv'
    BY <1>1, <1>3 DEF ReportInv, IInv, Consistent, Answered
  <1>5. CallOK(r)'
    BY <1>3 DEF CallOK, Calling, IInv, RequestInv, RequestTypeOK
  <1>6. /\ progress' \in [job: JobIds \cup {None}, status: Values, resultJob: JobIds \cup {None}, result: Values]
        /\ activeJobId' \in JobIds \cup {None} /\ Keeps(r)
    BY <1>1 DEF IInv, RequestInv, RequestTypeOK, JobInv, JobTypeOK, Keeps
  <1> QED
    BY <1>1, <1>2, <1>3, <1>4, <1>5, <1>6, RequestStepInv

\* Every step of a request thread.
LEMMA RequestThreadInv ==
    ASSUME IInv, NEW r \in Requests, RequestStep(r)
    PROVE  IInv'
  <1>1. ASSUME Resume(r) PROVE IInv'
    <2>1. /\ pc[r] = "returned" /\ reply' = [reply EXCEPT ![r] = NoReply]
          /\ UNCHANGED <<process, jobs, dirs, nextJobId, queue, active, starting, removing>>
      BY <1>1 DEF Resume, serviceVars, execVars
    <2> QED
      BY <1>1, <2>1, OnSnapshotInv, OnResultInv, OnRemovedInv, OnStartedInv, OnCancelledInv, OnListedInv
      DEF Resume
  <1> QED
    BY <1>1, LockStepInv, SubmitInv DEF RequestStep

-----------------------------------------------------------------------------
(* The life of the process                                                 *)

\* Nothing runs and nothing is kept.
Blank ==
    /\ process = "dead"
    /\ jobs = [j \in JobIds |-> NoJob] /\ nextJobId = 1
    /\ queue = <<>> /\ active = None /\ starting = None /\ removing = None
    /\ pc = [r \in Requests |-> "idle"] /\ call = [r \in Requests |-> None]
    /\ reply = [r \in Requests |-> NoReply] /\ answer = NoAnswer
    /\ mutex = None /\ activeJobId = None /\ progress = NoProgress
    /\ dirs \subseteq JobIds

\* No job, no request.
LEMMA BlankInv == Blank => IInv
  <1> SUFFICES ASSUME Blank PROVE IInv
    OBVIOUS
  <1>1. /\ NoJob \in JobRecord /\ ~NoJob.known /\ NoJob.status = "Pending" /\ NoJob.result = None
        /\ NoJob.worker = "None" /\ ~NoJob.stop
    BY DEF NoJob, JobRecord, Statuses
  <1>2. NoReply \in [value: Values, job: JobIds \cup {None}]
    BY DEF NoReply, Values
  <1>3. /\ NoProgress \in ProgressType /\ Consistent(NoProgress)
    BY ServiceAssumption DEF NoProgress, ProgressType, Values, Consistent, Terminal
  <1>4. RequestInv
    <2>1. RequestTypeOK
      BY <1>2, <1>3 DEF Blank, RequestTypeOK, ProgressType
    <2>2. ExecutorInv
      BY DEF Blank, ExecutorInv
    <2>3. LockInv
      BY ServiceAssumption DEF Blank, LockInv, Calling
    <2> QED
      BY <2>1, <2>2, <2>3 DEF RequestInv
  <1>5. JobInv
    <2>1. \A j \in JobIds : jobs[j] = NoJob
      BY DEF Blank
    <2>2. JobTypeOK
      BY <1>1 DEF Blank, JobTypeOK
    <2>3. WorkerInv /\ KnownInv
      BY <1>1, <2>1 DEF WorkerInv, KnownInv, Terminal, Ended, Live
    <2>4. StartingInv /\ RemovingInv /\ DirsInv
      BY <1>1, <2>1 DEF Blank, StartingInv, RemovingInv, DirsInv
    <2> QED
      BY <2>2, <2>3, <2>4 DEF JobInv
  <1>6. CallInv
    BY DEF Blank, CallInv, CallOK, Calling
  <1>7. ReportInv
    BY <1>3, ServiceAssumption DEF Blank, ReportInv, NoAnswer
  <1> QED
    BY <1>4, <1>5, <1>6, <1>7 DEF IInv

\* The first process.
LEMMA ServiceInit == Init => IInv
  BY BlankInv DEF Init, Blank

\* The process ends.
LEMMA DeathInv ==
    ASSUME IInv, EndClose \/ Crash
    PROVE  IInv'
  <1>1. Blank'
    BY DEF EndClose, Crash, ResetMemory, Blank, IInv, JobInv, JobTypeOK
  <1> QED
    BY <1>1, BlankInv, PTL

\* A process starts on what the one before has left.
LEMMA BootInv ==
    ASSUME IInv, Boot
    PROVE  IInv'
  <1>1. /\ UNCHANGED <<jobs, nextJobId, queue, active, starting, removing, pc, call, reply, mutex,
                       activeJobId, progress, answer>>
        /\ dirs' = {}
    BY DEF Boot, execVars, coordVars, clientVars
  <1>2. JobInv'
    BY <1>1 DEF IInv, JobInv, JobTypeOK, WorkerInv, KnownInv, JustStarted, StartingInv, RemovingInv, DirsInv
  <1>3. CallInv'
    BY <1>1 DEF IInv, CallInv, CallOK, Calling, SnapshotOK, ResultOK, RemovalOK, Consistent
  <1> QED
    BY <1>1, <1>2, <1>3, RequestsUnchanged, ReportUnchanged DEF IInv

\* When all requests are idle the executor is too, and the coordinator knows the one job.
LEMMA IdleFacts ==
    ASSUME IInv, \A r \in Requests : pc[r] = "idle"
    PROVE  /\ active = None /\ starting = None /\ removing = None
           /\ \A j \in JobIds : jobs[j].known => j = activeJobId /\ jobs[j].worker # "None"
  <1>1. active = None
    BY DEF IInv, RequestInv, ExecutorInv
  <1>2. starting = None /\ removing = None
    BY <1>1 DEF IInv, JobInv, StartingInv, RemovingInv
  <1>3. None \notin JobIds
    BY ServiceAssumption DEF JobIds
  <1> QED
    BY <1>1, <1>2, <1>3 DEF IInv, JobInv, KnownInv, JustStarted

\* The host begins to close.
LEMMA BeginCloseInv ==
    ASSUME IInv, BeginClose
    PROVE  IInv'
  <1>1. /\ UNCHANGED <<dirs, nextJobId, queue, active, starting, removing, pc, call, reply, mutex,
                       activeJobId, progress, answer>>
        /\ \A r \in Requests : pc[r] = "idle"
        /\ process # "dead"
        /\ jobs' = [j \in JobIds |-> IF jobs[j].known THEN [jobs[j] EXCEPT !.stop = TRUE] ELSE jobs[j]]
    BY DEF BeginClose, execVars, coordVars, clientVars
  <1>2. jobs' \in [JobIds -> JobRecord]
    <2>1. jobs \in [JobIds -> JobRecord]
      BY DEF IInv, JobInv, JobTypeOK
    <2>2. ASSUME NEW j \in JobIds PROVE [jobs[j] EXCEPT !.stop = TRUE] \in JobRecord
      BY <2>1 DEF JobRecord
    <2> QED
      BY <1>1, <2>1, <2>2
  <1>3. \A j \in JobIds : /\ jobs'[j].known = jobs[j].known /\ jobs'[j].status = jobs[j].status
                          /\ jobs'[j].result = jobs[j].result /\ jobs'[j].worker = jobs[j].worker
                          /\ jobs'[j].outcome = jobs[j].outcome
                          /\ jobs'[j].stop = (jobs[j].known \/ jobs[j].stop)
    BY <1>1 DEF IInv, JobInv, JobTypeOK, JobRecord
  <1>4. WorkerInv'
    BY <1>1, <1>3, IdleFacts DEF IInv, JobInv, WorkerInv
  <1>5. JobInv'
    <2>1. JobTypeOK' /\ RemovingInv' /\ StartingInv'
      BY <1>1, <1>2, <1>3 DEF IInv, JobInv, JobTypeOK, StartingInv, RemovingInv
    <2>2. DirsInv' /\ KnownInv'
      BY <1>1, <1>3 DEF IInv, JobInv, JobTypeOK, KnownInv, JustStarted, DirsInv
    <2> QED
      BY <1>4, <2>1, <2>2 DEF JobInv
  <1>6. CallInv'
    BY <1>1 DEF CallInv, CallOK, Calling
  <1> QED
    BY <1>1, <1>5, <1>6, RequestsUnchanged, ReportUnchanged DEF IInv

\* Every step preserves the invariant.
LEMMA ServiceStep ==
    ASSUME IInv, [Next]_vars
    PROVE  IInv'
  <1>1. CASE UNCHANGED vars
    <2>1. JobInv'
      BY <1>1 DEF vars, IInv, JobInv, JobTypeOK, WorkerInv, KnownInv, JustStarted, StartingInv,
         RemovingInv, DirsInv
    <2>2. CallInv'
      BY <1>1 DEF vars, IInv, CallInv, CallOK, Calling, SnapshotOK, ResultOK, RemovalOK, Consistent
    <2> QED
      BY <1>1, <2>1, <2>2, RequestsUnchanged, ReportUnchanged DEF IInv, vars
  <1> QED
    BY <1>1, WorkerStepInv, ExecutorStepInv, RequestThreadInv, ReceiveInv, BeginCloseInv, DeathInv,
       BootInv DEF Next

-----------------------------------------------------------------------------
(* What the service promises                                               *)

\* The invariant of the job service, the executor and the coordinator holds in every state.
THEOREM Invariance == Spec => []IInv
  <1>1. IInv /\ [Next]_vars => IInv'
    BY ServiceStep
  <1> QED
    BY <1>1, ServiceInit, PTL DEF Spec

\* CServerScanCoordinator: wherever a full queue interrupts an operation, the coordinator
\* still has the job, or there is none, and no workspace is left without its job.
THEOREM JobNeverOrphaned == Spec => []NoOrphanedJob
  <1>1. IInv => NoOrphanedJob
    <2> SUFFICES ASSUME IInv, process = "running", mutex = None
                 PROVE  /\ \A j \in JobIds : jobs[j].known => j = activeJobId
                        /\ \A j \in dirs : j = activeJobId
      BY DEF NoOrphanedJob
    <2>1. \A r \in Requests : Calling(r) => call[r] = "ListBooks"
      BY ServiceAssumption DEF IInv, RequestInv, LockInv
    <2>2. active # None => call[active] = "ListBooks"
      BY <2>1 DEF IInv, RequestInv, ExecutorInv, Calling
    <2>3. starting = None /\ removing = None
      BY <2>2 DEF IInv, JobInv, StartingInv, RemovingInv
    <2>4. \A j \in JobIds : ~JustStarted(j) /\ j # None
      BY <2>1, ServiceAssumption DEF JustStarted, Calling, JobIds
    <2> QED
      BY <2>3, <2>4 DEF IInv, JobInv, JobTypeOK, KnownInv, DirsInv
  <1> QED
    BY <1>1, Invariance, PTL

\* PollProgressLocked: m_lastProgress, which two calls fill in, never pairs a scan with
\* the result of another one in an answer.
THEOREM ResultAlwaysMatches == Spec => []ReportedResultMatches
  <1>1. IInv => ReportedResultMatches
    BY DEF IInv, ReportInv, Consistent, ReportedResultMatches
  <1> QED
    BY <1>1, Invariance, PTL

-----------------------------------------------------------------------------
(* The service implements ScanLedger                                       *)

LedgerStates == [j \in JobIds |-> LedgerState(j)]
LedgerAsked  == {j \in JobIds : jobs[j].stop /\ LedgerState(j) = "running"}

\* The first process is an empty ledger.
LEMMA LedgerOfInit == Init => Ledger!Init
  <1> SUFFICES ASSUME Init PROVE Ledger!Init
    OBVIOUS
  <1>1. \A j \in JobIds : LedgerState(j) = "absent"
    BY DEF Init, LedgerState, NoJob
  <1> QED
    BY <1>1 DEF Ledger!Init

\* What a job's record says of its scan.
LEMMA LedgerStateOf ==
    ASSUME JobInv, NEW j \in JobIds
    PROVE  /\ LedgerState(j) = "absent" <=> jobs[j].worker = "None"
           /\ LedgerState(j) = "running" <=> jobs[j].worker \in Live
           /\ jobs[j].worker \in Ended => LedgerState(j) = jobs[j].status
           /\ j \in LedgerAsked <=> jobs[j].stop /\ jobs[j].worker \in Live
  <1>1. jobs[j].worker \in {"None"} \cup Live \cup Ended
    BY DEF JobInv, JobTypeOK, JobRecord
  <1>2. jobs[j].worker \in Ended => jobs[j].status \in Terminal
    BY DEF JobInv, WorkerInv
  <1> QED
    BY <1>1, <1>2 DEF LedgerState, LedgerAsked, Live, Ended, Terminal

\* A step that leaves the scans of the ledger as they are.
LEMMA LedgerStutters ==
    ASSUME JobInv, JobInv',
           \A j \in JobIds : /\ jobs'[j].worker = jobs[j].worker
                                \/ (jobs[j].worker \in Live /\ jobs'[j].worker \in Live)
                                \/ (jobs[j].worker \in Ended /\ jobs'[j].worker \in Ended)
                             /\ jobs[j].worker \in Ended => jobs'[j].status = jobs[j].status
                             /\ jobs[j].worker \in Live => jobs'[j].stop = jobs[j].stop
    PROVE  UNCHANGED Ledger!ledgerVars
  <1>1. \A j \in JobIds : LedgerState(j)' = LedgerState(j)
    <2> SUFFICES ASSUME NEW j \in JobIds PROVE LedgerState(j)' = LedgerState(j)
      OBVIOUS
    <2>1. CASE jobs[j].worker = "None"
      <3>1. jobs'[j].worker = "None"
        BY <2>1 DEF Live, Ended
      <3> QED
        BY <2>1, <3>1 DEF LedgerState
    <2>2. CASE jobs[j].worker \in Live
      <3>1. jobs'[j].worker \in Live
        BY <2>2 DEF Live, Ended
      <3> QED
        BY <2>2, <3>1 DEF LedgerState, Live
    <2>3. CASE jobs[j].worker \in Ended
      <3>1. jobs'[j].worker \in Ended /\ jobs'[j].status = jobs[j].status
        BY <2>3 DEF Live, Ended
      <3> QED
        BY <2>3, <3>1 DEF LedgerState, Ended
    <2> QED
      BY <2>1, <2>2, <2>3 DEF JobInv, JobTypeOK, JobRecord
  <1>2. \A j \in JobIds : LedgerState(j) = "running" => jobs'[j].stop = jobs[j].stop
    BY LedgerStateOf
  <1>3. LedgerStates' = LedgerStates
    BY <1>1 DEF LedgerStates
  <1>4. LedgerAsked' = LedgerAsked
    BY <1>1, <1>2 DEF LedgerAsked
  <1> QED
    BY <1>3, <1>4 DEF Ledger!ledgerVars, LedgerStates, LedgerAsked

\* PublishResult ends the scan; the other steps of a worker are not seen.
LEMMA LedgerOfWorker ==
    ASSUME IInv, IInv', NEW j \in JobIds, WorkerStep(j) \/ FinishScan(j)
    PROVE  [Ledger!Next]_(Ledger!ledgerVars)
  <1>1. CASE PublishRunning(j) \/ ThrowIfCancelled(j) \/ FinishScan(j)
    <2>1. \A i \in JobIds \ {j} : jobs'[i] = jobs[i]
      BY <1>1 DEF PublishRunning, ThrowIfCancelled, FinishScan, IInv, JobInv, JobTypeOK
    <2>2. jobs[j].worker \in Live /\ jobs'[j].worker \in Live /\ jobs'[j].stop = jobs[j].stop
      BY <1>1 DEF PublishRunning, ThrowIfCancelled, FinishScan, IInv, JobInv, JobTypeOK, JobRecord, Live
    <2>3. jobs[j].worker \notin Ended
      BY <2>2 DEF Live, Ended
    <2> QED
      BY <2>1, <2>2, <2>3, LedgerStutters DEF IInv
  <1>2. CASE PublishResult(j)
    <2>1. \A i \in JobIds \ {j} : jobs'[i] = jobs[i]
      BY <1>2 DEF PublishResult, IInv, JobInv, JobTypeOK
    <2>2. jobs[j].worker = "Leaving" /\ jobs'[j].worker = "Exited" /\ jobs'[j].status = jobs[j].outcome
      BY <1>2 DEF PublishResult, IInv, JobInv, JobTypeOK, JobRecord
    <2>3. PICK o \in Terminal : jobs'[j].status = o /\ (o = "Cancelled" => jobs[j].stop)
      BY <2>2 DEF IInv, JobInv, WorkerInv
    <2>4. /\ LedgerState(j) = "running" /\ LedgerState(j)' = o
          /\ \A i \in JobIds \ {j} : LedgerState(i)' = LedgerState(i)
      BY <2>1, <2>2, <2>3 DEF LedgerState
    <2>5. LedgerStates' = [LedgerStates EXCEPT ![j] = o] /\ LedgerStates[j] = "running"
      BY <2>4 DEF LedgerStates
    <2>6. LedgerAsked' = LedgerAsked \ {j} /\ (o = "Cancelled" => j \in LedgerAsked)
      BY <2>1, <2>3, <2>4 DEF LedgerAsked, Terminal
    <2>7. Ledger!End(j, o)
      BY <2>5, <2>6 DEF Ledger!End, LedgerStates, LedgerAsked
    <2> QED
      BY <2>3, <2>7 DEF Ledger!Next, Ledger!Outcomes, Terminal
  <1> QED
    BY <1>1, <1>2 DEF WorkerStep

\* StartSpawn begins a scan under the next id, while no other runs.
LEMMA LedgerOfSpawn ==
    ASSUME IInv, IInv', NEW r \in Requests, StartSpawn(r)
    PROVE  [Ledger!Next]_(Ledger!ledgerVars)
  <1>1. Running(r, "StartInpxScan") /\ starting # None
    BY DEF StartSpawn
  <1>2. PICK n \in JobIds : n = starting /\ jobs[n].worker = "None" /\ nextJobId = n + 1
    BY <1>1 DEF IInv, JobInv, JobTypeOK, StartingInv
  <1>3. \A j \in JobIds : jobs[j].worker \in Live => j = n
    BY <1>1, <1>2, StartIsAlone DEF IInv, JobInv, WorkerInv
  <1>4. CASE jobs' = [jobs EXCEPT ![n].worker = "Spawned"]
    <2>1. /\ \A i \in JobIds \ {n} : jobs'[i] = jobs[i]
          /\ jobs'[n].worker = "Spawned" /\ jobs'[n].stop = jobs[n].stop
      BY <1>2, <1>4 DEF IInv, JobInv, JobTypeOK, JobRecord
    <2>2. \A j \in JobIds : LedgerState(j) # "running"
      BY <1>2, <1>3, LedgerStateOf DEF IInv, Live
    <2>3. \A j \in JobIds : j >= n => LedgerState(j) = "absent"
      <3> SUFFICES ASSUME NEW j \in JobIds, j >= n PROVE jobs[j].worker = "None"
        BY LedgerStateOf DEF IInv
      <3>1. j = n \/ j >= nextJobId
        BY <1>2 DEF JobIds
      <3> QED
        BY <1>2, <3>1 DEF IInv, JobInv, StartingInv
    <2>4. /\ LedgerState(n)' = "running"
          /\ \A i \in JobIds \ {n} : LedgerState(i)' = LedgerState(i)
      BY <2>1 DEF LedgerState
    <2>5. LedgerStates' = [LedgerStates EXCEPT ![n] = "running"]
      BY <1>2, <2>4 DEF LedgerStates
    <2>6. ~jobs'[n].stop
      BY <1>2, <2>1 DEF IInv, JobInv, WorkerInv
    <2>7. LedgerAsked' = LedgerAsked
      BY <1>2, <2>1, <2>2, <2>4, <2>6 DEF LedgerAsked
    <2>8. Ledger!Begin(n)
      BY <2>2, <2>3, <2>5, <2>7 DEF Ledger!Begin, LedgerStates, LedgerAsked
    <2> QED
      BY <1>2, <2>8 DEF Ledger!Next
  <1>5. CASE jobs' = [jobs EXCEPT ![n] = NoJob]
    <2>1. \A i \in JobIds \ {n} : jobs'[i] = jobs[i]
      BY <1>2, <1>5 DEF IInv, JobInv, JobTypeOK
    <2>2. jobs'[n].worker = "None" /\ "None" \notin Live \cup Ended
      BY <1>2, <1>5 DEF IInv, JobInv, JobTypeOK, NoJob, Live, Ended
    <2> QED
      BY <1>2, <2>1, <2>2, LedgerStutters DEF IInv
  <1> QED
    BY <1>2, <1>4, <1>5 DEF StartSpawn

\* A stop request to one job that runs.
LEMMA LedgerOfStop ==
    ASSUME IInv, IInv', NEW a \in JobIds, jobs[a].worker \in Live, jobs'[a].worker = jobs[a].worker,
           jobs'[a].stop, \A i \in JobIds \ {a} : jobs'[i].worker = jobs[i].worker
                            /\ jobs'[i].status = jobs[i].status /\ (jobs[i].worker \in Live => jobs'[i].stop = jobs[i].stop)
    PROVE  Ledger!AskStop(a)
  <1>1. \A i \in JobIds : LedgerState(i)' = LedgerState(i)
    <2> SUFFICES ASSUME NEW i \in JobIds PROVE LedgerState(i)' = LedgerState(i)
      OBVIOUS
    <2>1. CASE i = a
      BY <2>1 DEF LedgerState, Live
    <2>2. CASE i # a
      BY <2>2 DEF LedgerState
    <2> QED
      BY <2>1, <2>2
  <1>2. LedgerState(a) = "running"
    BY LedgerStateOf DEF IInv
  <1>3. LedgerStates' = LedgerStates /\ LedgerStates[a] = "running"
    BY <1>1, <1>2 DEF LedgerStates
  <1>4. \A i \in JobIds \ {a} : LedgerState(i) = "running" => jobs'[i].stop = jobs[i].stop
    BY LedgerStateOf DEF IInv
  <1>5. LedgerAsked' = LedgerAsked \cup {a}
    BY <1>1, <1>2, <1>4 DEF LedgerAsked
  <1> QED
    BY <1>3, <1>5 DEF Ledger!AskStop, LedgerStates, LedgerAsked

\* A cancellation is a step of the ledger or none.
LEMMA LedgerOfCancel ==
    ASSUME IInv, IInv', NEW r \in Requests, Cancel(r)
    PROVE  [Ledger!Next]_(Ledger!ledgerVars)
  <1>1. PICK a \in JobIds : a = activeJobId /\ starting = None
    BY RunningFacts DEF Cancel, Calls, PollCalls
  <1>2. CASE Unfinished(a)
    <2>1. jobs[a].known /\ jobs[a].status \notin Terminal
      BY <1>2 DEF Unfinished, IsTerminal
    <2>2. a # None /\ jobs[a].worker # "None" /\ jobs[a].worker \notin Ended
      BY <1>1, <2>1, ServiceAssumption DEF IInv, JobInv, KnownInv, WorkerInv, JobIds
    <2>3. jobs[a].worker \in Live
      BY <1>1, <2>2 DEF IInv, JobInv, JobTypeOK, JobRecord
    <2>4. jobs' = [jobs EXCEPT ![a].status = "Cancelling", ![a].stop = TRUE]
      BY <1>1, <1>2, <2>2 DEF Cancel
    <2>5. /\ jobs'[a].worker = jobs[a].worker /\ jobs'[a].stop
          /\ \A i \in JobIds \ {a} : jobs'[i] = jobs[i]
      BY <1>1, <2>4 DEF IInv, JobInv, JobTypeOK, JobRecord
    <2>6. Ledger!AskStop(a)
      BY <1>1, <2>3, <2>5, LedgerOfStop
    <2> QED
      BY <1>1, <2>6 DEF Ledger!Next
  <1>3. CASE ~Unfinished(a)
    <2>1. jobs' = jobs
      BY <1>1, <1>3 DEF Cancel
    <2> QED
      BY <2>1, LedgerStutters DEF IInv
  <1> QED
    BY <1>2, <1>3

\* The destructor stops the one job there may be.
LEMMA LedgerOfClose ==
    ASSUME IInv, IInv', BeginClose
    PROVE  [Ledger!Next]_(Ledger!ledgerVars)
  <1>1. jobs' = [j \in JobIds |-> IF jobs[j].known THEN [jobs[j] EXCEPT !.stop = TRUE] ELSE jobs[j]]
    BY DEF BeginClose
  <1>2. \A j \in JobIds : /\ jobs'[j].status = jobs[j].status /\ jobs'[j].worker = jobs[j].worker
                          /\ jobs[j].known => jobs'[j].stop
                          /\ ~jobs[j].known => jobs'[j].stop = jobs[j].stop
    <2> SUFFICES ASSUME NEW j \in JobIds
                 PROVE  /\ jobs'[j].status = jobs[j].status /\ jobs'[j].worker = jobs[j].worker
                        /\ jobs[j].known => jobs'[j].stop
                        /\ ~jobs[j].known => jobs'[j].stop = jobs[j].stop
      OBVIOUS
    <2>1. jobs[j] \in JobRecord
      BY DEF IInv, JobInv, JobTypeOK
    <2>2. jobs'[j] = IF jobs[j].known THEN [jobs[j] EXCEPT !.stop = TRUE] ELSE jobs[j]
      BY <1>1
    <2> QED
      BY <2>1, <2>2 DEF JobRecord
  <1>3. \A j \in JobIds : jobs[j].worker \in Live => jobs[j].known
    BY DEF IInv, JobInv, WorkerInv
  <1>4. \A j \in JobIds : jobs[j].known => j = activeJobId
    BY IdleFacts DEF BeginClose
  <1>5. CASE \E a \in JobIds : jobs[a].worker \in Live
    <2>1. PICK a \in JobIds : jobs[a].worker \in Live
      BY <1>5
    <2>2. jobs'[a].stop /\ \A i \in JobIds \ {a} : jobs[i].worker \notin Live
      BY <1>2, <1>3, <1>4, <2>1
    <2>3. Ledger!AskStop(a)
      BY <1>2, <2>1, <2>2, LedgerOfStop
    <2> QED
      BY <2>3 DEF Ledger!Next
  <1>6. CASE \A a \in JobIds : jobs[a].worker \notin Live
    BY <1>2, <1>6, LedgerStutters DEF IInv
  <1> QED
    BY <1>5, <1>6

\* The death of the process is a step of the ledger or none.
LEMMA LedgerOfDeath ==
    ASSUME IInv, EndClose \/ Crash
    PROVE  [Ledger!Next]_(Ledger!ledgerVars)
  <1>1. \A j \in JobIds : LedgerState(j)' = "absent"
    BY DEF EndClose, Crash, ResetMemory, NoJob, LedgerState
  <1>2. LedgerStates' = [j \in JobIds |-> "absent"] /\ LedgerAsked' = {}
    BY <1>1 DEF LedgerStates, LedgerAsked
  <1>3. Ledger!Forget
    BY <1>2 DEF Ledger!Forget, LedgerStates, LedgerAsked
  <1> QED
    BY <1>3 DEF Ledger!Next

\* The other calls change records, not scans.
LEMMA LedgerOfRest ==
    ASSUME IInv, IInv', NEW r \in Requests, StartEmplace(r) \/ RemoveErase(r) \/ RemoveJoin(r)
    PROVE  UNCHANGED Ledger!ledgerVars
  <1>1. "None" \notin Live \cup Ended /\ Live \cap Ended = {}
    BY DEF Live, Ended
  <1>2. CASE StartEmplace(r)
    <2>1. CASE jobs' = jobs
      BY <2>1, LedgerStutters DEF IInv
    <2>2. CASE nextJobId \in JobIds /\ jobs' = [jobs EXCEPT ![nextJobId] = [NoJob EXCEPT !.known = TRUE]]
      <3>1. jobs[nextJobId].worker = "None"
        BY <2>2 DEF IInv, JobInv, JobTypeOK, StartingInv
      <3>2. /\ \A i \in JobIds \ {nextJobId} : jobs'[i] = jobs[i]
            /\ jobs'[nextJobId].worker = "None"
        BY <2>2 DEF IInv, JobInv, JobTypeOK, NoJob
      <3> QED
        BY <1>1, <3>1, <3>2, LedgerStutters DEF IInv
    <2> QED
      BY <1>2, <2>1, <2>2 DEF StartEmplace, serviceVars
  <1>3. CASE RemoveErase(r)
    <2>1. activeJobId \in JobIds
      BY <1>3, RunningFacts DEF RemoveErase, Calls, PollCalls
    <2>2. \A i \in JobIds : /\ jobs'[i].worker = jobs[i].worker /\ jobs'[i].status = jobs[i].status
                            /\ jobs'[i].stop = jobs[i].stop
      BY <1>3, <2>1 DEF RemoveErase, IInv, JobInv, JobTypeOK, JobRecord
    <2> QED
      BY <2>2, LedgerStutters DEF IInv
  <1>4. CASE RemoveJoin(r)
    <2>1. /\ removing \in JobIds /\ jobs[removing].worker = "Exited"
          /\ jobs' = [jobs EXCEPT ![removing].worker = "Joined"]
      BY <1>4 DEF RemoveJoin, IInv, JobInv, JobTypeOK
    <2>2. /\ \A i \in JobIds \ {removing} : jobs'[i] = jobs[i]
          /\ jobs'[removing].worker = "Joined" /\ jobs'[removing].status = jobs[removing].status
      BY <2>1 DEF IInv, JobInv, JobTypeOK, JobRecord
    <2>3. "Exited" \in Ended /\ "Joined" \in Ended
      BY DEF Ended
    <2> QED
      BY <1>1, <2>1, <2>2, <2>3, LedgerStutters DEF IInv
  <1> QED
    BY <1>2, <1>3, <1>4

\* Every step of the service is a step of the ledger or leaves it alone.
LEMMA LedgerStep ==
    ASSUME IInv, IInv', [Next]_vars
    PROVE  [Ledger!Next]_(Ledger!ledgerVars)
  <1>1. ASSUME jobs' = jobs PROVE UNCHANGED Ledger!ledgerVars
    BY <1>1, LedgerStutters DEF IInv
  <1>2. ASSUME NEW r \in Requests, RequestStep(r) \/ \E o \in Operations : Receive(r, o)
        PROVE  jobs' = jobs
    BY <1>2 DEF RequestStep, Lock, Submit, Resume, Receive, serviceVars
  <1>3. ASSUME ExecutorStep PROVE [Ledger!Next]_(Ledger!ledgerVars)
    <2>1. ASSUME NEW r \in Requests, TakeTask \/ TryGetSnapshot(r) \/ TryGetResult(r) \/ ReadCatalog(r)
          PROVE  jobs' = jobs
      BY <2>1 DEF TakeTask, TryGetSnapshot, TryGetResult, ReadCatalog, serviceVars
    <2>2. TakeTask => jobs' = jobs
      BY DEF TakeTask, serviceVars
    <2> QED
      BY <1>1, <1>3, <2>1, <2>2, LedgerOfSpawn, LedgerOfCancel, LedgerOfRest
      DEF ExecutorStep, RunTask
  <1>4. Boot \/ UNCHANGED vars => jobs' = jobs
    BY DEF Boot, vars
  <1> QED
    BY <1>1, <1>2, <1>3, <1>4, LedgerOfWorker, LedgerOfClose, LedgerOfDeath DEF Next

\* CInpxScanJobService with all its threads, the executor and the coordinator: scans happen
\* one at a time under fresh ids, an outcome is final, and a scan is cancelled only if
\* somebody asked for it.
THEOREM ServiceImplementsLedger == Spec => ImplementsLedger
  <1>1. IInv /\ IInv' /\ [Next]_vars => [Ledger!Next]_(Ledger!ledgerVars)
    BY LedgerStep
  <1> QED
    BY <1>1, LedgerOfInit, Invariance, PTL DEF Spec, ImplementsLedger, Ledger!Spec

-----------------------------------------------------------------------------
(* Waiting: what the liveness properties rest on                           *)

\* Requests exist while the process runs, and none that waits is forgotten.
WaitInv ==
    /\ process # "running" => \A r \in Requests : pc[r] = "idle"
    /\ \A r \in Requests : pc[r] = "wait" => r = active \/ \E i \in 1..Len(queue) : queue[i] = r

\* The thread of a job in the map was not joined, and that of one being removed has ended;
\* a stop that was promised was requested.
ThreadInv ==
    /\ \A j \in JobIds : jobs[j].known => jobs[j].worker # "Joined"
    /\ removing # None => jobs[removing].worker = "Exited"
    /\ \A j \in JobIds : jobs[j].status = "Cancelling" => jobs[j].stop
    /\ process = "closing" => \A j \in JobIds : jobs[j].known => jobs[j].stop

\* What a step of a request thread does to the executor.
LEMMA RequestGoesOn ==
    ASSUME IInv, NEW r \in Requests, RequestStep(r) \/ \E o \in Operations : Receive(r, o)
    PROVE  /\ pc[r] # "wait" /\ UNCHANGED <<process, jobs, removing, active>>
           /\ pc[r] = "idle" => process = "running"
           /\ \/ /\ queue' = queue
                 /\ \E p \in {"idle", "lock", "submit"} : pc' = [pc EXCEPT ![r] = p]
              \/ queue' = Append(queue, r) /\ pc' = [pc EXCEPT ![r] = "wait"]
  <1>1. ASSUME NEW o \in Operations, Receive(r, o)
        PROVE  /\ pc[r] = "idle" /\ process = "running"
               /\ UNCHANGED <<process, jobs, removing, active, queue>>
               /\ \E p \in {"idle", "lock", "submit"} : pc' = [pc EXCEPT ![r] = p]
    BY <1>1 DEF Receive, GoCall, serviceVars, execVars
  <1>2. CASE Lock(r)
    BY <1>2 DEF Lock, Finish, GoCall, serviceVars, execVars
  <1>3. CASE Submit(r)
    BY <1>3 DEF Submit, Finish, serviceVars
  <1>4. CASE Resume(r)
    <2>1. pc[r] = "returned" /\ UNCHANGED <<process, jobs, removing, active, queue>>
      BY <1>4 DEF Resume, serviceVars, execVars
    <2>2. ASSUME NEW c, GoCall(r, c) PROVE pc' = [pc EXCEPT ![r] = "submit"]
      BY <2>2 DEF GoCall
    <2>3. ASSUME NEW a, Finish(r, a) PROVE pc' = [pc EXCEPT ![r] = "idle"]
      BY <2>3 DEF Finish
    <2>4. ASSUME NEW j, NEW p, AfterPoll(r, j, p)
          PROVE  \E x \in {"idle", "lock", "submit"} : pc' = [pc EXCEPT ![r] = x]
      BY <2>2, <2>3, <2>4 DEF AfterPoll
    <2>5. \E p \in {"idle", "lock", "submit"} : pc' = [pc EXCEPT ![r] = p]
      <3>1. CASE OnSnapshot(r)
        BY <2>2, <2>4, <3>1 DEF OnSnapshot
      <3>2. CASE OnResult(r) \/ OnCancelled(r)
        BY <2>2, <3>2 DEF OnResult, OnCancelled
      <3>3. CASE OnRemoved(r)
        BY <2>4, <3>3 DEF OnRemoved
      <3>4. CASE OnStarted(r) \/ OnListed(r)
        BY <2>2, <2>3, <3>4 DEF OnStarted, OnListed
      <3> QED
        BY <1>4, <3>1, <3>2, <3>3, <3>4 DEF Resume
    <2> QED
      BY <2>1, <2>5
  <1> QED
    BY <1>1, <1>2, <1>3, <1>4 DEF RequestStep

\* A step of a request thread loses nobody in the queue.
LEMMA RequestWaits ==
    ASSUME IInv, WaitInv, NEW r \in Requests, RequestStep(r) \/ \E o \in Operations : Receive(r, o)
    PROVE  WaitInv'
  <1>1. /\ pc[r] # "wait" /\ UNCHANGED <<process, jobs, removing, active>>
        /\ pc[r] = "idle" => process = "running"
        /\ \/ /\ queue' = queue
              /\ \E p \in {"idle", "lock", "submit"} : pc' = [pc EXCEPT ![r] = p]
           \/ queue' = Append(queue, r) /\ pc' = [pc EXCEPT ![r] = "wait"]
    BY RequestGoesOn
  <1>2. process = "running"
    BY <1>1 DEF WaitInv
  <1>3. ASSUME NEW q \in Requests, pc'[q] = "wait"
        PROVE  q = active \/ \E i \in 1..Len(queue') : queue'[i] = q
    <2>1. CASE queue' = queue
      <3>1. pc[q] = "wait"
        BY <1>1, <1>3, <2>1 DEF IInv, RequestInv, RequestTypeOK, ExecutorInv
      <3> QED
        BY <2>1, <3>1 DEF WaitInv
    <2>2. CASE queue' = Append(queue, r) /\ pc' = [pc EXCEPT ![r] = "wait"]
      <3>1. /\ queue \in Seq(Requests) /\ Len(queue) \in Nat /\ Len(queue') = Len(queue) + 1
            /\ queue'[Len(queue) + 1] = r
            /\ \A i \in 1..Len(queue) : queue'[i] = queue[i]
        BY <2>2 DEF IInv, RequestInv, ExecutorInv
      <3>2. CASE q = r
        BY <3>1, <3>2
      <3>3. CASE q # r
        <4>1. pc[q] = "wait"
          BY <1>3, <2>2, <3>3 DEF IInv, RequestInv, RequestTypeOK
        <4>2. q = active \/ \E i \in 1..Len(queue) : queue[i] = q
          BY <4>1 DEF WaitInv
        <4> QED
          BY <3>1, <4>2
      <3> QED
        BY <3>2, <3>3
    <2> QED
      BY <1>1, <2>1, <2>2
  <1> QED
    BY <1>1, <1>2, <1>3 DEF WaitInv

\* A call that runs ends, or goes on to its next critical section.
LEMMA TaskGoesOn ==
    ASSUME IInv, NEW r \in Requests, RunTask(r)
    PROVE  /\ active = r /\ pc[r] = "wait" /\ UNCHANGED <<process, queue>>
           /\ \/ UNCHANGED <<active, pc>>
              \/ active' = None /\ pc' = [pc EXCEPT ![r] = "returned"]
  <1> USE DEF Return, Running
  <1>1. active = r
    BY DEF RunTask, StartEmplace, StartSpawn, TryGetSnapshot, TryGetResult, Cancel, RemoveErase,
           RemoveJoin, ReadCatalog
  <1>2. pc[r] = "wait"
    BY <1>1, ServiceAssumption DEF IInv, RequestInv, ExecutorInv
  <1>3. CASE StartEmplace(r) \/ StartSpawn(r)
    BY <1>1, <1>2, <1>3 DEF StartEmplace, StartSpawn
  <1>4. CASE TryGetSnapshot(r) \/ TryGetResult(r) \/ Cancel(r) \/ ReadCatalog(r)
    BY <1>1, <1>2, <1>4 DEF TryGetSnapshot, TryGetResult, Cancel, ReadCatalog
  <1>5. CASE RemoveErase(r) \/ RemoveJoin(r)
    BY <1>1, <1>2, <1>5 DEF RemoveErase, RemoveJoin
  <1> QED
    BY <1>3, <1>4, <1>5 DEF RunTask

\* Neither does the executor.
LEMMA ExecutorWaits ==
    ASSUME IInv, WaitInv, ExecutorStep
    PROVE  WaitInv'
  <1>1. CASE TakeTask
    <2>1. /\ active = None /\ queue # <<>> /\ active' = Head(queue) /\ queue' = Tail(queue)
          /\ UNCHANGED <<process, pc>>
      BY <1>1 DEF TakeTask, clientVars
    <2>2. /\ Len(queue) \in Nat \ {0} /\ Len(queue') = Len(queue) - 1 /\ active' = queue[1]
          /\ \A i \in 1..(Len(queue) - 1) : queue'[i] = queue[i + 1]
      BY <2>1 DEF IInv, RequestInv, ExecutorInv
    <2>3. ASSUME NEW q \in Requests, pc[q] = "wait"
          PROVE  q = active' \/ \E i \in 1..Len(queue') : queue'[i] = q
      <3>1. PICK i \in 1..Len(queue) : queue[i] = q
        BY <2>1, <2>3, ServiceAssumption DEF WaitInv
      <3>2. CASE i = 1
        BY <2>2, <3>1, <3>2
      <3>3. CASE i # 1
        <4>1. i - 1 \in 1..(Len(queue) - 1) /\ queue'[i - 1] = q
          BY <2>2, <3>1, <3>3
        <4> QED
          BY <2>2, <4>1
      <3> QED
        BY <3>2, <3>3
    <2> QED
      BY <2>1, <2>3 DEF WaitInv
  <1>2. ASSUME NEW r \in Requests, RunTask(r) PROVE WaitInv'
    <2>1. /\ active = r /\ pc[r] = "wait" /\ UNCHANGED <<process, queue>>
          /\ \/ UNCHANGED <<active, pc>>
             \/ active' = None /\ pc' = [pc EXCEPT ![r] = "returned"]
      BY <1>2, TaskGoesOn
    <2>2. process = "running"
      BY <2>1 DEF WaitInv
    <2>3. ASSUME NEW q \in Requests, pc'[q] = "wait"
          PROVE  q = active' \/ \E i \in 1..Len(queue) : queue[i] = q
      BY <2>1, <2>3 DEF WaitInv, IInv, RequestInv, RequestTypeOK
    <2> QED
      BY <2>1, <2>2, <2>3 DEF WaitInv
  <1> QED
    BY <1>1, <1>2 DEF ExecutorStep

LEMMA WaitInvariance == Spec => []WaitInv
  <1>1. Init => WaitInv
    BY DEF Init, WaitInv
  <1>2. IInv /\ WaitInv /\ [Next]_vars => WaitInv'
    <2> SUFFICES ASSUME IInv, WaitInv, [Next]_vars PROVE WaitInv'
      OBVIOUS
    <2>1. ASSUME UNCHANGED <<pc, queue, active>>, process' = process \/ process' = "running"
                   \/ \A r \in Requests : pc[r] = "idle"
          PROVE  WaitInv'
      BY <2>1 DEF WaitInv
    <2>2. ASSUME NEW j \in JobIds, WorkerStep(j) \/ FinishScan(j) PROVE WaitInv'
      BY <2>1, <2>2 DEF WorkerStep, PublishRunning, ThrowIfCancelled, PublishResult, FinishScan,
                        execVars, clientVars
    <2>3. CASE BeginClose \/ Boot \/ UNCHANGED vars
      BY <2>1, <2>3 DEF BeginClose, Boot, vars, execVars, clientVars
    <2>4. CASE EndClose \/ Crash
      BY <2>4 DEF EndClose, Crash, ResetMemory, WaitInv
    <2> QED
      BY <2>2, <2>3, <2>4, RequestWaits, ExecutorWaits DEF Next
  <1> QED
    BY <1>1, <1>2, Invariance, PTL DEF Spec

\* A request that is blocked has somebody to wait for who is not: the mutex is held by another
\* request with a call under way; a call is in the queue or runs; and the call that runs can
\* go on, the join in Remove included.
WaitsServed ==
    \A r \in Requests :
        /\ pc[r] = "lock" /\ mutex # None => mutex \in Requests \ {r} /\ Calling(mutex)
        /\ pc[r] = "wait" => r = active \/ \E i \in 1..Len(queue) : queue[i] = r
        /\ r = active => /\ call[r] \in Calls
                         /\ call[r] \in PollCalls => activeJobId \in JobIds
                         /\ removing # None => jobs[removing].worker = "Exited"

\* The threads, when a step leaves the jobs alone and begins no close.
LEMMA ThreadsUntouched ==
    ASSUME ThreadInv, UNCHANGED <<jobs, removing>>, process' = "closing" => process = "closing"
    PROVE  ThreadInv'
  BY DEF ThreadInv

\* A worker goes on.
LEMMA WorkerThread ==
    ASSUME IInv, ThreadInv, NEW j \in JobIds, WorkerStep(j) \/ FinishScan(j)
    PROVE  ThreadInv'
  <1>1. /\ jobs[j].worker \in Live /\ UNCHANGED <<process, removing>>
        /\ \A i \in JobIds \ {j} : jobs'[i] = jobs[i]
        /\ jobs'[j].known = jobs[j].known /\ jobs'[j].stop = jobs[j].stop
        /\ jobs'[j].worker # "Joined"
        /\ jobs'[j].status = "Cancelling" => jobs[j].stop \/ jobs[j].status = "Cancelling"
                                             \/ jobs[j].outcome = "Cancelling"
    <2>1. jobs \in [JobIds -> JobRecord]
      BY DEF IInv, JobInv, JobTypeOK
    <2>2. CASE PublishRunning(j) \/ ThrowIfCancelled(j)
      BY <2>1, <2>2 DEF PublishRunning, ThrowIfCancelled, JobRecord, Live, execVars
    <2>3. CASE PublishResult(j) \/ FinishScan(j)
      BY <2>1, <2>3 DEF PublishResult, FinishScan, JobRecord, Live, execVars
    <2> QED
      BY <2>2, <2>3 DEF WorkerStep
  <1>2. jobs[j].outcome # "Cancelling"
    BY ServiceAssumption DEF IInv, JobInv, JobTypeOK, JobRecord, Terminal
  <1>3. j # removing
    BY <1>1, ServiceAssumption DEF ThreadInv, Live, JobIds
  <1>4. removing \in JobIds \cup {None}
    BY DEF IInv, JobInv, JobTypeOK
  <1> QED
    BY <1>1, <1>2, <1>3, <1>4 DEF ThreadInv

\* A start puts an unasked job without a thread into the map, gives it one or takes it back.
LEMMA StartThread ==
    ASSUME IInv, WaitInv, ThreadInv, NEW r \in Requests, StartEmplace(r) \/ StartSpawn(r)
    PROVE  ThreadInv'
  <1>1. active = r /\ pc[r] = "wait" /\ removing = None
    BY RunningFacts DEF StartEmplace, StartSpawn, Calls
  <1>2. process = "running" /\ UNCHANGED <<process, removing>>
    BY <1>1 DEF WaitInv, StartEmplace, StartSpawn
  <1>3. ASSUME NEW j \in JobIds
        PROVE  /\ jobs'[j].known => jobs'[j].worker # "Joined"
               /\ jobs'[j].status = "Cancelling" => jobs'[j].stop
    <2>1. /\ jobs[j].known => jobs[j].worker # "Joined"
          /\ jobs[j].status = "Cancelling" => jobs[j].stop
      BY DEF ThreadInv
    <2>2. jobs \in [JobIds -> JobRecord]
      BY DEF IInv, JobInv, JobTypeOK
    <2>3. CASE jobs'[j] = jobs[j]
      BY <2>1, <2>3
    <2>4. CASE jobs'[j] # jobs[j]
      <3>1. /\ jobs'[j].worker \in {"None", "Spawned"}
            /\ jobs'[j].status = "Pending" \/ jobs'[j].status = jobs[j].status
            /\ jobs'[j].stop = jobs[j].stop \/ jobs'[j].status = "Pending"
        BY <2>2, <2>4 DEF StartEmplace, StartSpawn, NoJob, JobRecord, serviceVars
      <3> QED
        BY <2>1, <3>1
    <2> QED
      BY <2>3, <2>4
  <1> QED
    BY <1>1, <1>2, <1>3 DEF ThreadInv

\* A cancellation is accepted for a job whose thread is there to be stopped.
LEMMA CancelThread ==
    ASSUME IInv, WaitInv, ThreadInv, NEW r \in Requests, Cancel(r)
    PROVE  ThreadInv'
  <1> DEFINE j == activeJobId
  <1>1. active = r /\ pc[r] = "wait" /\ removing = None /\ starting = None /\ j \in JobIds
    BY RunningFacts DEF Cancel, Calls, PollCalls
  <1>2. process = "running" /\ UNCHANGED <<process, removing>>
    BY <1>1 DEF WaitInv, Cancel
  <1>3. /\ jobs' = IF Unfinished(j)
                     THEN [jobs EXCEPT ![j].status = "Cancelling", ![j].stop = (jobs[j].worker # "None")]
                     ELSE jobs
    BY DEF Cancel
  <1>4. jobs \in [JobIds -> JobRecord]
    BY DEF IInv, JobInv, JobTypeOK
  <1>5. Unfinished(j) => jobs[j].known /\ jobs[j].worker # "None"
    BY <1>1, ServiceAssumption DEF Unfinished, IInv, JobInv, KnownInv, JobIds
  <1> HIDE DEF j
  <1>6. ASSUME NEW i \in JobIds
        PROVE  /\ jobs'[i].known => jobs'[i].worker # "Joined"
               /\ jobs'[i].status = "Cancelling" => jobs'[i].stop
    <2>1. CASE i = j /\ Unfinished(j)
      <3>1. jobs'[i].stop = TRUE
        BY <1>1, <1>3, <1>4, <1>5, <2>1 DEF JobRecord
      <3>2. jobs'[i].worker = jobs[i].worker /\ jobs'[i].known = jobs[i].known
        BY <1>1, <1>3, <1>4, <2>1 DEF JobRecord
      <3> QED
        BY <3>1, <3>2 DEF ThreadInv
    <2>2. CASE i # j \/ ~Unfinished(j)
      <3>1. jobs'[i] = jobs[i]
        BY <1>1, <1>3, <1>4, <2>2
      <3> QED
        BY <3>1 DEF ThreadInv
    <2> QED
      BY <2>1, <2>2
  <1> QED
    BY <1>1, <1>2, <1>6 DEF ThreadInv

\* Remove erases a job whose thread has published its result, and joins that thread.
LEMMA RemoveThread ==
    ASSUME IInv, WaitInv, ThreadInv, NEW r \in Requests, RemoveErase(r) \/ RemoveJoin(r)
    PROVE  ThreadInv'
  <1> DEFINE j == activeJobId
  <1>1. active = r /\ pc[r] = "wait" /\ call[r] = "RemoveJob" /\ j \in JobIds /\ CallOK(r) /\ Calling(r)
    BY RunningFacts DEF RemoveErase, RemoveJoin, Calls, PollCalls
  <1>2. process = "running" /\ process' = process
    BY <1>1 DEF WaitInv, RemoveErase, RemoveJoin
  <1>3. jobs \in [JobIds -> JobRecord]
    BY DEF IInv, JobInv, JobTypeOK
  <1>4. CASE RemoveErase(r)
    <2>1. CASE jobs[j].known /\ jobs[j].result # None
      <3>1. jobs[j].worker = "Exited"
        BY <1>1, <2>1 DEF ThreadInv, IInv, JobInv, WorkerInv, Ended
      <3>2. jobs' = [jobs EXCEPT ![j].known = FALSE] /\ removing' = j
        BY <1>4, <2>1 DEF RemoveErase
      <3>3. \A i \in JobIds : /\ jobs'[i].worker = jobs[i].worker /\ jobs'[i].stop = jobs[i].stop
                              /\ jobs'[i].status = jobs[i].status
                              /\ jobs'[i].known => jobs[i].known
        BY <1>1, <1>3, <3>2 DEF JobRecord
      <3> QED
        BY <1>1, <1>2, <3>1, <3>2, <3>3 DEF ThreadInv
    <2>2. CASE ~(jobs[j].known /\ jobs[j].result # None)
      BY <1>2, <1>4, <2>2, ThreadsUntouched DEF RemoveErase
    <2> QED
      BY <2>1, <2>2
  <1>5. CASE RemoveJoin(r)
    <2>1. /\ removing = j /\ ~jobs[j].known
      BY <1>1, <1>5 DEF RemoveJoin, IInv, JobInv, RemovingInv, CallOK, RemovalOK
    <2>2. jobs' = [jobs EXCEPT ![j].worker = "Joined"] /\ removing' = None
      BY <1>5, <2>1 DEF RemoveJoin
    <2>3. \A i \in JobIds : /\ jobs'[i].known = jobs[i].known /\ jobs'[i].stop = jobs[i].stop
                            /\ jobs'[i].status = jobs[i].status
                            /\ i # j => jobs'[i].worker = jobs[i].worker
      BY <1>1, <1>3, <2>2 DEF JobRecord
    <2> HIDE DEF j
    <2> QED
      BY <1>2, <2>1, <2>2, <2>3 DEF ThreadInv
  <1> QED
    BY <1>4, <1>5

LEMMA ThreadInvariance == Spec => []ThreadInv
  <1>1. Init => ThreadInv
    BY DEF Init, ThreadInv, NoJob
  <1>2. IInv /\ WaitInv /\ ThreadInv /\ [Next]_vars => ThreadInv'
    <2> SUFFICES ASSUME IInv, WaitInv, ThreadInv, [Next]_vars PROVE ThreadInv'
      OBVIOUS
    <2>1. CASE UNCHANGED vars \/ Boot \/ TakeTask
      BY <2>1, ThreadsUntouched DEF vars, Boot, TakeTask, execVars, serviceVars
    <2>2. ASSUME NEW r \in Requests, RequestStep(r) \/ \E o \in Operations : Receive(r, o)
          PROVE  ThreadInv'
      BY <2>2, RequestGoesOn, ThreadsUntouched
    <2>3. ASSUME NEW r \in Requests, TryGetSnapshot(r) \/ TryGetResult(r) \/ ReadCatalog(r)
          PROVE  ThreadInv'
      BY <2>3, ThreadsUntouched DEF TryGetSnapshot, TryGetResult, ReadCatalog, serviceVars
    <2>4. CASE BeginClose
      <3>1. /\ jobs' = [j \in JobIds |-> IF jobs[j].known THEN [jobs[j] EXCEPT !.stop = TRUE]
                                         ELSE jobs[j]]
            /\ removing' = removing
        BY <2>4 DEF BeginClose, execVars
      <3>2. jobs \in [JobIds -> JobRecord] /\ removing \in JobIds \cup {None}
        BY DEF IInv, JobInv, JobTypeOK
      <3>3. \A j \in JobIds : /\ jobs'[j].known = jobs[j].known /\ jobs'[j].worker = jobs[j].worker
                              /\ jobs'[j].status = jobs[j].status
                              /\ jobs[j].known \/ jobs[j].stop => jobs'[j].stop
        BY <3>1, <3>2 DEF JobRecord
      <3> QED
        BY <3>1, <3>2, <3>3 DEF ThreadInv
    <2>5. CASE EndClose \/ Crash
      BY <2>5 DEF EndClose, Crash, ResetMemory, ThreadInv, NoJob
    <2> QED
      BY <2>1, <2>2, <2>3, <2>4, <2>5, WorkerThread, StartThread, CancelThread, RemoveThread
      DEF Next, ExecutorStep, RunTask
  <1> QED
    BY <1>1, <1>2, Invariance, WaitInvariance, PTL DEF Spec

\* The safety half of RequestsAnswered: requests, coordinator, executor and workers never wait
\* in a circle, and no call is lost between the queue and the backend thread.
THEOREM NobodyWaitsInVain == Spec => []WaitsServed
  <1>1. IInv /\ WaitInv /\ ThreadInv => WaitsServed
    <2> SUFFICES ASSUME IInv, WaitInv, ThreadInv, NEW r \in Requests
                 PROVE  /\ pc[r] = "lock" /\ mutex # None => mutex \in Requests \ {r} /\ Calling(mutex)
                        /\ pc[r] = "wait" => r = active \/ \E i \in 1..Len(queue) : queue[i] = r
                        /\ r = active => /\ call[r] \in Calls
                                         /\ call[r] \in PollCalls => activeJobId \in JobIds
                                         /\ removing # None => jobs[removing].worker = "Exited"
      BY DEF WaitsServed
    <2>1. pc[r] = "lock" /\ mutex # None => mutex \in Requests \ {r} /\ Calling(mutex)
      BY DEF IInv, RequestInv, RequestTypeOK, LockInv, Calling
    <2>2. r = active => Calling(r)
      BY ServiceAssumption DEF IInv, RequestInv, ExecutorInv, Calling
    <2>3. r = active => call[r] \in Calls
      BY <2>2 DEF IInv, RequestInv, LockInv
    <2>4. r = active /\ call[r] \in PollCalls => activeJobId \in JobIds
      BY <2>2 DEF IInv, CallInv, CallOK, JobInv, JobTypeOK
    <2> QED
      BY <2>1, <2>3, <2>4 DEF WaitInv, ThreadInv
  <1> QED
    BY <1>1, Invariance, WaitInvariance, ThreadInvariance, PTL

\* The safety half of CancelTakesEffect and ShutdownEnds: a job that is Cancelling has a thread
\* that was asked to stop, and ~CInpxScanJobService waits only for threads it has asked.
StopsReachThreads ==
    /\ \A j \in JobIds : jobs[j].status = "Cancelling" => jobs[j].stop /\ jobs[j].worker \in Live
    /\ process = "closing" =>
          \A j \in JobIds : jobs[j].known => jobs[j].stop /\ jobs[j].worker \in Live \cup {"Exited"}

\* CancelJob and the destructor reach the thread of the scan, whatever the start, the worker
\* and the other requests were doing.
THEOREM StopsAlwaysReachThreads == Spec => []StopsReachThreads
  <1>1. IInv /\ ThreadInv => StopsReachThreads
    <2> SUFFICES ASSUME IInv, ThreadInv PROVE StopsReachThreads
      OBVIOUS
    <2>1. \A j \in JobIds : /\ jobs[j].worker \in {"None"} \cup Live \cup Ended
                            /\ jobs[j].worker = "None" => ~jobs[j].stop
                            /\ jobs[j].status \in Terminal <=> jobs[j].worker \in Ended
      BY DEF IInv, JobInv, JobTypeOK, JobRecord, WorkerInv
    <2>2. "Cancelling" \notin Terminal
      BY DEF Terminal
    <2>3. \A j \in JobIds : jobs[j].status = "Cancelling" => jobs[j].stop /\ jobs[j].worker \in Live
      BY <2>1, <2>2 DEF ThreadInv
    <2>4. process = "closing" =>
             \A j \in JobIds : jobs[j].known => jobs[j].stop /\ jobs[j].worker \in Live \cup {"Exited"}
      BY <2>1 DEF ThreadInv, Ended
    <2> QED
      BY <2>3, <2>4 DEF StopsReachThreads
  <1> QED
    BY <1>1, Invariance, ThreadInvariance, PTL

\* A stop that was requested stays so until the process ends.
StopKept == \A j \in JobIds : jobs[j].stop => jobs'[j].stop \/ process' = "dead"

\* No step of a start, a second cancellation or a removal takes the request to stop back.
THEOREM StopsAreKept == Spec => [][StopKept]_vars
  <1>1. IInv /\ [Next]_vars => [StopKept]_vars
    <2> SUFFICES ASSUME IInv, Next, NEW j \in JobIds, jobs[j].stop
                 PROVE  jobs'[j].stop \/ process' = "dead"
      BY DEF StopKept
    <2>1. jobs \in [JobIds -> JobRecord] /\ jobs[j].worker # "None"
      BY DEF IInv, JobInv, JobTypeOK, WorkerInv
    <2>2. ASSUME NEW i \in JobIds, WorkerStep(i) \/ FinishScan(i) PROVE jobs'[j].stop
      BY <2>1, <2>2 DEF WorkerStep, PublishRunning, ThrowIfCancelled, PublishResult, FinishScan, JobRecord
    <2>3. ASSUME NEW r \in Requests, StartEmplace(r) PROVE jobs'[j].stop
      <3>1. nextJobId # j
        BY <2>1 DEF IInv, JobInv, JobTypeOK, StartingInv, JobIds
      <3> QED
        BY <2>1, <2>3, <3>1 DEF StartEmplace, serviceVars
    <2>4. ASSUME NEW r \in Requests, StartSpawn(r) PROVE jobs'[j].stop
      <3>1. starting # j
        BY <2>1, <2>4 DEF StartSpawn, IInv, JobInv, StartingInv
      <3> QED
        BY <2>1, <2>4, <3>1 DEF StartSpawn
    <2>5. ASSUME NEW r \in Requests, Cancel(r) PROVE jobs'[j].stop
      BY <2>1, <2>5 DEF Cancel, JobRecord
    <2>6. ASSUME NEW r \in Requests, RemoveErase(r) \/ RemoveJoin(r) PROVE jobs'[j].stop
      BY <2>1, <2>6 DEF RemoveErase, RemoveJoin, JobRecord
    <2>7. ASSUME NEW r \in Requests, TryGetSnapshot(r) \/ TryGetResult(r) \/ ReadCatalog(r)
          PROVE  jobs'[j].stop
      BY <2>7 DEF TryGetSnapshot, TryGetResult, ReadCatalog, serviceVars
    <2>8. ASSUME NEW r \in Requests, RequestStep(r) \/ \E o \in Operations : Receive(r, o)
          PROVE  jobs'[j].stop
      BY <2>8, RequestGoesOn
    <2>9. CASE TakeTask \/ Boot
      BY <2>9 DEF TakeTask, Boot, serviceVars
    <2>10. CASE BeginClose
      BY <2>1, <2>10 DEF BeginClose, JobRecord
    <2>11. CASE EndClose \/ Crash
      BY <2>11 DEF EndClose, Crash
    <2> QED
      BY <2>2, <2>3, <2>4, <2>5, <2>6, <2>7, <2>8, <2>9, <2>10, <2>11
      DEF Next, ExecutorStep, RunTask
  <1> QED
    BY <1>1, Invariance, PTL DEF Spec
=============================================================================
