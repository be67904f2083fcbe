----------------------------- MODULE HttpService -----------------------------
(***************************************************************************)
(* The HTTP side of a download and the life of the process: the task queue *)
(* with its overload worker, the download gate and the file response of    *)
(* libs/Server/HttpServer.cpp, and RunServerMain of                        *)
(* apps/InpxWebReader/main.cpp, around the host of ServerHost.             *)
(*                                                                         *)
(* A request is a download; the connection handling of cpp-httplib is      *)
(* external: a connection is offered to the task queue once, and stop()    *)
(* ends the accept loop and then joins the task queue.                     *)
(***************************************************************************)
EXTENDS ServerHost, Sequences

CONSTANTS
    NoRequest,
    MaxThreads,             \* HTTP workers
    MaxQueuedRequests,
    MaxConcurrentDownloads,
    MaxLeaks                \* bound: download roots that cannot be removed

ASSUME HttpAssumption ==
    /\ NoRequest \notin Downloads
    /\ MaxThreads \in Nat \ {0}
    /\ MaxQueuedRequests \in Nat \ {0}
    /\ MaxConcurrentDownloads \in Nat \ {0}
    /\ MaxLeaks \in Nat

VARIABLES
    jobs,     \* m_jobs
    overload, \* m_overloadJob
    stopping, \* m_stopping
    http,     \* request -> where it is
    leases,   \* requests that hold a lease of the download gate
    roots,    \* requests whose download root is on disk
    leaked,   \* history: roots whose removal failed
    monitor,  \* where StorageStatusWorker stands
    main,     \* where RunServerMain stands
    signal,   \* GShutdownRequested
    late      \* history: conversions that ran into their deadline during the shutdown

serveVars == <<jobs, overload, stopping, http, leases, roots, leaked>>
httpVars == <<serveVars, monitor>>
mainVars == <<main, signal, late>>
vars == <<hostVars, jobs, overload, stopping, http, leases, roots, leaked, monitor, main, signal,
          late>>

\* HTTP listens before the host opens.
Init ==
    /\ HostInit
    /\ jobs = <<>>
    /\ overload = NoRequest
    /\ stopping = FALSE
    /\ http = [d \in Downloads |-> "outside"]
    /\ leases = {} /\ roots = {} /\ leaked = {}
    /\ monitor = "checking"
    /\ main = "opening"
    /\ signal = FALSE
    /\ late = {}

At(place) == {d \in Downloads : http[d] = place}
Running == {d \in Downloads : http[d] \in {"handling", "admitted", "leased", "streaming", "cleaned"}}

Move(d, place) == http' = [http EXCEPT ![d] = place]

-----------------------------------------------------------------------------
(* CHttpTaskQueue                                                          *)

\* A full queue hands one request at a time to the overload worker; the connection
\* of a request that is not taken is closed.
Enqueue(d) ==
    /\ http[d] = "outside"
    /\ \/ /\ stopping \/ (Len(jobs) >= MaxQueuedRequests /\ overload # NoRequest)
          /\ Move(d, "dropped")
          /\ UNCHANGED <<jobs, overload>>
       \/ /\ ~stopping /\ Len(jobs) >= MaxQueuedRequests /\ overload = NoRequest
          /\ Move(d, "overflow")
          /\ overload' = d
          /\ UNCHANGED jobs
       \/ /\ ~stopping /\ Len(jobs) < MaxQueuedRequests
          /\ Move(d, "queued")
          /\ jobs' = Append(jobs, d)
          /\ UNCHANGED overload
    /\ UNCHANGED <<hostVars, stopping, leases, roots, leaked, monitor, mainVars>>

\* RunWorker: queued jobs are taken, also when the queue is stopping.
TakeJob ==
    /\ jobs # <<>>
    /\ Cardinality(Running) < MaxThreads
    /\ Move(Head(jobs), "handling")
    /\ jobs' = Tail(jobs)
    /\ UNCHANGED <<hostVars, overload, stopping, leases, roots, leaked, monitor, mainVars>>

\* Mutant of TakeOverload: the slot is kept until the answer is out and then lost.
TakeOverloadForgets ==
    /\ overload # NoRequest
    /\ At("rejecting") = {}
    /\ overload' = NoRequest
    /\ UNCHANGED <<hostVars, jobs, stopping, http, leases, roots, leaked, monitor, mainVars>>

\* RunOverloadWorker: the request is answered with the overload error.
TakeOverload ==
    /\ overload # NoRequest
    /\ At("rejecting") = {}
    /\ Move(overload, "rejecting")
    /\ overload' = NoRequest
    /\ UNCHANGED <<hostVars, jobs, stopping, leases, roots, leaked, monitor, mainVars>>

AnswerOverload(d) ==
    /\ http[d] = "rejecting"
    /\ Move(d, "answered")
    /\ UNCHANGED <<hostVars, jobs, overload, stopping, leases, roots, leaked, monitor, mainVars>>

-----------------------------------------------------------------------------
(* The download handler                                                    *)

\* HandleDynamicRequest: the backend must be ready.
CheckBackend(d) ==
    /\ http[d] = "handling"
    /\ Move(d, IF isOpen THEN "admitted" ELSE "answered")
    /\ UNCHANGED <<hostVars, jobs, overload, stopping, leases, roots, leaked, monitor, mainVars>>

\* CDownloadGate::TryAcquire.
GateHasRoom == Cardinality(leases) < MaxConcurrentDownloads

TryAcquire(d) ==
    /\ http[d] = "admitted"
    /\ IF GateHasRoom
         THEN Move(d, "leased") /\ leases' = leases \cup {d}
         ELSE Move(d, "answered") /\ UNCHANGED leases
    /\ UNCHANGED <<hostVars, jobs, overload, stopping, roots, leaked, monitor, mainVars>>

\* remove_all with an error code.
RemoveRoot(d) ==
    \/ /\ roots' = roots \ {d}
       /\ UNCHANGED leaked
    \/ /\ d \in roots
       /\ Cardinality(leaked) < MaxLeaks
       /\ leaked' = leaked \cup {d}
       /\ UNCHANGED roots

\* PrepareBookDownload creates the download root once it has its operation, and removes
\* it before it ends the operation, unless there is a file to send.
BeginDownload(d) ==
    /\ http[d] = "leased"
    /\ \/ CheckOpen(d) /\ UNCHANGED roots
       \/ RegisterOperation(d) /\ roots' = roots \cup {d}
    /\ UNCHANGED <<jobs, overload, stopping, http, leases, leaked, monitor, mainVars>>

\* Minutes pass only where the main thread has nothing to do; the monitor, which it joins
\* first, takes half a minute.
MainBlocked ==
    \/ main = "serving" /\ ~signal
    \/ main = "joining" /\ Running # {}
    \/ main = "closing" /\ owner = "waiting" /\ operations > 0

PrepareDownload(d) ==
    /\ \/ PrepareEnds(d) /\ UNCHANGED late
       \/ PrepareCancelled(d) /\ UNCHANGED late
       \/ /\ MainBlocked
          /\ ConverterDeadline(d)
          /\ late' = IF main = "serving" THEN late ELSE late \cup {d}
    /\ IF outcome'[d] = "Ready" THEN UNCHANGED <<roots, leaked>> ELSE RemoveRoot(d)
    /\ UNCHANGED <<jobs, overload, stopping, http, leases, monitor, main, signal>>

EndDownload(d) ==
    /\ EndDownloadOperation(d)
    /\ UNCHANGED <<httpVars, mainVars>>

\* An exception is answered and the lease goes with it; a file is streamed, and the
\* lease belongs to the response.
ReturnFromHandler(d) ==
    /\ http[d] = "leased"
    /\ call[d] = "left"
    /\ IF outcome[d] = "Ready"
         THEN Move(d, "streaming") /\ UNCHANGED leases
         ELSE Move(d, "answered") /\ leases' = leases \ {d}
    /\ UNCHANGED <<hostVars, jobs, overload, stopping, roots, leaked, monitor, mainVars>>

\* Mutant of EndStream: the lease is returned before the file is removed.
EndStreamReleases(d) ==
    /\ http[d] = "streaming"
    /\ Move(d, "cleaned")
    /\ leases' = leases \ {d}
    /\ UNCHANGED <<hostVars, jobs, overload, stopping, roots, leaked, monitor, mainVars>>

\* The body is sent, the client is gone, or the range is refused:
\* ~CFileResponseLifetime first removes the root ...
EndStream(d) ==
    /\ http[d] = "streaming"
    /\ Move(d, "cleaned")
    /\ RemoveRoot(d)
    /\ UNCHANGED <<hostVars, jobs, overload, stopping, leases, monitor, mainVars>>

\* ... and then gives the lease back.
ReleaseLease(d) ==
    /\ http[d] = "cleaned"
    /\ Move(d, "answered")
    /\ leases' = leases \ {d}
    /\ UNCHANGED <<hostVars, jobs, overload, stopping, roots, leaked, monitor, mainVars>>

-----------------------------------------------------------------------------
(* RunServerMain                                                           *)

\* A failed Open unwinds main: the HTTP server is destroyed, then the host.
OpenHost ==
    /\ main = "opening"
    /\ OpenStep
    /\ main' = IF owner' = "idle" THEN (IF isOpen' THEN "serving" ELSE "stopHttp") ELSE main
    /\ UNCHANGED <<httpVars, signal, late>>

\* SIGINT or SIGTERM.
ShutdownSignal ==
    /\ ~signal
    /\ signal' = TRUE
    /\ UNCHANGED <<hostVars, httpVars, main, late>>

\* WaitForShutdownSignal returns.
LeaveServing ==
    /\ main = "serving"
    /\ signal
    /\ main' = "stopHttp"
    /\ UNCHANGED <<hostVars, httpVars, signal, late>>

\* Stop first ends the storage status monitor: the stop is requested without its mutex ...
RequestMonitorStop ==
    /\ main = "stopHttp"
    /\ main' = "notifyMonitor"
    /\ UNCHANGED <<hostVars, httpVars, signal, late>>

\* ... and a notification reaches it only while it waits.
NotifyMonitor ==
    /\ main = "notifyMonitor"
    /\ main' = "joinMonitor"
    /\ monitor' = IF monitor = "waiting" THEN "checking" ELSE monitor
    /\ UNCHANGED <<hostVars, serveVars, signal, late>>

\* Then, with the monitor gone, Stop ends the accept loop; shutdown() of the task queue.
StopHttp ==
    /\ main = "joinMonitor"
    /\ monitor = "off"
    /\ stopping' = TRUE
    /\ main' = "joining"
    /\ UNCHANGED <<hostVars, jobs, overload, http, leases, roots, leaked, monitor, signal, late>>

\* All workers have found the queue stopping and empty, the overload worker its slot.
WorkersGone == /\ jobs = <<>> /\ Running = {}
               /\ overload = NoRequest /\ At("rejecting") = {}

JoinWorkers ==
    /\ main = "joining"
    /\ WorkersGone
    /\ main' = "closing"
    /\ UNCHANGED <<hostVars, httpVars, signal, late>>

CloseHost ==
    /\ main = "closing"
    /\ BeginClose \/ CloseStep
    /\ UNCHANGED <<httpVars, mainVars>>

HostClosed == owner = "idle" /\ ~isOpen

Exit ==
    /\ main = "closing"
    /\ HostClosed
    /\ main' = "exited"
    /\ UNCHANGED <<hostVars, httpVars, signal, late>>

-----------------------------------------------------------------------------
(* The storage status monitor                                              *)

MonitorStopRequested == main \notin {"opening", "serving", "stopHttp"}

MonitorTo(from, place) ==
    /\ monitor = from
    /\ monitor' = place
    /\ UNCHANGED <<hostVars, serveVars, mainVars>>

\* The predicate is read, and only then the thread waits, for the interval at most.
CheckMonitorStop == MonitorTo("checking", IF MonitorStopRequested THEN "off" ELSE "entering")
EnterWait == MonitorTo("entering", "waiting")

\* Mutant of IntervalPasses: a wait without a deadline goes on until it is notified.
WaitWithoutDeadline == MonitorTo("waiting", "waiting")

IntervalPasses == MonitorTo("waiting", IF MonitorStopRequested THEN "off" ELSE "refreshing")

\* BuildStorageRuntimeStatus walks the directories without the lock; a failure is logged.
RefreshStatus == MonitorTo("refreshing", "checking")

MonitorStep == CheckMonitorStop \/ EnterWait \/ IntervalPasses \/ RefreshStatus

-----------------------------------------------------------------------------
RequestStep(d) ==
    \/ AnswerOverload(d)
    \/ CheckBackend(d)
    \/ TryAcquire(d)
    \/ BeginDownload(d)
    \/ PrepareDownload(d)
    \/ EndDownload(d)
    \/ ReturnFromHandler(d)
    \/ EndStream(d)
    \/ ReleaseLease(d)

MainStep ==
    \/ OpenHost \/ LeaveServing
    \/ RequestMonitorStop \/ NotifyMonitor \/ StopHttp \/ JoinWorkers
    \/ CloseHost \/ Exit

QueueStep == TakeJob \/ TakeOverload

Next ==
    \/ \E d \in Downloads : Enqueue(d) \/ RequestStep(d)
    \/ QueueStep
    \/ MainStep
    \/ MonitorStep
    \/ ShutdownSignal

Spec == Init /\ [][Next]_vars

\* All threads run.  A conversion ends at its deadline at the latest, a response at
\* the write timeout, a wait of the monitor after its interval.
FairSpec ==
    /\ Spec
    /\ WF_vars(MainStep) /\ WF_vars(MonitorStep)
    /\ WF_vars(TakeJob) /\ WF_vars(TakeOverload)
    /\ \A d \in Downloads : WF_vars(RequestStep(d))

-----------------------------------------------------------------------------
(* Properties                                                              *)

\* The prepared files on disk are those of requests that hold a lease: never more than
\* the configured number of concurrent downloads, from the creation of the root to the
\* end of the response, but for roots that could not be removed.  When the host is
\* closed, after the HTTP server, none is left and no download is under way.
PreparedFilesBounded ==
    /\ roots \ leaked \subseteq leases
    /\ Cardinality(leases) <= MaxConcurrentDownloads
    /\ main \in {"closing", "exited"} => leases = {} /\ Working = {}

\* Every request the task queue took is answered, or refused, in the end.
RequestsAnswered ==
    \A d \in Downloads : (http[d] \in {"queued", "overflow"}) ~> (http[d] = "answered")

\* The process ends after the signal, also when the notification comes between the monitor's
\* look at its stop token and its wait.
ServerStops == signal ~> (main = "exited")

\* A conversion in flight when the server shuts down is cancelled: it does not use up
\* its five minutes (docs/CodebaseMap.md: "receives request/shutdown cancellation").
ShutdownCancelsConversions == late = {}
=============================================================================
