------------------------------ MODULE ServerHost ------------------------------
(***************************************************************************)
(* The life of the application behind the server:                          *)
(* CServerApplicationHost of libs/Server/ServerApplicationHost.cpp.        *)
(*                                                                         *)
(* Most calls run on the backend thread, which also creates and destroys   *)
(* the application (ScanService models them).  Downloads do not: a request *)
(* thread takes a plain pointer to the application under m_downloadMutex   *)
(* and works with it for minutes, while the owner may close the host.      *)
(* An application is named by the number of the Open that created it, and  *)
(* so is the stop source that Open installs.                               *)
(***************************************************************************)
EXTENDS Integers, FiniteSets

CONSTANTS
    Downloads,  \* threads that call PrepareBookDownload
    Free,       \* m_downloadMutex is not held
    MaxOpens    \* bound: calls of Open

ASSUME HostAssumption ==
    /\ IsFiniteSet(Downloads)
    /\ Free \notin Downloads
    /\ MaxOpens \in Nat

VARIABLES
    isOpen,     \* m_isOpen
    app,        \* m_application, 0: null
    stopSource, \* m_downloadStopSource
    stopped,    \* stop sources whose stop was requested
    mutex,      \* the holder of m_downloadMutex
    operations, \* m_activeDownloadOperations
    owner,      \* where the caller of Open and Close stands
    opens,      \* calls of Open so far
    call,       \* download -> where its call stands
    context,    \* download -> its SDownloadOperationContext: application, stop source
    outcome     \* download -> how its call ended

ownerVars == <<isOpen, app, stopSource, stopped, owner, opens>>
callVars  == <<call, context, outcome>>
hostVars  == <<isOpen, app, stopSource, stopped, mutex, operations, owner, opens, call,
               context, outcome>>

NoContext == [application |-> 0, token |-> 0]

HostInit ==
    /\ isOpen = FALSE
    /\ app = 0
    /\ stopSource = 0
    /\ stopped = {}
    /\ mutex = Free
    /\ operations = 0
    /\ owner = "idle"
    /\ opens = 0
    /\ call = [d \in Downloads |-> "idle"]
    /\ context = [d \in Downloads |-> NoContext]
    /\ outcome = [d \in Downloads |-> "None"]

-----------------------------------------------------------------------------
(* Open                                                                    *)

\* The backend thread destroys what a failed Close left behind and calls the factory,
\* which may throw; then the cleanup leaves no application.
CreateApplication ==
    /\ owner = "idle"
    /\ ~isOpen
    /\ opens < MaxOpens
    /\ opens' = opens + 1
    /\ \/ /\ app' = opens + 1
          /\ owner' = "created"
       \/ /\ app' = 0
          /\ owner' = "idle"
    /\ UNCHANGED <<isOpen, stopSource, stopped, mutex, operations, callVars>>

RenewStopSource ==
    /\ owner = "created"
    /\ mutex = Free
    /\ stopSource' = opens
    /\ owner' = "renewed"
    /\ UNCHANGED <<isOpen, app, stopped, mutex, operations, opens, callVars>>

PublishOpen ==
    /\ owner = "renewed"
    /\ isOpen' = TRUE
    /\ owner' = "idle"
    /\ UNCHANGED <<app, stopSource, stopped, mutex, operations, opens, callVars>>

-----------------------------------------------------------------------------
(* Close                                                                   *)

\* m_isOpen.exchange(false).
BeginClose ==
    /\ owner = "idle"
    /\ isOpen
    /\ isOpen' = FALSE
    /\ owner' = "closing"
    /\ UNCHANGED <<app, stopSource, stopped, mutex, operations, opens, callVars>>

RequestStop ==
    /\ owner = "closing"
    /\ mutex = Free
    /\ stopped' = stopped \cup {stopSource}
    /\ owner' = "waiting"
    /\ UNCHANGED <<isOpen, app, stopSource, mutex, operations, opens, callVars>>

\* Mutant of AwaitDownloads: Close asks the downloads to stop and goes on.
AwaitNothing ==
    /\ owner = "waiting"
    /\ mutex = Free
    /\ owner' = "resetting"
    /\ UNCHANGED <<isOpen, app, stopSource, stopped, mutex, operations, opens, callVars>>

\* m_downloadsFinished.wait; its lock is given back.
AwaitDownloads ==
    /\ owner = "waiting"
    /\ mutex = Free
    /\ operations = 0
    /\ owner' = "resetting"
    /\ UNCHANGED <<isOpen, app, stopSource, stopped, mutex, operations, opens, callVars>>

\* The backend thread destroys the application; a full backend queue makes Close
\* give up and leave it.
ResetApplication ==
    /\ owner = "resetting"
    /\ app' \in {0, app}
    /\ owner' = "idle"
    /\ UNCHANGED <<isOpen, stopSource, stopped, mutex, operations, opens, callVars>>

-----------------------------------------------------------------------------
(* PrepareBookDownload                                                     *)

\* BeginDownloadOperation locks and looks; a closed host is refused at once.
CheckOpen(d) ==
    /\ call[d] = "idle"
    /\ mutex = Free
    /\ IF isOpen /\ app # 0
         THEN /\ mutex' = d
              /\ call' = [call EXCEPT ![d] = "checked"]
              /\ UNCHANGED outcome
         ELSE /\ call' = [call EXCEPT ![d] = "left"]
              /\ outcome' = [outcome EXCEPT ![d] = "NotOpen"]
              /\ UNCHANGED mutex
    /\ UNCHANGED <<ownerVars, operations, context>>

RegisterOperation(d) ==
    /\ call[d] = "checked"
    /\ operations' = operations + 1
    /\ context' = [context EXCEPT ![d] = [application |-> app, token |-> stopSource]]
    /\ call' = [call EXCEPT ![d] = "preparing"]
    /\ mutex' = Free
    /\ UNCHANGED <<ownerVars, outcome>>

Stopped(d) == context[d].token \in stopped

Prepared(d, result) ==
    /\ call[d] = "preparing"
    /\ call' = [call EXCEPT ![d] = "ending"]
    /\ outcome' = [outcome EXCEPT ![d] = result]
    /\ UNCHANGED <<ownerVars, mutex, operations, context>>

\* The application returns a file, or an error of its own.
PrepareEnds(d) == \E result \in {"Ready", "Error"} : Prepared(d, result)

\* A checkpoint of the download, or the converter, sees the stop.
PrepareCancelled(d) == Stopped(d) /\ Prepared(d, "Cancelled")

\* A converter that hangs is stopped by its deadline.
ConverterDeadline(d) == Prepared(d, "TimedOut")

\* EndDownloadOperation by the operation guard.
EndDownloadOperation(d) ==
    /\ call[d] = "ending"
    /\ mutex = Free
    /\ operations' = IF operations > 0 THEN operations - 1 ELSE 0
    /\ call' = [call EXCEPT ![d] = "left"]
    /\ context' = [context EXCEPT ![d] = NoContext]
    /\ UNCHANGED <<ownerVars, mutex, outcome>>

\* The thread calls again.
CallAgain(d) ==
    /\ call[d] = "left"
    /\ call' = [call EXCEPT ![d] = "idle"]
    /\ outcome' = [outcome EXCEPT ![d] = "None"]
    /\ UNCHANGED <<ownerVars, mutex, operations, context>>

-----------------------------------------------------------------------------
OpenStep == CreateApplication \/ RenewStopSource \/ PublishOpen
CloseStep == RequestStop \/ AwaitDownloads \/ ResetApplication

-----------------------------------------------------------------------------
(* Properties                                                              *)

Working == {d \in Downloads : call[d] \in {"preparing", "ending"}}

\* A download works only with an application that exists: Close destroys none that a
\* request thread still points to, although m_isOpen, the pointer and the counter are
\* read and written under different protections.  Its stop token is the one of the same
\* Open: the Close that waits for it has stopped it, and no earlier Close has.
NoUseAfterReset ==
    /\ mutex # Free => app # 0
    /\ \A d \in Working :
          /\ context[d].application # 0 /\ context[d].application = app
          /\ context[d].token = context[d].application
          /\ owner \in {"idle", "closing"} => ~Stopped(d)

\* Close returns, without help from the converters it waits for.
CloseEnds == (owner = "closing") ~> (owner = "idle")
=============================================================================
