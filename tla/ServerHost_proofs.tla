-------------------------- MODULE ServerHost_proofs --------------------------
(***************************************************************************)
(* Proofs about the host of ServerHost in its two surroundings, for every  *)
(* set of downloads and any number of calls of Open: with the converter    *)
(* (HostConversion) the protection of the application and the supervision  *)
(* of the processes, with the HTTP server (HttpService) the download gate. *)
(***************************************************************************)
EXTENDS HostConversion, HttpService, SequenceTheorems, FiniteSetTheorems, TLAPS

-----------------------------------------------------------------------------
(* The inductive invariant of the host                                     *)

Places == {"idle", "checked", "preparing", "ending", "left"}

HostTypeOK ==
    /\ isOpen \in BOOLEAN
    /\ app \in Nat /\ stopSource \in Nat /\ opens \in Nat /\ operations \in Nat
    /\ stopped \in SUBSET Nat
    /\ mutex \in Downloads \cup {Free}
    /\ owner \in {"idle", "created", "renewed", "closing", "waiting", "resetting"}
    /\ call \in [Downloads -> Places]
    /\ context \in [Downloads -> [application : Nat, token : Nat]]

\* The mutex belongs to the one download between its look at the host and its registration.
MutexInv == \A d \in Downloads : call[d] = "checked" <=> mutex = d

\* m_activeDownloadOperations counts the downloads that point to the application.
CounterInv == operations = Cardinality(Working)

\* Somebody points to the application, or is about to.
InUse == mutex # Free \/ Working # {}

\* The application and the stop source are those of the last Open while anyone may come to
\* use them, and nobody comes between the wait of one Close and the next Open.
OwnerInv ==
    /\ isOpen => owner = "idle"
    /\ isOpen \/ owner \in {"closing", "waiting"}
         => app = opens /\ stopSource = opens /\ opens # 0
    /\ owner \in {"created", "renewed"} => app = opens /\ opens # 0
    /\ owner = "renewed" => stopSource = opens
    /\ InUse => isOpen \/ owner \in {"closing", "waiting"}
    /\ mutex # Free => isOpen \/ owner = "closing"

\* Only closed hosts were stopped.
StopInv ==
    /\ \A t \in stopped : t <= opens
    /\ isOpen \/ owner \in {"created", "renewed", "closing"} => opens \notin stopped

ContextInv ==
    \A d \in Working : context[d].application = opens /\ context[d].token = opens

HostInv == HostTypeOK /\ MutexInv /\ CounterInv /\ OwnerInv /\ StopInv /\ ContextInv

-----------------------------------------------------------------------------
(* The inductive invariant of the conversion                               *)

Files     == 1..MaxExecutables
Preparing == {"none", "identify", "open", "probe", "reidentify", "launch"}
Emptied   == {"exited", "resolved", "copy"}
Over      == {"ended", "finished"} \cup Emptied
Looping   == {"poll", "look", "terminate", "terminating", "await", "reap"}
States    == {"none", "forked", "running", "deaf", "stuck", "zombie", "gone", "escaped"}

ConvTypeOK ==
    /\ step \in Preparing \cup Over \cup Looping
    /\ proc \in [Processes -> States]
    /\ killed \in BOOLEAN /\ reaped \in BOOLEAN
    /\ why \in {"none", "Cancelled", "TimedOut", "Error"}
    /\ produced \in {"nothing", "EPUB", "other"}

\* Apart, because the provers take numbers and names one at a time.
FilesOK ==
    /\ exe \in Files /\ bytes \in [Files -> Nat] /\ contents \in Nat
    /\ identity \in [file : Nat, bytes : Nat] /\ ran \in [file : Nat, bytes : Nat]
    /\ opened \in Nat /\ compared \in Nat

CopyOK ==
    /\ writes \in Nat /\ looked \in Nat /\ unread \in SUBSET Blocks
    /\ output \in [Blocks -> Nat] /\ copy \in [Blocks -> Nat]

\* Bytes that are written from now on are none that anything was compared with.
FreshInv ==
    /\ \A f \in Files : bytes[f] <= contents
    /\ identity.bytes <= contents /\ compared <= contents

\* When the probe has answered, its answer holds for the identity unless the file was written
\* since, which the second look tells; when Run has compared, the same is true of what is opened.
ProbeInv ==
    /\ step \in {"open", "probe", "reidentify", "launch"} => identity.file \in Files
    /\ step = "reidentify" /\ bytes[identity.file] = identity.bytes
         => identity.bytes \in Genuine
    /\ step = "launch" => identity.bytes \in Genuine
    /\ step \in Preparing => opened = 0 /\ ran = NoFile
    /\ opened # 0 => /\ opened \in Files /\ opened = identity.file
                     /\ identity.bytes \in Genuine
                     /\ bytes[opened] # identity.bytes => bytes[opened] > compared
    /\ ran # NoFile => /\ opened # 0 /\ ran.file = opened
                       /\ ran.bytes # identity.bytes => ran.bytes > compared

\* After SIGKILL, or when the group was seen to be empty, nobody runs, and whoever is stuck
\* dies when it wakes.
Quiet == \A p \in Processes : ~Runs(p) /\ (proc[p] = "stuck" => killed)

ProcessInv ==
    /\ step \in Preparing => proc = [p \in Processes |-> "none"]
    /\ step \in Over \cup {"await", "reap"} => Quiet
    /\ step \in Emptied \/ result = "Succeeded" => GroupEnded(proc)

\* The leader that ended without SIGKILL has executed the converter, or reports 127.
LeaderInv ==
    /\ proc["leader"] # "escaped"
    /\ step \in Looping \cup Emptied => opened # 0 /\ proc["leader"] # "none"
    /\ proc["leader"] \in {"running", "deaf", "stuck"} => ran # NoFile
    /\ ~killed /\ proc["leader"] \in {"zombie", "gone"} => ran # NoFile \/ code # 0
    /\ killed => step \in {"await", "reap", "ended", "finished"}
    /\ step \in {"resolved", "copy"} => code = 0

\* While nothing was written since the copy began, it agrees with the file where it was read.
OutputInv ==
    /\ produced # "nothing" => writes # 0
    /\ step \in {"resolved", "copy"} => writes # 0
    /\ step = "copy" =>
          looked <= writes /\ (looked = writes => \A b \in Blocks \ unread : copy[b] = output[b])
    /\ result = "Succeeded" =>
          /\ step = "finished" /\ ran # NoFile /\ code = 0
          /\ writes # 0 /\ copy = output

ConvInv ==
    ConvTypeOK /\ FilesOK /\ CopyOK /\ FreshInv /\ ProbeInv /\ ProcessInv /\ LeaderInv /\ OutputInv

IInv == HostInv /\ ConvInv

-----------------------------------------------------------------------------
(* The host                                                                *)

\* The host before any call.
LEMMA HostStart == HostInit => HostInv
<1> SUFFICES ASSUME HostInit PROVE HostInv
  OBVIOUS
<1>1. HostTypeOK
  BY HostAssumption DEF HostInit, HostTypeOK, NoContext, Places
<1>2. Working = {}
  BY DEF HostInit, Working
<1>3. CounterInv
  BY <1>2, FS_EmptySet DEF HostInit, CounterInv
<1>4. MutexInv /\ OwnerInv /\ StopInv /\ ContextInv
  BY <1>2, HostAssumption DEF HostInit, MutexInv, OwnerInv, StopInv, ContextInv, InUse
<1> QED
  BY <1>1, <1>3, <1>4 DEF HostInv

\* What the owner does changes no download.
LEMMA OwnerStep ==
    HostInv /\ (OpenStep \/ BeginClose \/ CloseStep) => HostInv'
<1> SUFFICES ASSUME HostInv, OpenStep \/ BeginClose \/ CloseStep PROVE HostInv'
  OBVIOUS
<1> USE DEF HostInv
<1>1. UNCHANGED <<mutex, operations, call, context>> /\ Working' = Working
  BY DEF OpenStep, CreateApplication, RenewStopSource, PublishOpen, BeginClose, CloseStep,
         RequestStop, AwaitDownloads, ResetApplication, callVars, Working
<1>2. MutexInv' /\ CounterInv'
  BY <1>1 DEF MutexInv, CounterInv
<1>3. InUse' = InUse
  BY <1>1 DEF InUse
<1>4. Working \subseteq Downloads /\ IsFiniteSet(Working)
  BY FS_Subset, HostAssumption DEF Working
<1>5. HostTypeOK'
  <2>1. CASE CreateApplication
    BY <1>1, <2>1 DEF HostTypeOK, CreateApplication
  <2>5. CASE RenewStopSource \/ PublishOpen
    BY <1>1, <2>5 DEF HostTypeOK, RenewStopSource, PublishOpen
  <2>2. CASE BeginClose \/ AwaitDownloads
    BY <1>1, <2>2 DEF HostTypeOK, BeginClose, AwaitDownloads
  <2>3. CASE RequestStop
    BY <1>1, <2>3 DEF HostTypeOK, RequestStop
  <2>4. CASE ResetApplication
    BY <1>1, <2>4 DEF HostTypeOK, ResetApplication
  <2> QED
    BY <2>1, <2>2, <2>3, <2>4, <2>5 DEF OpenStep, CloseStep
<1>6. CASE CreateApplication
  BY <1>1, <1>2, <1>3, <1>5, <1>6
  DEF CreateApplication, HostTypeOK, OwnerInv, StopInv, ContextInv, InUse
<1>7. CASE RenewStopSource \/ PublishOpen
  BY <1>1, <1>2, <1>3, <1>5, <1>7
  DEF RenewStopSource, PublishOpen, HostTypeOK, OwnerInv, StopInv, ContextInv, InUse
<1>8. CASE BeginClose \/ RequestStop
  BY <1>1, <1>2, <1>3, <1>5, <1>8
  DEF BeginClose, RequestStop, HostTypeOK, OwnerInv, StopInv, ContextInv, InUse
<1>9. CASE AwaitDownloads
  <2>1. Working = {}
    BY <1>4, <1>9, FS_EmptySet DEF AwaitDownloads, CounterInv
  <2> QED
    BY <1>1, <1>2, <1>3, <1>5, <1>9, <2>1
    DEF AwaitDownloads, HostTypeOK, OwnerInv, StopInv, ContextInv, InUse
<1>10. CASE ResetApplication
  BY <1>1, <1>2, <1>3, <1>5, <1>10
  DEF ResetApplication, HostTypeOK, OwnerInv, StopInv, ContextInv, InUse
<1> QED
  BY <1>6, <1>7, <1>8, <1>9, <1>10 DEF OpenStep, CloseStep

\* A call checks under the mutex that the host is open.
LEMMA CheckOpenStep ==
    ASSUME HostInv, NEW d \in Downloads, CheckOpen(d)
    PROVE  HostInv'
<1> USE DEF HostInv
<1>1. Working' = Working
  BY DEF CheckOpen, Working, HostTypeOK
<1>2. HostTypeOK' /\ MutexInv' /\ CounterInv'
  BY <1>1, HostAssumption
  DEF CheckOpen, HostTypeOK, MutexInv, CounterInv, ownerVars, Places
<1>3. OwnerInv' /\ StopInv' /\ ContextInv'
  BY <1>1 DEF CheckOpen, HostTypeOK, OwnerInv, StopInv, ContextInv, InUse, ownerVars
<1> QED
  BY <1>2, <1>3

\* A download is counted.
LEMMA RegisterOperationStep ==
    ASSUME HostInv, NEW d \in Downloads, RegisterOperation(d)
    PROVE  HostInv'
<1> USE DEF HostInv
<1>1. d \notin Working /\ Working' = Working \cup {d} /\ mutex = d
  BY DEF RegisterOperation, Working, HostTypeOK, MutexInv
<1>2. IsFiniteSet(Working)
  BY FS_Subset, HostAssumption DEF Working
<1>3. CounterInv'
  BY <1>1, <1>2, FS_AddElement DEF CounterInv, RegisterOperation
<1>4. HostTypeOK' /\ MutexInv'
  BY <1>1, HostAssumption DEF RegisterOperation, HostTypeOK, MutexInv, ownerVars, Places
<1>5. isOpen \/ owner = "closing"
  BY <1>1, HostAssumption DEF OwnerInv
<1>6. OwnerInv' /\ StopInv'
  BY <1>1, <1>5 DEF RegisterOperation, OwnerInv, StopInv, InUse, ownerVars
<1>7. ContextInv'
  BY <1>1, <1>5 DEF RegisterOperation, OwnerInv, ContextInv, HostTypeOK, ownerVars
<1> QED
  BY <1>3, <1>4, <1>6, <1>7

\* The preparation has its outcome.
LEMMA PreparedStep ==
    ASSUME HostInv, NEW d \in Downloads, NEW r, Prepared(d, r)
    PROVE  HostInv'
<1> USE DEF HostInv
<1>1. Working' = Working
  BY DEF Prepared, Working, HostTypeOK
<1>2. HostTypeOK' /\ MutexInv' /\ CounterInv'
  BY <1>1, HostAssumption DEF Prepared, HostTypeOK, MutexInv, CounterInv, ownerVars, Places
<1>3. OwnerInv' /\ StopInv' /\ ContextInv'
  BY <1>1 DEF Prepared, HostTypeOK, OwnerInv, StopInv, ContextInv, InUse, ownerVars
<1> QED
  BY <1>2, <1>3

\* The end of a download is counted.
LEMMA EndDownloadOperationStep ==
    ASSUME HostInv, NEW d \in Downloads, EndDownloadOperation(d)
    PROVE  HostInv'
<1> USE DEF HostInv
<1>1. d \in Working /\ Working' = Working \ {d}
  BY DEF EndDownloadOperation, Working, HostTypeOK
<1>2. IsFiniteSet(Working)
  BY FS_Subset, HostAssumption DEF Working
<1>3. Cardinality(Working') = Cardinality(Working) - 1 /\ Cardinality(Working) # 0
  BY <1>1, <1>2, FS_RemoveElement, FS_EmptySet
<1>4. CounterInv'
  BY <1>3 DEF CounterInv, EndDownloadOperation, HostTypeOK
<1>5. HostTypeOK' /\ MutexInv'
  BY <1>1 DEF EndDownloadOperation, HostTypeOK, MutexInv, ownerVars, NoContext, Places
<1>6. OwnerInv' /\ StopInv' /\ ContextInv'
  BY <1>1 DEF EndDownloadOperation, HostTypeOK, OwnerInv, StopInv, ContextInv, InUse, ownerVars
<1> QED
  BY <1>4, <1>5, <1>6

\* The thread calls again.
LEMMA CallAgainStep ==
    ASSUME HostInv, NEW d \in Downloads, CallAgain(d)
    PROVE  HostInv'
<1> USE DEF HostInv
<1>1. Working' = Working
  BY DEF CallAgain, Working, HostTypeOK
<1>2. HostTypeOK' /\ MutexInv' /\ CounterInv'
  BY <1>1, HostAssumption DEF CallAgain, HostTypeOK, MutexInv, CounterInv, ownerVars, Places
<1>3. OwnerInv' /\ StopInv' /\ ContextInv'
  BY <1>1 DEF CallAgain, HostTypeOK, OwnerInv, StopInv, ContextInv, InUse, ownerVars
<1> QED
  BY <1>2, <1>3

\* The host, while a converter steps.
LEMMA HostFrame == HostInv /\ UNCHANGED hostVars => HostInv'
BY DEF HostInv, hostVars, HostTypeOK, MutexInv, CounterInv, OwnerInv, StopInv, ContextInv,
       InUse, Working

-----------------------------------------------------------------------------
(* The conversion                                                          *)

\* No converter runs yet.
LEMMA ConvStart == ConvInit => ConvInv
<1> SUFFICES ASSUME ConvInit PROVE ConvInv
  OBVIOUS
<1> USE DEF ConvInit, Idle
<1>1. ConvTypeOK
  BY DEF ConvTypeOK, Preparing, States
<1>2. FilesOK /\ CopyOK
  BY ConverterAssumption DEF FilesOK, CopyOK, Files, NoFile
<1>3. FreshInv
  BY ConverterAssumption DEF FreshInv, Files, NoFile
<1>4. ProbeInv
  BY DEF ProbeInv
<1>5. ProcessInv /\ LeaderInv
  BY DEF ProcessInv, LeaderInv, Over, Emptied, Looping, Processes
<1>6. OutputInv
  BY DEF OutputInv
<1> QED
  BY <1>1, <1>2, <1>3, <1>4, <1>5, <1>6 DEF ConvInv

\* The steps before the converter is forked: the identity is taken, the file probed, and both
\* looks compared with the path.
LEMMA LaunchStep ==
    ASSUME ConvInv, ReadIdentity \/ OpenProbe \/ Probe \/ ReadIdentityAgain \/ StartProcess
    PROVE  ConvInv'
<1> USE DEF ConvInv, Conclude, fileVars, startVars, copyVars, runVars, outVars
<1>0. /\ UNCHANGED <<exe, bytes, contents, ran, killed, reaped, code, why, output, writes, looked,
                     copy, unread>>
      /\ step \in Preparing \ {"none"} /\ step' \in Preparing \cup {"poll", "finished"}
      /\ produced' \in {produced, "nothing"} /\ result' \in {result, "Failed", "Error"}
      /\ ran = NoFile /\ opened = 0
  BY DEF ReadIdentity, OpenProbe, Probe, ReadIdentityAgain, StartProcess, Preparing, ProbeInv
<1>1. \/ step' = "poll" /\ proc' = [proc EXCEPT !["leader"] = "forked"]
      \/ step' # "poll" /\ UNCHANGED proc
  BY DEF ReadIdentity, OpenProbe, Probe, ReadIdentityAgain, StartProcess
<1>2. proc = [p \in Processes |-> "none"]
  BY <1>0 DEF ProcessInv
<1>3. \/ proc' = [p \in Processes |-> "none"]
      \/ step' = "poll" /\ proc' \in [Processes -> States] /\ proc'["leader"] = "forked"
  BY <1>1, <1>2 DEF States, Processes
<1>4. \/ identity' = identity
      \/ step' = "open" /\ identity' = Identity /\ UNCHANGED opened
  BY DEF ReadIdentity, OpenProbe, Probe, ReadIdentityAgain, StartProcess
<1>5. Identity.file = exe /\ Identity.bytes = bytes[exe] /\ Identity \in [file : Nat, bytes : Nat]
      /\ bytes[exe] <= contents /\ Identity.file \in Files
  BY ConverterAssumption DEF Identity, FilesOK, FreshInv, Files
<1>6. \/ step' # "poll" /\ UNCHANGED <<opened, compared>>
      \/ step' = "poll" /\ opened' = exe /\ compared' = contents /\ step = "launch"
                        /\ Identity = identity /\ UNCHANGED identity
  BY DEF ReadIdentity, OpenProbe, Probe, ReadIdentityAgain, StartProcess, SameExecutable
<1>7. ConvTypeOK'
  <2>1. proc' \in [Processes -> States]
    BY <1>2, <1>3 DEF States
  <2>2. produced' \in {"nothing", "EPUB", "other"}
    BY <1>0 DEF ConvTypeOK
  <2> QED
    BY <1>0, <2>1, <2>2 DEF ConvTypeOK, Over, Looping
<1>8. FilesOK' /\ CopyOK'
  <2>1. exe \in Nat
    BY ConverterAssumption DEF FilesOK, Files
  <2> QED
    BY <1>0, <1>4, <1>5, <1>6, <2>1 DEF FilesOK, CopyOK
<1>9. FreshInv'
  <2>1. identity' \in {identity, Identity} /\ compared' \in {compared, contents}
    BY <1>4, <1>6
  <2> QED
    BY <1>0, <1>5, <2>1 DEF FreshInv, FilesOK
<1>10. ProbeInv'
  <2>1. CASE ReadIdentity
    BY <1>0, <1>4, <1>5, <2>1 DEF ReadIdentity, ProbeInv, NoFile
  <2>2. CASE OpenProbe
    BY <1>0, <2>2 DEF OpenProbe, ProbeInv, Preparing
  <2>3. CASE Probe
    BY <1>0, <2>3 DEF Probe, ProbeInv, HelpOutputValid, Preparing
  <2>4. CASE ReadIdentityAgain
    BY <1>0, <1>5, <2>4 DEF ReadIdentityAgain, SameIdentity, ProbeInv, Preparing
  <2>5. CASE StartProcess
    BY <1>0, <1>5, <2>5 DEF StartProcess, SameExecutable, ProbeInv, Preparing, FilesOK
  <2> QED
    BY <2>1, <2>2, <2>3, <2>4, <2>5
<1>11. result' # "Succeeded" /\ result # "Succeeded"
  BY <1>0 DEF OutputInv, Preparing
<1>12. ProcessInv'
  BY <1>0, <1>2, <1>3, <1>1, <1>11 DEF ProcessInv, Quiet, Runs, Preparing, Over, Emptied
<1>13. LeaderInv'
  <2>1. step' = "poll" => opened' # 0
    BY <1>6, ConverterAssumption DEF FilesOK, Files
  <2>2. step' # "poll" => step' \notin Looping \cup Emptied
    BY <1>0 DEF Looping, Emptied, Preparing
  <2>3. step' \notin {"resolved", "copy"} /\ ~killed'
    <3>1. ~killed
      BY <1>0 DEF LeaderInv, Preparing
    <3> QED
      BY <1>0, <3>1 DEF Preparing
  <2>4. \/ step' # "poll" /\ proc'["leader"] = "none"
        \/ step' = "poll" /\ proc'["leader"] = "forked"
    BY <1>1, <1>2 DEF Processes
  <2> QED
    BY <2>1, <2>2, <2>3, <2>4 DEF LeaderInv
<1>14. OutputInv'
  BY <1>0, <1>11 DEF OutputInv, Preparing
<1> QED
  BY <1>7, <1>8, <1>9, <1>10, <1>12, <1>13, <1>14

\* The loop of Run and TerminateAndWait.
LEMMA SuperviseStep ==
    ASSUME ConvInv, NEW stop,
           \/ CheckStop(stop) \/ PollProcess \/ WaitFails \/ DeadlinePasses
           \/ SendTerm \/ AwaitTerm \/ SendKill \/ AwaitLeader \/ ReapRest
    PROVE  ConvInv'
<1> USE DEF ConvInv
<1>0. /\ UNCHANGED <<fileVars, startVars, outVars, code>>
      /\ step \in Looping /\ step' \in Looping \cup {"exited", "ended"}
  BY DEF CheckStop, PollProcess, WaitFails, DeadlinePasses, SendTerm, AwaitTerm, SendKill,
         AwaitLeader, ReapRest, runVars, Looping
<1>1. \/ proc' = proc \/ proc' = Reap(proc) \/ proc' = [proc EXCEPT !["leader"] = "gone"]
      \/ proc' = [p \in Processes |-> IF Struck(p) THEN "zombie" ELSE proc[p]]
  BY DEF CheckStop, PollProcess, WaitFails, DeadlinePasses, SendTerm, AwaitTerm, SendKill,
         AwaitLeader, ReapRest
<1>2. proc' \in [Processes -> States]
  BY <1>1 DEF ConvTypeOK, Reap, States
<1>3. /\ killed' \in BOOLEAN /\ reaped' \in BOOLEAN
      /\ why' \in {"none", "Cancelled", "TimedOut", "Error"}
  BY DEF CheckStop, PollProcess, WaitFails, DeadlinePasses, SendTerm, AwaitTerm, SendKill,
         AwaitLeader, ReapRest, runVars, ConvTypeOK
<1>4. ConvTypeOK'
  BY <1>0, <1>2, <1>3 DEF ConvTypeOK, Over, Emptied, outVars
<1>5. FilesOK' /\ CopyOK' /\ FreshInv'
  BY <1>0 DEF FilesOK, CopyOK, FreshInv, fileVars, startVars, outVars, copyVars
<1>6. ProbeInv'
  BY <1>0 DEF ProbeInv, fileVars, startVars, Looping, Preparing
<1>7. OutputInv'
  BY <1>0 DEF OutputInv, startVars, outVars, copyVars, Looping
<1>8. ProcessInv'
  <2>1. step' \notin Preparing /\ result' # "Succeeded"
    BY <1>0 DEF Looping, Preparing, OutputInv, outVars
  <2>2. step' \in Over \cup {"await", "reap"} => Quiet'
    BY <1>0 DEF CheckStop, PollProcess, WaitFails, DeadlinePasses, SendTerm, AwaitTerm, SendKill,
                AwaitLeader, ReapRest, runVars, ConvTypeOK, ProcessInv, Quiet, Runs, Struck, Reap,
                GroupEnded, Processes, Over, Emptied, Looping
  <2>3. step' \in Emptied => GroupEnded(proc')
    BY <1>0 DEF CheckStop, PollProcess, WaitFails, DeadlinePasses, SendTerm, AwaitTerm, SendKill,
                AwaitLeader, ReapRest, runVars, Emptied, Looping
  <2> QED
    BY <2>1, <2>2, <2>3 DEF ProcessInv
<1>9. LeaderInv'
  <2>1. killed' => step' \in {"await", "reap", "ended", "finished"}
    BY DEF CheckStop, PollProcess, WaitFails, DeadlinePasses, SendTerm, AwaitTerm, SendKill,
           AwaitLeader, ReapRest, runVars, LeaderInv, Looping
  <2>2. /\ proc'["leader"] # "escaped"
        /\ proc["leader"] # "none" => proc'["leader"] # "none"
        /\ proc'["leader"] \in {"running", "deaf", "stuck"} => proc["leader"] = proc'["leader"]
        /\ proc'["leader"] \in {"zombie", "gone"} /\ ~killed'
              => proc["leader"] \in {"zombie", "gone"} /\ ~killed
    BY <1>1 DEF CheckStop, PollProcess, WaitFails, DeadlinePasses, SendTerm, AwaitTerm, SendKill,
           AwaitLeader, ReapRest, runVars, LeaderInv, Reap, Processes, ConvTypeOK, Struck, Runs
  <2> QED
    BY <1>0, <2>1, <2>2 DEF LeaderInv, startVars, Looping, Emptied
<1> QED
  BY <1>4, <1>5, <1>6, <1>7, <1>8, <1>9

\* The output is given up, resolved, copied or sealed: nobody is left in the group.
LEMMA OutputStep ==
    ASSUME ConvInv,
           \/ GiveUp \/ ResolveOutput \/ OpenOutput
           \/ (\E b \in Blocks : CopyBlock(b)) \/ SealOutput
    PROVE  ConvInv'
<1> USE DEF ConvInv
<1>0. /\ UNCHANGED <<fileVars, startVars, proc, runVars, output, writes>>
      /\ step \in Emptied \cup {"ended"} /\ step' \in {"resolved", "copy", "finished"}
      /\ produced' \in {produced, "nothing"}
  BY DEF GiveUp, ResolveOutput, OpenOutput, CopyBlock, SealOutput, Conclude, outVars, copyVars,
         Emptied
<1>1. ConvTypeOK'
  BY <1>0 DEF ConvTypeOK, Over, Emptied, runVars
<1>2. FilesOK' /\ FreshInv' /\ ProbeInv'
  BY <1>0 DEF FilesOK, FreshInv, ProbeInv, fileVars, startVars, Emptied, Preparing
<1>3. CopyOK'
  BY <1>0 DEF CopyOK, GiveUp, ResolveOutput, OpenOutput, CopyBlock, SealOutput, Conclude,
              outVars, copyVars
<1>4. step = "ended" => result' # "Succeeded" /\ step' = "finished"
  BY DEF GiveUp, ResolveOutput, OpenOutput, CopyBlock, SealOutput, Conclude, ConvTypeOK
<1>5. ProcessInv'
  BY <1>0, <1>4 DEF ProcessInv, Quiet, Runs, GroupEnded, runVars, Over, Emptied, Preparing
<1>6. LeaderInv'
  <2>1. step' \in {"resolved", "copy"} => code = 0 /\ step \in Emptied
    BY DEF GiveUp, ResolveOutput, OpenOutput, CopyBlock, SealOutput, Conclude, LeaderInv, Emptied
  <2> QED
    BY <1>0, <2>1 DEF LeaderInv, startVars, runVars, Looping, Emptied
<1>7. OutputInv'
  <2>1. CASE GiveUp
    BY <2>1, <1>0, <1>4 DEF GiveUp, Conclude, OutputInv
  <2>2. CASE ResolveOutput
    BY <2>2, <1>0 DEF ResolveOutput, Conclude, OutputInv, outVars
  <2>3. CASE OpenOutput
    BY <2>3, <1>0 DEF OpenOutput, Conclude, OutputInv, CopyOK
  <2>4. ASSUME NEW b \in Blocks, CopyBlock(b) PROVE OutputInv'
    BY <2>4, <1>0 DEF CopyBlock, Conclude, OutputInv, CopyOK
  <2>5. CASE SealOutput
    <3>1. ran # NoFile /\ code = 0
      BY <2>5 DEF SealOutput, LeaderInv, Emptied, ProcessInv, GroupEnded, Processes
    <3>2. CopyIntact => copy = output
      BY <2>5 DEF SealOutput, CopyIntact, OutputInv, CopyOK
    <3> QED
      BY <2>5, <1>0, <3>1, <3>2
      DEF SealOutput, Conclude, OutputInv, copyVars, startVars, runVars
  <2> QED
    BY <2>1, <2>2, <2>3, <2>4, <2>5
<1> QED
  BY <1>1, <1>2, <1>3, <1>5, <1>6, <1>7

\* The child of fork executes the descriptor that was compared.
LEMMA ExecuteStep ==
    ASSUME ConvInv, ExecuteConverter
    PROVE  ConvInv'
<1> USE DEF ConvInv
<1>0. /\ UNCHANGED <<fileVars, step, identity, opened, compared, killed, reaped, why, outVars>>
      /\ proc["leader"] = "forked"
      /\ \E s \in {"running", "deaf", "zombie"} :
            /\ proc' = [proc EXCEPT !["leader"] = s]
            /\ IF s = "zombie" THEN code' = 127
                               ELSE ran' = [file |-> opened, bytes |-> bytes[opened]]
      /\ \/ ran' = ran /\ code' = 127
         \/ ran' = [file |-> opened, bytes |-> bytes[opened]] /\ code' = code
  BY DEF ExecuteConverter
<1>1. step \in Looping /\ opened \in Files /\ opened # 0
  <2>1. step \in Looping /\ step \notin {"await", "reap"}
    BY <1>0 DEF ProcessInv, Quiet, Runs, Processes, ConvTypeOK
  <2> QED
    BY <2>1 DEF LeaderInv, ProbeInv
<1>2. /\ [file |-> opened, bytes |-> bytes[opened]] \in [file : Nat, bytes : Nat]
      /\ [file |-> opened, bytes |-> bytes[opened]] # NoFile
  BY <1>1, ConverterAssumption DEF FilesOK, Files, NoFile
<1>3. ConvTypeOK'
  <2>1. proc' \in [Processes -> States]
    BY <1>0 DEF ConvTypeOK, States, Processes
  <2> QED
    BY <1>0, <2>1 DEF ConvTypeOK, outVars
<1>4. FilesOK' /\ CopyOK' /\ FreshInv'
  BY <1>0, <1>2 DEF FilesOK, CopyOK, FreshInv, fileVars, outVars, copyVars
<1>5. ProbeInv'
  <2>1. ran' = ran \/ (ran'.file = opened /\ ran'.bytes = bytes[opened])
    BY <1>0
  <2>2. step \notin Preparing
    BY <1>1 DEF Looping, Preparing
  <2> QED
    BY <1>0, <1>1, <2>1, <2>2 DEF ProbeInv, fileVars
<1>6. result # "Succeeded"
  BY <1>1 DEF OutputInv, Looping
<1>7. ProcessInv'
  <2>1. step \notin Preparing \cup Over \cup {"await", "reap"}
    BY <1>0, <1>1 DEF ProcessInv, Quiet, Runs, Processes, Looping, Preparing, Over, Emptied
  <2> QED
    BY <1>0, <1>6, <2>1 DEF ProcessInv, outVars, Over
<1>8. LeaderInv'
  <2>2. \/ proc'["leader"] = "zombie" /\ code' = 127
        \/ proc'["leader"] \in {"running", "deaf"} /\ ran' # NoFile
    BY <1>0, <1>2 DEF ConvTypeOK, Processes
  <2>3. step \notin {"resolved", "copy"}
    BY <1>1 DEF Looping
  <2> QED
    BY <1>0, <2>2, <2>3 DEF LeaderInv
<1>9. OutputInv'
  BY <1>0, <1>1, <1>6 DEF OutputInv, outVars, copyVars, Looping
<1> QED
  BY <1>3, <1>4, <1>5, <1>7, <1>8, <1>9

\* The processes of the converter.
LEMMA ProcessStep ==
    ASSUME ConvInv,
           \/ SpawnHelper \/ HelperEscapes
           \/ \E p \in Processes : ProcessEnds(p) \/ ProcessSticks(p) \/ ProcessWakes(p)
    PROVE  ConvInv'
<1> USE DEF ConvInv
<1>0. /\ UNCHANGED <<fileVars, step, startVars, killed, reaped, why, outVars>>
      /\ \E p \in Processes, s \in {"running", "deaf", "stuck", "zombie", "escaped"} :
            /\ proc' = [proc EXCEPT ![p] = s]
            /\ p = "leader" => s # "escaped" /\ proc[p] \in {"running", "deaf", "stuck"}
            /\ code' = code \/ (p = "leader" /\ code' \in {0, 1})
            /\ proc[p] \notin {"gone", "escaped"}
            /\ proc[p] = "none" => Converts("leader")
            /\ proc[p] = "stuck" => s = IF killed THEN "zombie" ELSE "deaf"
            /\ proc[p] # "none" /\ proc[p] # "stuck" => Runs(p)
  BY DEF ProcOnly, Converts, Runs, SpawnHelper, HelperEscapes, ProcessEnds, ProcessSticks,
         ProcessWakes, Processes
<1>1. ConvTypeOK'
  BY <1>0 DEF ConvTypeOK, States, outVars
<1>2. FilesOK' /\ CopyOK' /\ FreshInv' /\ ProbeInv'
  BY <1>0 DEF FilesOK, CopyOK, FreshInv, ProbeInv, fileVars, startVars, outVars, copyVars
<1>3. ~GroupEnded(proc) /\ proc # [p \in Processes |-> "none"]
  BY <1>0 DEF GroupEnded, Converts, Runs, Processes, ConvTypeOK
<1>4. step \notin Preparing \cup Emptied /\ result # "Succeeded"
  BY <1>3 DEF ProcessInv
<1>5. ProcessInv'
  BY <1>0, <1>4 DEF ConvTypeOK, ProcessInv, Quiet, Runs, Converts, Processes, outVars
<1>6. LeaderInv'
  BY <1>0, <1>4 DEF LeaderInv, ConvTypeOK, Processes, startVars, Emptied
<1>7. OutputInv'
  BY <1>0, <1>4 DEF OutputInv, startVars, outVars, copyVars, Emptied
<1> QED
  BY <1>1, <1>2, <1>5, <1>6, <1>7

\* What they write, also after they left the group, shows in the state of the file.
LEMMA WriteStep ==
    ASSUME ConvInv, NEW p \in Processes, ProcessWrites(p)
    PROVE  ConvInv'
<1> USE DEF ConvInv
<1>0. /\ produced' \in {"EPUB", "other"} /\ step # "finished" /\ writes' = writes + 1
      /\ UNCHANGED <<fileVars, step, startVars, proc, killed, reaped, code, why, looked, copy,
                     unread, result>>
      /\ \E b \in Blocks : output' = [output EXCEPT ![b] = writes + 1]
  BY DEF ProcessWrites, runVars, copyVars
<1>1. ConvTypeOK'
  BY <1>0 DEF ConvTypeOK
<1>2. FilesOK' /\ FreshInv' /\ ProbeInv'
  BY <1>0 DEF FilesOK, FreshInv, ProbeInv, fileVars, startVars
<1>3. CopyOK'
  BY <1>0 DEF CopyOK
<1>6. writes' # 0 /\ (looked <= writes => looked <= writes' /\ looked # writes')
  BY <1>0 DEF CopyOK
<1>4. ProcessInv' /\ LeaderInv'
  BY <1>0 DEF ProcessInv, LeaderInv, Quiet, Runs, startVars
<1>5. OutputInv'
  BY <1>0, <1>6 DEF OutputInv
<1> QED
  BY <1>1, <1>2, <1>3, <1>4, <1>5

\* The owner of the executable renames files and writes into them.
LEMMA OwnerOfFilesStep ==
    ASSUME ConvInv, ReplaceExecutable \/ \E f \in Files : RewriteExecutable(f)
    PROVE  ConvInv'
<1> USE DEF ConvInv
<1>0. UNCHANGED <<step, startVars, proc, runVars, outVars>>
  BY DEF ReplaceExecutable, RewriteExecutable
<1>1. ConvTypeOK' /\ CopyOK'
  BY <1>0 DEF ConvTypeOK, CopyOK, runVars, outVars, copyVars
<1>2. ProcessInv' /\ LeaderInv' /\ OutputInv'
  BY <1>0 DEF ProcessInv, LeaderInv, OutputInv, Quiet, Runs, startVars, runVars, outVars, copyVars
<1>3. CASE ReplaceExecutable
  <2>1. UNCHANGED <<bytes, contents, startVars>> /\ exe' \in Files
    BY <1>3 DEF ReplaceExecutable, Files
  <2> QED
    BY <1>0, <1>1, <1>2, <2>1 DEF FilesOK, FreshInv, ProbeInv, startVars
<1>4. ASSUME NEW f \in Files, RewriteExecutable(f) PROVE ConvInv'
  <2>1. /\ UNCHANGED <<exe, startVars>> /\ contents' = contents + 1
        /\ bytes' = [bytes EXCEPT ![f] = contents + 1]
    BY <1>4 DEF RewriteExecutable
  <2>2. FilesOK'
    BY <2>1 DEF FilesOK, startVars
  <2>3. FreshInv'
    BY <2>1 DEF FilesOK, FreshInv, startVars
  <2>4. ProbeInv'
    <3>1. \A g \in Files : bytes'[g] = bytes[g] \/ (bytes'[g] > identity.bytes /\ bytes'[g] > compared)
      BY <2>1 DEF FilesOK, FreshInv
    <3>2. identity.bytes \in Nat
      BY DEF FilesOK
    <3>3. \A g \in Files : bytes'[g] = identity.bytes => bytes[g] = identity.bytes
      BY <3>1, <3>2, <2>2 DEF FilesOK
    <3> QED
      BY <1>0, <2>1, <3>1, <3>3 DEF ProbeInv, startVars
  <2> QED
    BY <1>1, <1>2, <2>2, <2>3, <2>4
<1> QED
  BY <1>3, <1>4

\* The next conversion begins afresh.
LEMMA BoundaryStep ==
    ASSUME ConvInv, BeginConversion \/ EndConversion \/ UNCHANGED convVars
    PROVE  ConvInv'
<1> USE DEF ConvInv
<1>1. CASE BeginConversion
  <2>1. /\ step = "none" /\ step' = "identify"
        /\ UNCHANGED <<fileVars, startVars, proc, runVars, outVars>>
    BY <1>1 DEF BeginConversion
  <2>2. ConvTypeOK' /\ FilesOK' /\ CopyOK' /\ FreshInv'
    BY <2>1 DEF ConvTypeOK, FilesOK, CopyOK, FreshInv, Preparing, fileVars, startVars, runVars,
                outVars, copyVars
  <2>3. ProbeInv' /\ OutputInv'
    BY <2>1 DEF ProbeInv, OutputInv, Preparing, fileVars, startVars, runVars, outVars, copyVars
  <2>4. ProcessInv' /\ LeaderInv'
    BY <2>1 DEF ProcessInv, LeaderInv, Quiet, Runs, Preparing, Over, Emptied, Looping, startVars,
                runVars, outVars
  <2> QED
    BY <2>2, <2>3, <2>4
<1>2. CASE EndConversion
  <2> USE <1>2 DEF EndConversion, fileVars
  <2>1. ConvTypeOK'
    BY DEF ConvTypeOK, Preparing, States
  <2>2. FilesOK' /\ CopyOK'
    BY DEF FilesOK, CopyOK, NoFile
  <2>3. FreshInv'
    BY DEF FreshInv, FilesOK, NoFile
  <2>4. ProbeInv' /\ OutputInv'
    BY DEF ProbeInv, OutputInv
  <2>5. ProcessInv' /\ LeaderInv'
    BY DEF ProcessInv, LeaderInv, Preparing, Over, Emptied, Looping, Processes
  <2> QED
    BY <2>1, <2>2, <2>3, <2>4, <2>5
<1>3. CASE UNCHANGED convVars
  <2> USE <1>3 DEF convVars, fileVars, startVars, runVars, outVars, copyVars
  <2>1. ConvTypeOK' /\ FilesOK' /\ CopyOK' /\ FreshInv'
    BY DEF ConvTypeOK, FilesOK, CopyOK, FreshInv
  <2>2. ProbeInv' /\ OutputInv'
    BY DEF ProbeInv, OutputInv
  <2>3. ProcessInv' /\ LeaderInv'
    BY DEF ProcessInv, LeaderInv, Quiet, Runs
  <2> QED
    BY <2>1, <2>2, <2>3
<1> QED
  BY <1>1, <1>2, <1>3

-----------------------------------------------------------------------------
(* The composition                                                         *)

\* IInv is an inductive invariant: every step of the owner, of a download, of the conversion
\* and of the converter's processes preserves what the other parts rely on.
THEOREM Invariance == HostConvSpec => []IInv
<1>1. HostConvInit => IInv
  BY HostStart, ConvStart DEF HostConvInit, IInv
<1>2. IInv /\ [HostConvNext]_hostConvVars => IInv'
  <2> SUFFICES ASSUME IInv, [HostConvNext]_hostConvVars PROVE IInv'
    OBVIOUS
  <2> USE DEF IInv
  <2>1. CASE (OpenStep \/ BeginClose \/ CloseStep) /\ UNCHANGED convVars
    BY <2>1, OwnerStep, BoundaryStep
  <2>2. ASSUME NEW d \in Downloads,
               CheckOpen(d) \/ RegisterOperation(d) \/ EndDownloadOperation(d) \/ CallAgain(d),
               UNCHANGED convVars
        PROVE  IInv'
    BY <2>2, CheckOpenStep, RegisterOperationStep, EndDownloadOperationStep, CallAgainStep,
       BoundaryStep
  <2>3. ASSUME NEW d \in Downloads, PlainPrepare(d) PROVE IInv'
    BY <2>3, PreparedStep, BoundaryStep DEF PlainPrepare, PrepareEnds, PrepareCancelled
  <2>4. CASE ConversionStep
    <3>1. CASE BeginConversion
      BY <3>1, HostFrame, BoundaryStep DEF BeginConversion
    <3>2. CASE Supervise(Stopped(Converting)) /\ UNCHANGED hostVars
      BY <3>2, HostFrame, LaunchStep, SuperviseStep, OutputStep DEF Supervise
    <3>3. CASE EndConversion
      BY <3>3, PreparedStep, BoundaryStep, ConvertingAssumption DEF EndConversion
    <3> QED
      BY <2>4, <3>1, <3>2, <3>3 DEF ConversionStep
  <2>5. CASE ConvEnvironment /\ UNCHANGED hostVars
    BY <2>5, HostFrame, SuperviseStep, ExecuteStep, ProcessStep, WriteStep, OwnerOfFilesStep
    DEF ConvEnvironment, Files
  <2>6. CASE UNCHANGED hostConvVars
    BY <2>6, HostFrame, BoundaryStep DEF hostConvVars
  <2> QED
    BY <2>1, <2>2, <2>3, <2>4, <2>5, <2>6 DEF HostConvNext
<1> QED
  BY <1>1, <1>2, PTL DEF HostConvSpec

\* However Open, Close and the downloads interleave, no download holds a pointer to an
\* application that is gone, nor the stop token of another Open.
THEOREM ApplicationOutlivesDownloads == HostConvSpec => []NoUseAfterReset
<1>1. IInv => NoUseAfterReset
  BY DEF IInv, HostInv, HostTypeOK, OwnerInv, ContextInv, StopInv, InUse, Working,
         NoUseAfterReset, Stopped
<1> QED
  BY <1>1, Invariance, PTL

\* Whatever is renamed over the converter's path or written into it, and when: the file that
\* is started is the one that was validated, with the bytes that answered the probe, unless it
\* was itself written into after Run compared it.
THEOREM OnlyProbedAlwaysRuns == HostConvSpec => []OnlyProbedExecutableRuns
<1>1. IInv => OnlyProbedExecutableRuns
  BY DEF IInv, ConvInv, ProbeInv, OnlyProbedExecutableRuns
<1> QED
  BY <1>1, Invariance, PTL

\* However a conversion ends, nobody in its process group runs afterwards.
THEOREM GroupAlwaysStopped == HostConvSpec => []GroupStopped
<1>1. IInv => GroupStopped
  BY DEF IInv, ConvInv, ProcessInv, Quiet, Over, Emptied, GroupStopped
<1> QED
  BY <1>1, Invariance, PTL

\* A converted book that is delivered is the output at one moment of a converter that was
\* executed, ended with 0 and left nobody in its group, whatever is written while it is read.
THEOREM OutputAlwaysWhole == HostConvSpec => []DeliveredOutputWhole
<1>1. IInv => DeliveredOutputWhole
  BY DEF IInv, ConvInv, OutputInv, ProcessInv, GroupEnded, InGroup, DeliveredOutputWhole
<1> QED
  BY <1>1, Invariance, PTL

-----------------------------------------------------------------------------
(* Waiting in Close: the safety half of CloseEnds                          *)

\* The conversion is part of a call that is preparing its file.
ConversionInv == step # "none" => call[Converting] = "preparing"

\* Close waits after it has asked the downloads of the last Open to stop.
AskedInv == owner = "waiting" => opens \in stopped

WaitInv == ConversionInv /\ AskedInv

\* What Close waits for is somebody's work, and that work has been told to stop: the mutex is
\* free, the counter is above zero only while a download still works, and every download that
\* works holds a token whose stop was requested.  Where the wait is over, until the next Open
\* lets downloads in, nobody prepares a file and no converter is under way.
CloseWaitJustified ==
    /\ owner = "waiting" => /\ mutex = Free
                            /\ operations # 0 => Working # {}
                            /\ \A d \in Working : Stopped(d)
    /\ owner \in {"resetting", "created", "renewed"} \/ app = 0
         => Working = {} /\ step = "none" /\ \A p \in Processes : ~Runs(p)

\* The owner's steps do not touch the calls, and only RequestStop begins the wait.
LEMMA OwnerWaits ==
    ASSUME IInv, WaitInv, OpenStep \/ BeginClose \/ CloseStep, UNCHANGED convVars
    PROVE  WaitInv'
<1>1. ConversionInv'
  BY DEF WaitInv, ConversionInv, convVars, OpenStep, CreateApplication, RenewStopSource,
         PublishOpen, BeginClose, CloseStep, RequestStop, AwaitDownloads, ResetApplication,
         callVars
<1>2. AskedInv'
  <2>1. CASE RequestStop
    BY <2>1 DEF RequestStop, AskedInv, IInv, HostInv, OwnerInv
  <2>2. CASE OpenStep \/ BeginClose \/ AwaitDownloads \/ ResetApplication
    BY <2>2 DEF OpenStep, CreateApplication, RenewStopSource, PublishOpen, BeginClose,
                AwaitDownloads, ResetApplication, AskedInv
  <2> QED
    BY <2>1, <2>2 DEF CloseStep
<1> QED
  BY <1>1, <1>2 DEF WaitInv

\* A call that is not preparing is not the one that converts.
LEMMA CallWaits ==
    ASSUME IInv, WaitInv, NEW d \in Downloads,
           CheckOpen(d) \/ RegisterOperation(d) \/ EndDownloadOperation(d) \/ CallAgain(d),
           UNCHANGED convVars
    PROVE  WaitInv'
<1>1. call \in [Downloads -> Places] /\ call[d] # "preparing"
  BY DEF IInv, HostInv, HostTypeOK, CheckOpen, RegisterOperation, EndDownloadOperation,
         CallAgain
<1>2. \A e \in Downloads : e # d => call'[e] = call[e]
  BY <1>1 DEF CheckOpen, RegisterOperation, EndDownloadOperation, CallAgain
<1>3. UNCHANGED <<owner, opens, stopped, step>>
  BY DEF CheckOpen, RegisterOperation, EndDownloadOperation, CallAgain, ownerVars, convVars
<1> QED
  BY <1>1, <1>2, <1>3, ConvertingAssumption DEF WaitInv, ConversionInv, AskedInv

\* A conversion begins from a call that prepares, and no step of it goes back to "none".
LEMMA ConversionWaits ==
    ASSUME IInv, WaitInv, [HostConvNext]_hostConvVars,
           ~((OpenStep \/ BeginClose \/ CloseStep) /\ UNCHANGED convVars),
           ~ \E d \in Downloads :
                /\ CheckOpen(d) \/ RegisterOperation(d) \/ EndDownloadOperation(d) \/ CallAgain(d)
                /\ UNCHANGED convVars
    PROVE  WaitInv'
<1> USE DEF WaitInv
<1>1. ASSUME NEW d \in Downloads, PlainPrepare(d) PROVE WaitInv'
  <2>1. call \in [Downloads -> Places] /\ call' = [call EXCEPT ![d] = "ending"]
    BY <1>1 DEF IInv, HostInv, HostTypeOK, PlainPrepare, PrepareEnds, PrepareCancelled, Prepared
  <2>2. /\ d = Converting => step = "none"
        /\ UNCHANGED <<owner, opens, stopped, step>>
    BY <1>1 DEF PlainPrepare, PrepareEnds, PrepareCancelled, Prepared, ownerVars, convVars
  <2> QED
    BY <2>1, <2>2, ConvertingAssumption DEF ConversionInv, AskedInv
<1>2. CASE BeginConversion
  BY <1>2 DEF BeginConversion, hostVars, ConversionInv, AskedInv
<1>3. CASE EndConversion
  BY <1>3 DEF EndConversion, Prepared, ownerVars, ConversionInv, AskedInv
<1>4. ASSUME UNCHANGED hostVars, step # "none" \/ UNCHANGED step PROVE WaitInv'
  BY <1>4 DEF hostVars, ConversionInv, AskedInv
<1>5. CASE Supervise(Stopped(Converting)) /\ UNCHANGED hostVars
  <2>1. step # "none"
    BY <1>5 DEF Supervise, ReadIdentity, OpenProbe, Probe, ReadIdentityAgain, StartProcess,
                CheckStop, PollProcess, SendTerm, AwaitTerm, SendKill, AwaitLeader, ReapRest,
                GiveUp, ResolveOutput, OpenOutput, CopyBlock, SealOutput
  <2> QED
    BY <2>1, <1>5, <1>4
<1>6. CASE ConvEnvironment /\ UNCHANGED hostVars
  <2>1. step # "none" \/ UNCHANGED step
    BY <1>6 DEF ConvEnvironment, WaitFails, DeadlinePasses, ExecuteConverter, SpawnHelper,
                HelperEscapes, ProcessEnds, ProcessSticks, ProcessWakes, ProcessWrites,
                ReplaceExecutable, RewriteExecutable, ProcOnly
  <2> QED
    BY <2>1, <1>6, <1>4
<1>7. CASE UNCHANGED hostConvVars
  BY <1>7, <1>4 DEF hostConvVars, convVars
<1> QED
  BY <1>1, <1>2, <1>3, <1>5, <1>6, <1>7 DEF HostConvNext, ConversionStep

\* Close never waits for a counter that nobody will bring down, nor for a download that was
\* not asked to stop; and when it destroys the application no conversion is left behind.
THEOREM CloseWaitsForTheStopped == HostConvSpec => []CloseWaitJustified
<1>1. HostConvInit => WaitInv
  BY DEF HostConvInit, HostInit, ConvInit, Idle, WaitInv, ConversionInv, AskedInv
<1>2. IInv /\ WaitInv /\ [HostConvNext]_hostConvVars => WaitInv'
  BY OwnerWaits, CallWaits, ConversionWaits
<1>3. IInv /\ WaitInv => CloseWaitJustified
  <2> SUFFICES ASSUME IInv, WaitInv PROVE CloseWaitJustified
    OBVIOUS
  <2>1. ASSUME owner = "waiting"
        PROVE  mutex = Free /\ (operations # 0 => Working # {}) /\ \A d \in Working : Stopped(d)
    <3>1. mutex = Free
      BY <2>1 DEF IInv, HostInv, OwnerInv
    <3>2. operations # 0 => Working # {}
      BY FS_EmptySet DEF IInv, HostInv, CounterInv
    <3>3. \A d \in Working : Stopped(d)
      BY <2>1 DEF IInv, HostInv, ContextInv, WaitInv, AskedInv, Stopped
    <3> QED
      BY <3>1, <3>2, <3>3
  <2>2. ASSUME owner \in {"resetting", "created", "renewed"} \/ app = 0
        PROVE  Working = {} /\ step = "none" /\ \A p \in Processes : ~Runs(p)
    <3>1. Working = {}
      BY <2>2 DEF IInv, HostInv, OwnerInv, InUse
    <3>2. step = "none"
      BY <3>1, ConvertingAssumption DEF WaitInv, ConversionInv, Working
    <3>3. \A p \in Processes : ~Runs(p)
      BY <3>2 DEF IInv, ConvInv, ProcessInv, Preparing, Runs
    <3> QED
      BY <3>1, <3>2, <3>3
  <2> QED
    BY <2>1, <2>2 DEF CloseWaitJustified
<1> QED
  BY <1>1, <1>2, <1>3, Invariance, PTL DEF HostConvSpec

-----------------------------------------------------------------------------
(* The download gate                                                       *)

Before == {"outside", "dropped", "queued", "overflow", "rejecting", "handling", "admitted"}
Holding == {"leased", "streaming", "cleaned"}

HttpTypeOK ==
    /\ http \in [Downloads -> Before \cup Holding \cup {"answered"}]
    /\ call \in [Downloads -> Places]
    /\ outcome \in [Downloads -> {"None", "NotOpen", "Ready", "Error", "Cancelled", "TimedOut"}]
    /\ jobs \in Seq(Downloads)
    /\ overload \in Downloads \cup {NoRequest}
    /\ leases \subseteq Downloads

\* A request waits in one place of the queue, or in the slot of the overload worker.
QueueInv ==
    /\ \A i \in 1..Len(jobs) : http[jobs[i]] = "queued"
    /\ \A i, j \in 1..Len(jobs) : jobs[i] = jobs[j] => i = j
    /\ overload # NoRequest => http[overload] = "overflow"

\* A lease is held from the gate to the end of the response.
LeaseInv ==
    /\ \A d \in Downloads : d \in leases <=> http[d] \in Holding
    /\ Cardinality(leases) <= MaxConcurrentDownloads

\* A download is prepared by a request that holds its lease and has not returned.
CallInv ==
    \A d \in Downloads :
        /\ http[d] \in Before => call[d] = "idle"
        /\ call[d] \in {"checked", "preparing", "ending"} => http[d] = "leased"
        /\ http[d] = "streaming" => call[d] = "left" /\ outcome[d] = "Ready"

\* A root is there from the registration of the operation; when no file is sent, it goes
\* before the operation ends, else when the response does.
RootInv ==
    \A d \in roots \ leaked :
        /\ d \in Downloads
        /\ http[d] \in {"leased", "streaming"}
        /\ call[d] \in {"preparing", "ending", "left"}
        /\ call[d] \in {"ending", "left"} => outcome[d] = "Ready"

\* The host is closed when the task queue takes nothing more and its workers are gone.
MainInv ==
    /\ main \in {"joining", "closing", "exited"} => stopping
    /\ main \in {"closing", "exited"} => jobs = <<>> /\ Running = {}

HttpInv == HttpTypeOK /\ QueueInv /\ LeaseInv /\ CallInv /\ RootInv /\ MainInv

\* Nothing is queued, leased or prepared at first.
LEMMA HttpStart == Init => HttpInv
<1> SUFFICES ASSUME Init PROVE HttpInv
  OBVIOUS
<1>1. HttpTypeOK
  BY DEF Init, HostInit, HttpTypeOK, Before, Places
<1>2. QueueInv /\ LeaseInv
  BY FS_EmptySet, HttpAssumption DEF Init, QueueInv, LeaseInv, Holding
<1>3. CallInv /\ RootInv /\ MainInv
  BY DEF Init, HostInit, CallInv, RootInv, MainInv, Before
<1> QED
  BY <1>1, <1>2, <1>3 DEF HttpInv

\* The leases change by one request.
LEMMA LeaseCount ==
    ASSUME HttpTypeOK, LeaseInv, NEW d \in Downloads
    PROVE  /\ Cardinality(leases \ {d}) <= MaxConcurrentDownloads
           /\ GateHasRoom => Cardinality(leases \cup {d}) <= MaxConcurrentDownloads
<1>1. IsFiniteSet(leases) /\ Cardinality(leases) \in Nat
  BY FS_Subset, FS_CardinalityType, HostAssumption DEF HttpTypeOK
<1>2. /\ Cardinality(leases \ {d}) = IF d \in leases THEN Cardinality(leases) - 1
                                      ELSE Cardinality(leases)
      /\ Cardinality(leases \cup {d}) = IF d \in leases THEN Cardinality(leases)
                                         ELSE Cardinality(leases) + 1
  BY <1>1, FS_RemoveElement, FS_AddElement
<1> QED
  BY <1>1, <1>2, HttpAssumption DEF LeaseInv, GateHasRoom

\* The task queue and the overload worker.
LEMMA EnqueueStep ==
    ASSUME HttpInv, NEW d \in Downloads, Enqueue(d)
    PROVE  HttpInv'
<1> USE DEF HttpInv
<1>1. /\ http[d] = "outside" /\ UNCHANGED <<call, outcome, stopping, leases, roots, leaked, main>>
      /\ \/ http' = [http EXCEPT ![d] = "dropped"] /\ UNCHANGED <<jobs, overload>>
         \/ ~stopping /\ http' = [http EXCEPT ![d] = "overflow"] /\ overload' = d /\ jobs' = jobs
         \/ ~stopping /\ http' = [http EXCEPT ![d] = "queued"] /\ jobs' = Append(jobs, d)
            /\ overload' = overload
  BY DEF Enqueue, Move, hostVars, mainVars
<1>2. \A e \in Downloads : e # d => http'[e] = http[e]
  BY <1>1 DEF HttpTypeOK
<1>3. http'[d] \in {"dropped", "overflow", "queued"}
  BY <1>1 DEF HttpTypeOK
<1>4. Len(jobs) \in Nat /\ \A i \in 1..Len(jobs) : jobs[i] \in Downloads /\ jobs[i] # d
  <2>1. Len(jobs) \in Nat /\ \A i \in 1..Len(jobs) : jobs[i] \in Downloads
    BY LenProperties, ElementOfSeq DEF HttpTypeOK
  <2> QED
    BY <1>1, <2>1 DEF QueueInv
<1>5. HttpTypeOK'
  <2>1. jobs' \in Seq(Downloads)
    BY <1>1, AppendProperties DEF HttpTypeOK
  <2> QED
    BY <1>1, <2>1 DEF HttpTypeOK, Before
<1>6. QueueInv'
  <2>1. CASE jobs' = jobs
    <3>1. overload' # NoRequest => http'[overload'] = "overflow"
      BY <1>1, <1>2, <2>1, HttpAssumption DEF QueueInv, HttpTypeOK
    <3> QED
      BY <1>2, <1>4, <2>1, <3>1 DEF QueueInv
  <2>2. CASE jobs' # jobs
    <3>1. jobs' = Append(jobs, d) /\ http'[d] = "queued" /\ overload' = overload
      BY <1>1, <2>2 DEF HttpTypeOK
    <3>2. /\ Len(jobs') = Len(jobs) + 1 /\ jobs'[Len(jobs) + 1] = d
          /\ \A i \in 1..Len(jobs) : jobs'[i] = jobs[i]
      BY <3>1, AppendProperties DEF HttpTypeOK
    <3>3. overload' # NoRequest => http'[overload'] = "overflow"
      BY <1>1, <1>2, <3>1, HttpAssumption DEF QueueInv, HttpTypeOK
    <3>4. \A i \in 1..Len(jobs') : http'[jobs'[i]] = "queued"
      BY <1>2, <1>4, <3>1, <3>2 DEF QueueInv
    <3>5. \A i, j \in 1..Len(jobs') : jobs'[i] = jobs'[j] => i = j
      BY <1>4, <3>2 DEF QueueInv
    <3> QED
      BY <3>3, <3>4, <3>5 DEF QueueInv
  <2> QED
    BY <2>1, <2>2
<1>7. LeaseInv' /\ CallInv' /\ RootInv'
  <2>1. LeaseInv'
    BY <1>1, <1>2, <1>3 DEF LeaseInv, Holding
  <2>2. CallInv'
    BY <1>1, <1>2, <1>3 DEF CallInv, Before
  <2>3. RootInv'
    BY <1>1, <1>2 DEF RootInv
  <2> QED
    BY <2>1, <2>2, <2>3
<1>8. MainInv'
  <2>1. Running' = Running
    BY <1>1, <1>2, <1>3 DEF Running
  <2> QED
    BY <1>1, <2>1 DEF MainInv
<1> QED
  BY <1>5, <1>6, <1>7, <1>8

\* A worker takes the first job.
LEMMA TakeJobStep ==
    ASSUME HttpInv, TakeJob
    PROVE  HttpInv'
<1> USE DEF HttpInv
<1> DEFINE d == Head(jobs)
<1>1. /\ jobs # <<>> /\ http' = [http EXCEPT ![d] = "handling"] /\ jobs' = Tail(jobs)
      /\ UNCHANGED <<call, outcome, overload, stopping, leases, roots, leaked, main>>
  BY DEF TakeJob, Move, hostVars, mainVars
<1>2. Len(jobs) \in Nat /\ Len(jobs) # 0 /\ \A i \in 1..Len(jobs) : jobs[i] \in Downloads
  BY <1>1, LenProperties, ElementOfSeq, EmptySeq DEF HttpTypeOK
<1>3. d = jobs[1] /\ d \in Downloads /\ http[d] = "queued"
  BY <1>1, <1>2 DEF QueueInv, HttpTypeOK
<1>4. /\ jobs' \in Seq(Downloads) /\ Len(jobs') = Len(jobs) - 1
      /\ \A i \in 1..Len(jobs') : jobs'[i] = jobs[i + 1]
  BY <1>1, HeadTailProperties DEF HttpTypeOK
<1> HIDE DEF d
<1>5. /\ \A e \in Downloads : e # d => http'[e] = http[e]
      /\ http'[d] = "handling"
  BY <1>1, <1>3 DEF HttpTypeOK
<1>6. HttpTypeOK'
  BY <1>1, <1>3, <1>4 DEF HttpTypeOK, Before
<1>7. QueueInv'
  <2>1. ASSUME NEW i \in 1..Len(jobs') PROVE i + 1 \in 1..Len(jobs) /\ i + 1 # 1 /\ jobs'[i] = jobs[i + 1]
    BY <1>2, <1>4
  <2>2. ASSUME NEW i \in 1..Len(jobs') PROVE http'[jobs'[i]] = "queued"
    <3>1. jobs[i + 1] # d
      BY <1>2, <1>3, <2>1 DEF QueueInv
    <3> QED
      BY <1>2, <1>5, <2>1, <3>1 DEF QueueInv
  <2>3. ASSUME NEW i \in 1..Len(jobs'), NEW j \in 1..Len(jobs'), jobs'[i] = jobs'[j] PROVE i = j
    <3>1. i + 1 = j + 1
      BY <2>1, <2>3 DEF QueueInv
    <3> QED
      BY <3>1
  <2>4. overload' # NoRequest => http'[overload'] = "overflow"
    BY <1>1, <1>3, <1>5 DEF QueueInv, HttpTypeOK
  <2> QED
    BY <2>2, <2>3, <2>4 DEF QueueInv
<1>8. LeaseInv' /\ CallInv' /\ RootInv'
  BY <1>1, <1>3, <1>5 DEF LeaseInv, CallInv, RootInv, Before, Holding, HttpTypeOK
<1>9. MainInv'
  BY <1>1 DEF MainInv
<1> QED
  BY <1>6, <1>7, <1>8, <1>9

\* A request that is in no queue moves: the queue keeps its requests, and once the workers
\* are gone there is none to move.
LEMMA MovedRequest ==
    ASSUME HttpInv, NEW d \in Downloads, http[d] \notin {"queued", "overflow"},
           NEW to \in Before \cup Holding \cup {"answered"}, to # "queued",
           http' = [http EXCEPT ![d] = to],
           d \in Running \/ to \notin {"handling", "admitted", "leased", "streaming", "cleaned"},
           UNCHANGED <<jobs, stopping, main>>,
           overload' \in {overload, NoRequest}
    PROVE  /\ QueueInv' /\ MainInv'
           /\ http'[d] = to /\ \A e \in Downloads : e # d => http'[e] = http[e]
<1> USE DEF HttpInv
<1>1. http'[d] = to /\ \A e \in Downloads : e # d => http'[e] = http[e]
  BY DEF HttpTypeOK
<1>2. Len(jobs) \in Nat /\ \A i \in 1..Len(jobs) : jobs[i] \in Downloads
  BY LenProperties, ElementOfSeq DEF HttpTypeOK
<1>3. QueueInv'
  BY <1>1, <1>2 DEF QueueInv, HttpTypeOK
<1>4. MainInv'
  BY <1>1 DEF MainInv, Running
<1> QED
  BY <1>1, <1>3, <1>4

\* The overload worker takes its request.
LEMMA TakeOverloadStep ==
    ASSUME HttpInv, TakeOverload
    PROVE  HttpInv'
<1> USE DEF HttpInv
<1>1. /\ overload # NoRequest /\ http' = [http EXCEPT ![overload] = "rejecting"]
      /\ overload' = NoRequest
      /\ UNCHANGED <<call, outcome, jobs, stopping, leases, roots, leaked, main>>
  BY DEF TakeOverload, Move, hostVars, mainVars
<1>2. overload \in Downloads /\ http[overload] = "overflow"
  BY <1>1 DEF HttpTypeOK, QueueInv
<1>3. /\ http'[overload] = "rejecting"
      /\ \A e \in Downloads : e # overload => http'[e] = http[e]
  BY <1>1, <1>2 DEF HttpTypeOK
<1>4. Len(jobs) \in Nat /\ \A i \in 1..Len(jobs) : jobs[i] \in Downloads
  BY LenProperties, ElementOfSeq DEF HttpTypeOK
<1>5. QueueInv'
  BY <1>1, <1>2, <1>3, <1>4 DEF QueueInv
<1>6. HttpTypeOK'
  BY <1>1, <1>2 DEF HttpTypeOK, Before
<1>7. LeaseInv' /\ CallInv' /\ RootInv'
  BY <1>1, <1>2, <1>3 DEF LeaseInv, CallInv, RootInv, Before, Holding, HttpTypeOK
<1>8. MainInv'
  <2>1. Running' = Running
    BY <1>2, <1>3 DEF Running
  <2> QED
    BY <1>1, <2>1 DEF MainInv
<1> QED
  BY <1>5, <1>6, <1>7, <1>8

\* Up to the gate, a request has no lease and has not called the host.
LEMMA BeforeGateStep ==
    ASSUME HttpInv, NEW d \in Downloads, AnswerOverload(d) \/ CheckBackend(d) \/ TryAcquire(d)
    PROVE  HttpInv'
<1> USE DEF HttpInv
<1>1. /\ http[d] \in {"rejecting", "handling", "admitted"}
      /\ \/ leases' = leases /\ \E to \in {"admitted", "answered"} :
               /\ http' = [http EXCEPT ![d] = to]
               /\ to = "admitted" => http[d] = "handling"
         \/ GateHasRoom /\ leases' = leases \cup {d} /\ http' = [http EXCEPT ![d] = "leased"]
            /\ http[d] = "admitted"
      /\ UNCHANGED <<call, outcome, jobs, overload, stopping, roots, leaked, main>>
  BY DEF AnswerOverload, CheckBackend, TryAcquire, Move, hostVars, mainVars
<1>2. http[d] \notin Holding /\ d \notin leases /\ call[d] = "idle"
  BY <1>1 DEF LeaseInv, CallInv, Holding, Before
<1>3. HttpTypeOK'
  BY <1>1 DEF HttpTypeOK, Before, Holding
<1>4. /\ QueueInv' /\ MainInv' /\ http'[d] \in {"admitted", "answered", "leased"}
      /\ \A e \in Downloads : e # d => http'[e] = http[e]
  <2>1. PICK to \in {"admitted", "answered", "leased"} :
           /\ http' = [http EXCEPT ![d] = to]
           /\ d \in Running \/ to \notin {"handling", "admitted", "leased", "streaming", "cleaned"}
    BY <1>1 DEF Running
  <2>2. to \in Before \cup Holding \cup {"answered"} /\ to # "queued"
    BY DEF Before, Holding
  <2> QED
    BY <1>1, <2>1, <2>2, MovedRequest
<1>5. LeaseInv'
  <2>1. Cardinality(leases') <= MaxConcurrentDownloads
    BY <1>1, LeaseCount DEF LeaseInv
  <2>2. d \in leases' <=> http'[d] \in Holding
    BY <1>1, <1>2 DEF HttpTypeOK, Holding
  <2> QED
    BY <1>1, <1>4, <2>1, <2>2 DEF LeaseInv
<1>6. CallInv' /\ RootInv'
  BY <1>1, <1>2, <1>4 DEF CallInv, RootInv, Before
<1> QED
  BY <1>3, <1>4, <1>5, <1>6

\* A download that is prepared keeps its request where it is.
LEMMA PreparingStep ==
    ASSUME HttpInv, NEW d \in Downloads,
           BeginDownload(d) \/ PrepareDownload(d) \/ EndDownload(d)
    PROVE  HttpInv'
<1> USE DEF HttpInv
<1>1. UNCHANGED <<jobs, overload, stopping, http, leases, main>> /\ Running' = Running
  BY DEF BeginDownload, PrepareDownload, EndDownload, httpVars, serveVars, mainVars, Running
<1>2. http[d] = "leased"
  BY DEF CallInv, BeginDownload, PrepareDownload, EndDownload, PrepareEnds, PrepareCancelled,
         ConverterDeadline, Prepared, EndDownloadOperation
<1>3. QueueInv' /\ LeaseInv' /\ MainInv'
  BY <1>1 DEF QueueInv, LeaseInv, MainInv
<1>4. CASE BeginDownload(d)
  <2>1. /\ \/ /\ call[d] = "idle" /\ roots' = roots
              /\ \/ call' = [call EXCEPT ![d] = "checked"] /\ outcome' = outcome
                 \/ /\ call' = [call EXCEPT ![d] = "left"]
                    /\ outcome' = [outcome EXCEPT ![d] = "NotOpen"]
           \/ /\ call' = [call EXCEPT ![d] = "preparing"] /\ outcome' = outcome
              /\ roots' = roots \cup {d}
        /\ leaked' = leaked
    BY <1>4 DEF BeginDownload, CheckOpen, RegisterOperation
  <2>2. HttpTypeOK'
    BY <1>1, <2>1 DEF HttpTypeOK, Places
  <2>3. \A e \in Downloads : e # d => call'[e] = call[e] /\ outcome'[e] = outcome[e]
    BY <2>1 DEF HttpTypeOK
  <2>4. call'[d] \in {"checked", "left", "preparing"}
    BY <2>1 DEF HttpTypeOK
  <2>5. CallInv'
    BY <1>1, <1>2, <2>3, <2>4 DEF CallInv, Before
  <2>6. RootInv'
    <3>1. d \in roots' \ leaked' => call'[d] = "preparing"
      BY <2>1 DEF RootInv, HttpTypeOK
    <3> QED
      BY <1>1, <1>2, <2>1, <2>3, <3>1 DEF RootInv
  <2> QED
    BY <1>3, <2>2, <2>5, <2>6
<1>5. CASE PrepareDownload(d)
  <2>1. /\ call[d] = "preparing" /\ call' = [call EXCEPT ![d] = "ending"]
        /\ \E o \in {"Ready", "Error", "Cancelled", "TimedOut"} : outcome' = [outcome EXCEPT ![d] = o]
        /\ outcome'[d] = "Ready" => UNCHANGED <<roots, leaked>>
        /\ outcome'[d] # "Ready" => RemoveRoot(d)
    BY <1>5 DEF PrepareDownload, PrepareEnds, PrepareCancelled, ConverterDeadline, Prepared
  <2>2. HttpTypeOK'
    BY <1>1, <2>1 DEF HttpTypeOK, Places
  <2>3. /\ \A e \in Downloads : e # d => call'[e] = call[e] /\ outcome'[e] = outcome[e]
        /\ call'[d] = "ending"
    BY <2>1 DEF HttpTypeOK
  <2>4. CallInv'
    BY <1>1, <1>2, <2>3 DEF CallInv, Before
  <2>5. roots' \ leaked' \subseteq roots \ leaked /\ (outcome'[d] # "Ready" => d \notin roots' \ leaked')
    BY <2>1 DEF RemoveRoot
  <2>6. RootInv'
    BY <1>1, <1>2, <2>3, <2>5 DEF RootInv
  <2> QED
    BY <1>3, <2>2, <2>4, <2>6
<1>6. CASE EndDownload(d)
  <2>1. /\ call[d] = "ending" /\ call' = [call EXCEPT ![d] = "left"]
        /\ UNCHANGED <<outcome, roots, leaked>>
    BY <1>6 DEF EndDownload, EndDownloadOperation, httpVars, serveVars
  <2>2. HttpTypeOK'
    BY <1>1, <2>1 DEF HttpTypeOK, Places
  <2>3. /\ \A e \in Downloads : e # d => call'[e] = call[e]
        /\ call'[d] = "left"
    BY <2>1 DEF HttpTypeOK
  <2>4. CallInv' /\ RootInv'
    BY <1>1, <1>2, <2>1, <2>3 DEF CallInv, RootInv, Before
  <2> QED
    BY <1>3, <2>2, <2>4
<1> QED
  BY <1>4, <1>5, <1>6

\* The response: the root goes before the lease.
LEMMA ResponseStep ==
    ASSUME HttpInv, NEW d \in Downloads, ReturnFromHandler(d) \/ EndStream(d) \/ ReleaseLease(d)
    PROVE  HttpInv'
<1> USE DEF HttpInv
<1>1. UNCHANGED <<call, outcome, jobs, overload, stopping, main>>
  BY DEF ReturnFromHandler, EndStream, ReleaseLease, hostVars, mainVars
<1>2. \/ /\ http[d] = "leased" /\ call[d] = "left" /\ outcome[d] = "Ready"
         /\ http' = [http EXCEPT ![d] = "streaming"] /\ UNCHANGED <<leases, roots, leaked>>
      \/ /\ http[d] = "leased" /\ call[d] = "left" /\ outcome[d] # "Ready"
         /\ http' = [http EXCEPT ![d] = "answered"] /\ leases' = leases \ {d}
         /\ UNCHANGED <<roots, leaked>>
      \/ /\ http[d] = "streaming" /\ http' = [http EXCEPT ![d] = "cleaned"]
         /\ RemoveRoot(d) /\ leases' = leases
      \/ /\ http[d] = "cleaned" /\ http' = [http EXCEPT ![d] = "answered"]
         /\ leases' = leases \ {d} /\ UNCHANGED <<roots, leaked>>
  BY DEF ReturnFromHandler, EndStream, ReleaseLease, Move
<1>3. /\ QueueInv' /\ MainInv' /\ \A e \in Downloads : e # d => http'[e] = http[e]
  <2>1. d \in Running /\ http[d] \notin {"queued", "overflow"}
    BY <1>2 DEF Running
  <2>2. PICK to \in {"streaming", "answered", "cleaned"} : http' = [http EXCEPT ![d] = to]
    BY <1>2
  <2>3. to \in Before \cup Holding \cup {"answered"} /\ to # "queued"
    BY DEF Holding
  <2> QED
    BY <1>1, <2>1, <2>2, <2>3, MovedRequest
<1>4. HttpTypeOK'
  BY <1>1, <1>2 DEF HttpTypeOK, Holding
<1>5. LeaseInv'
  <2>1. Cardinality(leases') <= MaxConcurrentDownloads
    BY <1>2, LeaseCount DEF LeaseInv
  <2>2. d \in leases' <=> http'[d] \in Holding
    BY <1>2 DEF HttpTypeOK, Holding, LeaseInv
  <2>3. \A e \in Downloads : e # d => (e \in leases' <=> e \in leases)
    BY <1>2
  <2> QED
    BY <1>3, <2>1, <2>2, <2>3 DEF LeaseInv
<1>6. CallInv'
  <2>1. call[d] \notin {"checked", "preparing", "ending"} /\ http'[d] \notin Before
    BY <1>2 DEF CallInv, HttpTypeOK, Before
  <2>2. http'[d] = "streaming" => call[d] = "left" /\ outcome[d] = "Ready"
    BY <1>2 DEF HttpTypeOK
  <2> QED
    BY <1>1, <1>3, <2>1, <2>2 DEF CallInv
<1>7. RootInv'
  <2>1. roots' \ leaked' \subseteq roots \ leaked
    BY <1>2 DEF RemoveRoot
  <2>2. d \in roots' \ leaked' => http'[d] = "streaming"
    BY <1>2 DEF RemoveRoot, RootInv, HttpTypeOK
  <2> QED
    BY <1>1, <1>3, <2>1, <2>2 DEF RootInv
<1> QED
  BY <1>3, <1>4, <1>5, <1>6, <1>7

\* The main thread and the monitor; JoinWorkers is left when the workers are gone.
LEMMA MainStepInv ==
    ASSUME HttpInv, MainStep \/ MonitorStep \/ ShutdownSignal
    PROVE  HttpInv'
<1> USE DEF HttpInv
<1>1. UNCHANGED <<call, outcome, jobs, overload, http, leases, roots, leaked>>
  BY DEF MainStep, MonitorStep, ShutdownSignal, OpenHost, LeaveServing, RequestMonitorStop,
         NotifyMonitor, StopHttp, JoinWorkers, CloseHost, Exit, CheckMonitorStop, EnterWait,
         IntervalPasses, RefreshStatus, MonitorTo, OpenStep, CreateApplication, RenewStopSource,
         PublishOpen, BeginClose, CloseStep, RequestStop, AwaitDownloads, ResetApplication,
         hostVars, callVars, httpVars, serveVars, mainVars
<1>2. /\ stopping => stopping'
      /\ main' \in {"joining", "closing", "exited"} => stopping' \/ main \in {"joining", "closing", "exited"}
      /\ main' \in {"closing", "exited"} => WorkersGone \/ main \in {"closing", "exited"}
  BY DEF MainStep, MonitorStep, ShutdownSignal, OpenHost, LeaveServing, RequestMonitorStop,
         NotifyMonitor, StopHttp, JoinWorkers, CloseHost, Exit, CheckMonitorStop, EnterWait,
         IntervalPasses, RefreshStatus, MonitorTo, httpVars, serveVars, mainVars
<1>3. Running' = Running
  BY <1>1 DEF Running
<1>4. MainInv'
  BY <1>1, <1>2, <1>3 DEF MainInv, WorkersGone
<1>5. HttpTypeOK' /\ QueueInv' /\ LeaseInv' /\ CallInv' /\ RootInv'
  BY <1>1 DEF HttpTypeOK, QueueInv, LeaseInv, CallInv, RootInv
<1> QED
  BY <1>4, <1>5

\* Nobody moves.
LEMMA HttpStutter == HttpInv /\ UNCHANGED vars => HttpInv'
  BY DEF vars, hostVars, HttpInv, HttpTypeOK, QueueInv, LeaseInv, CallInv, RootInv, MainInv, Running

\* The invariant of the HTTP side of a download holds in every state.
THEOREM HttpInvariance == Spec => []HttpInv
<1>1. Init => HttpInv
  BY HttpStart
<1>2. HttpInv /\ [Next]_vars => HttpInv'
  BY EnqueueStep, TakeJobStep, TakeOverloadStep, BeforeGateStep, PreparingStep, ResponseStep,
     MainStepInv, HttpStutter
  DEF Next, RequestStep, QueueStep
<1> QED
  BY <1>1, <1>2, PTL DEF Spec

\* CDownloadGate, CFileResponseLifetime and Stop: the prepared files on disk are those of
\* leased requests, at most the configured number, and when the host is closed none is left.
THEOREM PreparedFilesAlwaysBounded == Spec => []PreparedFilesBounded
<1>1. HttpInv => PreparedFilesBounded
  <2> SUFFICES ASSUME HttpInv PROVE PreparedFilesBounded
    OBVIOUS
  <2>1. roots \ leaked \subseteq leases
    BY DEF HttpInv, RootInv, LeaseInv, Holding
  <2>2. Running = {} => leases = {} /\ Working = {}
    BY DEF HttpInv, LeaseInv, HttpTypeOK, CallInv, Running, Holding, Working
  <2> QED
    BY <2>1, <2>2 DEF HttpInv, LeaseInv, MainInv, PreparedFilesBounded
<1> QED
  BY <1>1, HttpInvariance, PTL
=============================================================================
