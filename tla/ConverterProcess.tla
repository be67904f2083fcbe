--------------------------- MODULE ConverterProcess ---------------------------
(***************************************************************************)
(* One conversion: CExternalBookConverter::Convert with the process        *)
(* supervision of LinuxExternalConverterProcessRunner.cpp and the sealing  *)
(* of the output (ExternalBookConverterFileMove.Linux.cpp).                *)
(*                                                                         *)
(* The converter runs in a process group of its own.  Its leader may start *)
(* a helper; a process may ignore SIGTERM ("deaf"), sit in uninterruptible *)
(* I/O ("stuck"), or leave the group ("escaped").  What a process that     *)
(* left the group does is out of the program's hands; what it may spoil,   *)
(* the output, is not.                                                     *)
(*                                                                         *)
(* The owner renames executables over the configured path, and writes into *)
(* them in place, at any moment.  A write gives a file bytes that were     *)
(* never there before, with a number of their own: size and times of a     *)
(* file, as stat tells them, change with each write.                       *)
(***************************************************************************)
EXTENDS Integers

CONSTANTS
    Genuine,        \* bytes of executables that answer --help as fbc does
    MaxExecutables, \* files that the owner puts at the configured path
    MaxContents,    \* bound: contents of these files, over time
    Blocks,         \* parts of the output that are written and read one by one
    MaxWrites       \* bound: writes to the output during one conversion

ASSUME ConverterAssumption ==
    /\ MaxExecutables \in Nat \ {0} /\ MaxContents \in Nat /\ MaxWrites \in Nat
    /\ Genuine \subseteq Nat

VARIABLES
    exe,       \* the file (device and inode) at the configured path
    bytes,     \* file -> its bytes
    contents,  \* how many contents there were
    step,      \* where Convert stands
    identity,  \* SExternalConverterExecutableIdentity that was validated
    opened,    \* the file behind executableDescriptor of Run
    compared,  \* history: contents there were when Run compared the identity
    ran,       \* history: the file that was started and its bytes
    proc,      \* the processes the converter consists of
    killed,    \* SIGKILL was sent to the group
    reaped,    \* leaderReaped
    code,      \* exit code of the leader
    deadline,  \* the time given to the process is over
    why,       \* why the process is terminated
    produced,  \* the output directory: nothing, one regular EPUB, something else
    output,    \* block -> the write that its present bytes are from
    writes,    \* state of the produced file, as fstat tells it
    looked,    \* that state when the copy began
    copy,      \* block -> what was read of it into the validated output
    unread,    \* blocks still to be read
    result     \* EConversionStatus

fileVars == <<exe, bytes, contents>>
startVars == <<identity, opened, compared, ran>>
copyVars  == <<looked, copy, unread>>
outVars   == <<produced, output, writes, copyVars, result>>
runVars   == <<killed, reaped, code, deadline, why>>
convVars  == <<fileVars, step, startVars, proc, runVars, outVars>>

Processes == {"leader", "helper"}

\* Members of the group that can still run instructions of their own, and all members.
Runs(p)    == proc[p] \in {"forked", "running", "deaf"}
InGroup(p) == proc[p] \in {"forked", "running", "deaf", "stuck", "zombie"}

\* It executes the converter, and not the few calls between fork and fexecve.
Converts(p) == proc[p] \in {"running", "deaf"}

\* ProcessGroupExists.
GroupExists == \E p \in Processes : InGroup(p)

Reap(procs) == [p \in Processes |-> IF procs[p] = "zombie" THEN "gone" ELSE procs[p]]

NoFile == [file |-> 0, bytes |-> 0]

Idle ==
    /\ step = "none" /\ identity = NoFile /\ opened = 0 /\ compared = 0 /\ ran = NoFile
    /\ proc = [p \in Processes |-> "none"]
    /\ killed = FALSE /\ reaped = FALSE /\ code = 0 /\ deadline = FALSE /\ why = "none"
    /\ produced = "nothing" /\ output = [b \in Blocks |-> 0] /\ writes = 0
    /\ looked = 0 /\ copy = [b \in Blocks |-> 0] /\ unread = {} /\ result = "none"

ConvInit ==
    /\ exe = 1 /\ bytes = [f \in 1..MaxExecutables |-> f] /\ contents = MaxExecutables
    /\ Idle

Conclude(status) ==
    /\ result' = status /\ step' = "finished"
    \* CleanupProducedEntries and the cleanup of the working directory.
    /\ produced' = "nothing"
    /\ UNCHANGED <<output, writes, copyVars>>

-----------------------------------------------------------------------------
(* The executable                                                          *)

\* BuildExecutableIdentity of the configured path.
Identity == [file |-> exe, bytes |-> bytes[exe]]

\* ReadExternalConverterExecutableIdentity before the validation.
ReadIdentity ==
    /\ step = "identify"
    /\ identity' = Identity /\ step' = "open"
    /\ UNCHANGED <<fileVars, opened, compared, ran, proc, runVars, outVars>>

\* The probe opens the path and compares the descriptor with the identity.
OpenProbe ==
    /\ step = "open"
    /\ IF Identity = identity THEN step' = "probe" /\ UNCHANGED outVars
                              ELSE Conclude("Failed")
    /\ UNCHANGED <<fileVars, startVars, proc, runVars>>

\* ValidateBuiltInFbcHelpOutput, of a regular file named fbc.
HelpOutputValid(b) == b \in Genuine

\* It runs the descriptor, which may have other bytes by now, and reads the answer to --help
\* within a deadline of its own.
Probe ==
    /\ step = "probe"
    /\ \/ HelpOutputValid(bytes[identity.file]) /\ step' = "reidentify" /\ UNCHANGED outVars
       \/ Conclude("Failed")
    /\ UNCHANGED <<fileVars, startVars, proc, runVars>>

\* Mutant of SameIdentity: the answer to the probe is enough.
AnswerSuffices == TRUE

SameIdentity == Identity = identity

ReadIdentityAgain ==
    /\ step = "reidentify"
    /\ IF SameIdentity THEN step' = "launch" /\ UNCHANGED outVars
                       ELSE Conclude("Failed")
    /\ UNCHANGED <<fileVars, startVars, proc, runVars>>

\* Mutant of SameExecutable: whatever is at the path that was validated is executed.
SamePath == TRUE

\* fstat of the descriptor that Run is going to execute.
SameExecutable == Identity = identity

\* Run opens the path and compares, then forks; a changed executable and a failing fork throw.
StartProcess ==
    /\ step = "launch"
    /\ \/ /\ SameExecutable
          /\ opened' = exe /\ compared' = contents
          /\ proc' = [proc EXCEPT !["leader"] = "forked"]
          /\ step' = "poll" /\ UNCHANGED outVars
       \/ Conclude("Error") /\ UNCHANGED <<opened, compared, proc>>
    /\ UNCHANGED <<fileVars, identity, ran, runVars>>

-----------------------------------------------------------------------------
(* The loop of Run                                                         *)

\* Mutant of CheckStop: the loop does not look at the stop token.
IgnoreStop(stop) ==
    /\ step = "poll"
    /\ step' = "look" /\ UNCHANGED why
    /\ UNCHANGED <<fileVars, startVars, proc, killed, reaped, code, deadline, outVars>>

CheckStop(stop) ==
    /\ step = "poll"
    /\ IF stop THEN step' = "terminate" /\ why' = "Cancelled"
               ELSE step' = "look" /\ UNCHANGED why
    /\ UNCHANGED <<fileVars, startVars, proc, killed, reaped, code, deadline, outVars>>

\* Mutant of GroupEnded: the leader's end is taken for the end of the group.
LeaderEnded(procs) == procs["leader"] = "gone"

GroupEnded(procs) == \A p \in Processes : procs[p] \in {"none", "gone", "escaped"}

\* waitpid of the leader; once it was reaped, the rest of the group; then the deadline.
PollProcess ==
    /\ step = "look"
    /\ LET nowReaped == reaped \/ proc["leader"] = "zombie"
           left      == IF nowReaped THEN Reap(proc) ELSE proc
       IN  /\ reaped' = nowReaped
           /\ proc' = left
           /\ \/ nowReaped /\ GroupEnded(left) /\ step' = "exited" /\ UNCHANGED why
              \/ /\ ~(nowReaped /\ GroupEnded(left))
                 /\ IF deadline THEN step' = "terminate" /\ why' = "TimedOut"
                                ELSE step' = "poll" /\ UNCHANGED why
    /\ UNCHANGED <<fileVars, startVars, killed, code, deadline, outVars>>

\* waitpid fails: the exception leaves through the destructor, which terminates the group.
WaitFails ==
    /\ step = "look" /\ ~reaped
    /\ step' = "terminate" /\ why' = "Error"
    /\ UNCHANGED <<fileVars, startVars, proc, killed, reaped, code, deadline, outVars>>

DeadlinePasses ==
    /\ step \in {"poll", "look"} /\ ~deadline
    /\ deadline' = TRUE
    /\ UNCHANGED <<fileVars, step, startVars, proc, killed, reaped, code, why, outVars>>

-----------------------------------------------------------------------------
(* TerminateAndWait                                                        *)

\* SIGTERM to the group.  Members that listen end in their own time (ProcessEnds).
SendTerm ==
    /\ step = "terminate"
    /\ step' = "terminating"
    /\ UNCHANGED <<fileVars, startVars, proc, runVars, outVars>>

\* The 25 ms loop: reap, and leave when the group is gone.
AwaitTerm ==
    /\ step = "terminating"
    /\ GroupEnded(Reap(proc)) \/ \E p \in Processes : proc[p] = "zombie"
    /\ proc' = Reap(proc)
    /\ reaped' = (reaped \/ proc["leader"] = "zombie")
    /\ step' = IF GroupEnded(Reap(proc)) THEN "ended" ELSE step
    /\ UNCHANGED <<fileVars, startVars, killed, code, deadline, why, outVars>>

\* SIGKILL ends every member of the group, a stuck one as soon as it wakes.
Struck(p) == Runs(p)

\* Two seconds are over.
SendKill ==
    /\ step = "terminating" /\ GroupExists
    /\ proc' = [p \in Processes |-> IF Struck(p) THEN "zombie" ELSE proc[p]]
    /\ killed' = TRUE
    /\ step' = IF reaped THEN "reap" ELSE "await"
    /\ UNCHANGED <<fileVars, startVars, reaped, code, deadline, why, outVars>>

\* The blocking waitpid of the leader.
AwaitLeader ==
    /\ step = "await" /\ proc["leader"] = "zombie"
    /\ proc' = [proc EXCEPT !["leader"] = "gone"]
    /\ reaped' = TRUE /\ step' = "reap"
    /\ UNCHANGED <<fileVars, startVars, killed, code, deadline, why, outVars>>

\* The 10 ms loop of two seconds: it leaves when the group is gone, or without a process that
\* does not wake.
ReapRest ==
    /\ step = "reap"
    /\ proc' = Reap(proc)
    /\ step' = "ended"
    /\ UNCHANGED <<fileVars, startVars, runVars, outVars>>

-----------------------------------------------------------------------------
(* The output                                                              *)

\* Cancelled, timed out, failed, or the exception of WaitFails.
GiveUp ==
    /\ \/ step = "ended" /\ Conclude(why)
       \/ step = "exited" /\ code # 0 /\ Conclude("Failed")
    /\ UNCHANGED <<fileVars, startVars, proc, runVars>>

\* ResolveSingleProducedFile.
ResolveOutput ==
    /\ step = "exited" /\ code = 0
    /\ \/ produced = "EPUB" /\ step' = "resolved" /\ UNCHANGED outVars
       \/ produced # "EPUB" /\ Conclude("Failed")
    /\ UNCHANGED <<fileVars, startVars, proc, runVars>>

\* CopyValidatedOutputToPath opens the file that was found and takes the first fstat.
OpenOutput ==
    /\ step = "resolved"
    /\ \/ /\ looked' = writes /\ unread' = Blocks /\ step' = "copy"
          /\ UNCHANGED <<produced, output, writes, copy, result>>
       \/ Conclude("Failed")
    /\ UNCHANGED <<fileVars, startVars, proc, runVars>>

\* One turn of its loop.
CopyBlock(b) ==
    /\ step = "copy" /\ b \in unread
    /\ \/ /\ copy' = [copy EXCEPT ![b] = output[b]] /\ unread' = unread \ {b}
          /\ UNCHANGED <<step, produced, output, writes, looked, result>>
       \/ Conclude("Failed")
    /\ UNCHANGED <<fileVars, startVars, proc, runVars>>

\* Mutant of CopyIntact: what was read is what was there.
CopyTrusted == TRUE

\* HasSameContentState: the descriptor's state did not change while it was read.
CopyIntact == writes = looked

\* The second fstat, fsync and rename to the destination.
SealOutput ==
    /\ step = "copy" /\ unread = {}
    /\ \/ CopyIntact /\ Conclude("Succeeded")
       \/ Conclude("Failed")
    /\ UNCHANGED <<fileVars, startVars, proc, runVars>>

-----------------------------------------------------------------------------
(* The converter and the owner                                             *)

ProcOnly == UNCHANGED <<fileVars, step, startVars, killed, reaped, deadline, why, outVars>>

\* The child of fork executes the descriptor, with the bytes the file has now, or gives up
\* with exit code 127.  Until then it does nothing that the program does not do.
ExecuteConverter ==
    /\ proc["leader"] = "forked"
    /\ \/ /\ ran' = [file |-> opened, bytes |-> bytes[opened]]
          /\ \E s \in {"running", "deaf"} : proc' = [proc EXCEPT !["leader"] = s]
          /\ UNCHANGED code
       \/ /\ code' = 127
          /\ proc' = [proc EXCEPT !["leader"] = "zombie"]
          /\ UNCHANGED ran
    /\ UNCHANGED <<fileVars, step, identity, opened, compared, killed, reaped, deadline, why,
                   outVars>>

SpawnHelper ==
    /\ Converts("leader") /\ proc["helper"] = "none"
    /\ \E s \in {"running", "deaf"} : proc' = [proc EXCEPT !["helper"] = s]
    /\ ProcOnly /\ UNCHANGED code

\* A process ends by itself, or because it was asked to.
ProcessEnds(p) ==
    /\ Converts(p)
    /\ proc' = [proc EXCEPT ![p] = "zombie"]
    /\ IF p = "leader" THEN code' \in {0, 1} ELSE UNCHANGED code
    /\ ProcOnly

ProcessSticks(p) ==
    /\ Converts(p) /\ step \in {"poll", "look", "terminating"}
    /\ proc' = [proc EXCEPT ![p] = "stuck"]
    /\ ProcOnly /\ UNCHANGED code

ProcessWakes(p) ==
    /\ proc[p] = "stuck"
    /\ proc' = [proc EXCEPT ![p] = IF killed THEN "zombie" ELSE "deaf"]
    /\ ProcOnly /\ UNCHANGED code

HelperEscapes ==
    /\ Converts("helper")
    /\ proc' = [proc EXCEPT !["helper"] = "escaped"]
    /\ ProcOnly /\ UNCHANGED code

\* Into the output directory, as long as it exists.
ProcessWrites(p) ==
    /\ Converts(p) \/ proc[p] = "escaped"
    /\ step # "finished" /\ writes < MaxWrites
    /\ produced' \in {"EPUB", "other"}
    /\ writes' = writes + 1
    /\ \E b \in Blocks : output' = [output EXCEPT ![b] = writes + 1]
    /\ UNCHANGED <<fileVars, step, startVars, proc, runVars, copyVars, result>>

\* rename over the configured path; the file that was there may come back.
ReplaceExecutable ==
    /\ exe' \in 1..MaxExecutables \ {exe}
    /\ UNCHANGED <<bytes, contents, step, startVars, proc, runVars, outVars>>

\* A write into a file that is, was or will be at the path.
RewriteExecutable(f) ==
    /\ contents < MaxContents
    /\ contents' = contents + 1
    /\ bytes' = [bytes EXCEPT ![f] = contents + 1]
    /\ UNCHANGED <<exe, step, startVars, proc, runVars, outVars>>

-----------------------------------------------------------------------------
\* What the thread that converts does.
Supervise(stop) ==
    \/ ReadIdentity \/ OpenProbe \/ Probe \/ ReadIdentityAgain \/ StartProcess
    \/ CheckStop(stop) \/ PollProcess
    \/ SendTerm \/ AwaitTerm \/ SendKill \/ AwaitLeader \/ ReapRest
    \/ GiveUp \/ ResolveOutput \/ OpenOutput \/ (\E b \in Blocks : CopyBlock(b)) \/ SealOutput

ConvEnvironment ==
    \/ WaitFails \/ DeadlinePasses
    \/ ExecuteConverter \/ SpawnHelper \/ HelperEscapes
    \/ \E p \in Processes :
          ProcessEnds(p) \/ ProcessSticks(p) \/ ProcessWakes(p) \/ ProcessWrites(p)
    \/ ReplaceExecutable
    \/ \E f \in 1..MaxExecutables : RewriteExecutable(f)

-----------------------------------------------------------------------------
(* However often files are renamed over the configured path, to and fro, and written into    *)
(* around probe and second look: the file that is started is the one that was validated, and *)
(* its validated bytes answered the probe.  Run compares before it forks, and the child       *)
(* executes the descriptor later: only bytes written into this very file in between are not   *)
(* those that were probed.                                                                   *)
OnlyProbedExecutableRuns ==
    ran # NoFile =>
        /\ ran.file = identity.file /\ identity.bytes \in Genuine
        /\ ran.bytes # identity.bytes => ran.bytes > compared

(* docs/ServerWebDeployment.md: a timed-out or cancelled converter and its descendants are  *)
(* stopped.  However Run ends - late exit, deadline, stop, failing waitpid - no process of  *)
(* the group executes another instruction, although it may ignore SIGTERM, start a helper   *)
(* in the meantime or outlive its leader.                                                   *)
GroupStopped ==
    step \in {"ended", "exited", "resolved", "copy", "finished"}
        => \A p \in Processes : ~Runs(p)

(* docs/ServerWebDeployment.md: conversion must produce exactly one regular EPUB.  What is  *)
(* delivered comes from a converter that was executed, ended with 0 and left nobody in its  *)
(* group; and although it is read block by block while processes that left the group may    *)
(* write, it is the file as it was at one moment, never a mixture.                          *)
DeliveredOutputWhole ==
    result = "Succeeded" =>
        /\ ran # NoFile /\ code = 0 /\ \A p \in Processes : ~InGroup(p)
        /\ writes # 0 /\ copy = output
===============================================================================
