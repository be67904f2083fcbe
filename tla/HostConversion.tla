---------------------------- MODULE HostConversion ----------------------------
(***************************************************************************)
(* The host of ServerHost with the conversion of ConverterProcess: one of  *)
(* the downloads may convert, so that Close waits for real processes, and  *)
(* the stop source of the host is what the process loop polls.             *)
(***************************************************************************)
EXTENDS ServerHost, ConverterProcess

CONSTANT Converting     \* the download that may ask for EPUB

ASSUME ConvertingAssumption == Converting \in Downloads

hostConvVars == <<hostVars, convVars>>

HostConvInit == HostInit /\ ConvInit

\* PrepareConvertedDownload calls Convert.
BeginConversion ==
    /\ call[Converting] = "preparing" /\ step = "none"
    /\ step' = "identify"
    /\ UNCHANGED <<hostVars, fileVars, startVars, proc, runVars, outVars>>

\* How PrepareConvertedDownload reports the end of Convert.
Reported(status) ==
    CASE status = "Succeeded" -> "Ready"
      [] status = "Cancelled" -> "Cancelled"
      [] status = "TimedOut"  -> "TimedOut"
      [] OTHER                -> "Error"

EndConversion ==
    /\ step = "finished"
    /\ Prepared(Converting, Reported(result))
    /\ step' = "none" /\ identity' = NoFile /\ opened' = 0 /\ compared' = 0 /\ ran' = NoFile
    /\ proc' = [p \in Processes |-> "none"]
    /\ killed' = FALSE /\ reaped' = FALSE /\ code' = 0 /\ deadline' = FALSE /\ why' = "none"
    /\ produced' = "nothing" /\ output' = [b \in Blocks |-> 0] /\ writes' = 0
    /\ looked' = 0 /\ copy' = [b \in Blocks |-> 0] /\ unread' = {} /\ result' = "none"
    /\ UNCHANGED fileVars

ConversionStep ==
    \/ BeginConversion
    \/ Supervise(Stopped(Converting)) /\ UNCHANGED hostVars
    \/ EndConversion

\* A download that does not convert, because it delivers the original or fails before, stops
\* at a checkpoint.
PlainPrepare(d) ==
    /\ d = Converting => step = "none"
    /\ PrepareEnds(d) \/ PrepareCancelled(d)
    /\ UNCHANGED convVars

HostConvNext ==
    \/ (OpenStep \/ BeginClose \/ CloseStep) /\ UNCHANGED convVars
    \/ \E d \in Downloads :
          \/ /\ CheckOpen(d) \/ RegisterOperation(d) \/ EndDownloadOperation(d) \/ CallAgain(d)
             /\ UNCHANGED convVars
          \/ PlainPrepare(d)
    \/ ConversionStep
    \/ ConvEnvironment /\ UNCHANGED hostVars

\* Threads run and I/O ends; but a converter need not end, and its deadline may be far.
HostConvSpec ==
    /\ HostConvInit /\ [][HostConvNext]_hostConvVars
    /\ WF_hostVars(RenewStopSource \/ PublishOpen)
    /\ WF_hostVars(CloseStep)
    /\ \A d \in Downloads : WF_hostVars(RegisterOperation(d) \/ EndDownloadOperation(d))
    /\ \A d \in Downloads : WF_hostConvVars(PlainPrepare(d) /\ Stopped(d))
    /\ WF_hostConvVars(ConversionStep)
    /\ \A p \in Processes : WF_convVars(ProcessWakes(p))
===============================================================================
