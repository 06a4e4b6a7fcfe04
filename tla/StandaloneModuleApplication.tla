---------------------- MODULE StandaloneModuleApplication ----------------------
(***************************************************************************)
(* StandaloneModuleApplication: no run control and no events.  The main    *)
(* thread calls process() until its TimerCycle ends, sends the elements,   *)
(* and begins the next cycle, until SIGINT.  One archive serves the whole  *)
(* life of the application.                                                *)
(***************************************************************************)
EXTENDS ModuleApplication

\* readSettings: the sender, the cycle and the module; the archiver and the name,
\* which no other server may have; the sender again.
ReadSettings      == InitModule("settings", "server")
StartModuleServer == Configure("server", "connecting")
ConnectSender     == SetInitialized("connecting")

OpenModuleArchive ==
  /\ pc = "run" /\ initialized
  /\ OpenArchive(Standalone, "loop")

\* Mutant: the program ends without a last word to the module.
Loop_Leave == pc = "loop" /\ IF shouldStop THEN GoOn("closingFile") ELSE StartCycle("process")

Loop == pc = "loop" /\ IF shouldStop THEN GoOn("endingModule") ELSE StartCycle("process")

\* The error of process() is the end of run().
Process == pc = "process" /\ ~shouldStop /\ CallModule("process", "process")

StopTimerCycle    == pc = "process" /\ StopCycle("publishing")
PublishElements   == pc = "publishing" /\ SendMonitorElements("storing")
StoreElements     == pc = "storing" /\ WriteArchive("loop")
EndModule         == pc = "endingModule" /\ CallModule("endModule", "closingFile")
CloseModuleArchive == pc = "closingFile" /\ CloseArchive("returned")

StandaloneMain ==
  \/ ReadSettings \/ StartModuleServer \/ ConnectSender \/ RunRefused
  \/ OpenModuleArchive \/ Loop \/ Process \/ StopTimerCycle \/ PublishElements
  \/ StoreElements \/ EndModule \/ CloseModuleArchive

=============================================================================
