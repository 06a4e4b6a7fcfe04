-------------------------- MODULE ModuleApplications --------------------------
(***************************************************************************)
(* The programs that run a module, dqm4hep_start_analysis_module and       *)
(* dqm4hep_start_standalone_module, and what they promise to the module,   *)
(* to its archive and to whoever stops them.                               *)
(***************************************************************************)
EXTENDS AnalysisModuleApplication, StandaloneModuleApplication

vars == <<applicationVars, analysisVars>>

Init == ApplicationInit /\ AnalysisInit

RunAnalysis   == settings.application = "AnalysisModule" /\ AnalysisMain
RunStandalone == settings.application = "StandaloneModule" /\ StandaloneMain
                   /\ UNCHANGED analysisVars

Main == RunAnalysis \/ RunStandalone

\* The application of a module with runs is the one that has DIM's thread.
Next == Main \/ (settings.application = "AnalysisModule" /\ DimThread)
             \/ (SignalHandler /\ UNCHANGED analysisVars)

\* The main thread goes on, and no cycle is endless: its timer, its timeout or its
\* counter ends it, whatever happens to the run and to the events.
Fairness ==
  /\ WF_vars(Main)
  /\ WF_vars(RunAnalysis /\ EndCycle)
  /\ WF_vars(RunStandalone /\ StopTimerCycle)

Spec == Init /\ [][Next]_vars
FairSpec == Spec /\ Fairness

-----------------------------------------------------------------------------
(* Properties. *)

\* Where the main thread of the analysis application has a run open for the module.
InRun == {"receiving", "deciding", "cycle", "archiving", "sending", "checking", "leaving",
          "clearing", "endRun"}

TypeOK ==
  /\ settings \in Settings
  /\ pc \in InRun \cup Final
       \cup {"settings", "module", "name", "cycleType", "archiver", "network", "run",
             "waiting", "taking", "noting", "opening", "startRun", "closing", "stopping",
             "server", "connecting", "loop", "process", "publishing", "storing",
             "endingModule", "closingFile"}
  /\ initialized \in BOOLEAN /\ shouldStop \in BOOLEAN /\ interrupts \in 0 .. MaxInterrupts
  /\ call \in {"none", "initModule", "startOfRun", "startOfCycle", "process", "endOfCycle",
               "publish", "endOfRun", "endModule"}
  /\ moduleRun \in Number \cup {NoNumber}
  /\ archive \in Number \cup {NoNumber, Standalone}
  /\ nProcessed \in 0 .. MaxEvents
  /\ running \in BOOLEAN /\ number \in Number \cup {NoNumber}
  /\ runs \in 0 .. MaxRuns /\ events \in 0 .. MaxEvents
  /\ runNumber \in Number \cup {NoNumber}
  /\ held \in BOOLEAN /\ stale \in BOOLEAN /\ updateMode \in BOOLEAN
  /\ queue \in Seq(Arrival)
  /\ Len(queue) <= MaxQueueSize

\* The module is called in the order its author may count on (Module.h,
\* AnalysisModule.h), whatever run control, events, SIGINT and failures do.
Protocol == INSTANCE ModuleProtocol WITH call <- call, run <- moduleRun
CallsFollowProtocol == Protocol!ProtocolSpec

\* While events are processed, an event that came in an earlier run of the module is
\* one that came behind the clearQueue of that run: what came before is gone.
EventsOfThisRun ==
  pc \in {"deciding", "cycle"} =>
    \A i \in 1 .. Len(queue) :
      queue[i].run \in {moduleRun, NoNumber} \/ queue[i].cleared

\* A module that was given a Run that existed has its archive under the number of
\* that run, which is also the one the application noted, even when the run control
\* has gone on to another run.
ArchiveOfRun ==
  settings.application = "AnalysisModule" /\ moduleRun # NoNumber /\ ~stale =>
    runNumber = moduleRun /\ (settings.archive => archive = moduleRun)

\* An application that returns in order leaves nothing open: the archive is closed,
\* no run is left to the module, no events are asked for, and a standalone module
\* has been told of the end.
CleanReturn ==
  pc = "returned" =>
    /\ archive = NoNumber /\ moduleRun = NoNumber /\ ~updateMode
    /\ settings.application = "StandaloneModule" => call = "endModule"

\* A module does not stay in a run that is over, or that another one replaced, if the
\* Run existed when it was given it.
RunOverIsNoticed ==
  (moduleRun # NoNumber /\ ~stale /\ (~running \/ number # moduleRun))
    ~> (moduleRun = NoNumber \/ pc \in Final \/ (running /\ number = moduleRun))

\* A stop that was accepted ends run(), in a run or out of it.
StopIsHonoured == shouldStop ~> pc \in Final

=============================================================================
