----------------------- MODULE AnalysisModuleApplication -----------------------
(***************************************************************************)
(* AnalysisModuleApplication: for every run the run control announces, the *)
(* main thread opens an archive, gives the module the run, and takes the   *)
(* events DIM's thread queues, cycle after cycle, until the run is over.   *)
(*                                                                         *)
(* DIM's thread changes the run control client and fills the queue between *)
(* any two steps of the main thread: run, number and queue are read again  *)
(* at each use.  run() keeps a pointer to the Run it took, pRun; the run   *)
(* control owns that Run and deletes it when the run ends or is replaced.  *)
(* What is read through pRun then is undefined, and any number here.  What *)
(* the write of the end time then destroys is left out, but for a crash.   *)
(*                                                                         *)
(* Two clients are seen from the outside: the RunControlClient, which is   *)
(* told of runs, and the EventClient, with its update mode and its queue.  *)
(* A call of the queue is one step here: EventQueue has its steps.         *)
(***************************************************************************)
EXTENDS ModuleApplication

CONSTANTS
  MaxRuns,       \* bound: runs announced
  MaxEvents,     \* bound: events received
  MaxQueueSize   \* of the event client

ASSUME AnalysisAssumption == MaxRuns \in Nat /\ MaxEvents \in Nat /\ MaxQueueSize \in Nat \ {0}

VARIABLES
  running,        \* the run control client: isRunning
  number,         \*   and getCurrentRunNumber
  runs, events,   \* what the bounds count
  runNumber,      \* m_runNumber: the number that was noted of pRun
  held,           \* pRun is the Run of the run control, and not deleted
  stale,          \* history: it was deleted when the module was given it
  updateMode,     \* the event client wants events
  queue           \* events to process; for each, when it came

clientVars == <<running, number, runs, events>>
analysisVars == <<clientVars, runNumber, held, stale, updateMode, queue>>

\* Of an event: the run that the module was in when it came, and whether clearQueue
\* had emptied the queue for that run.
Arrival == [run : Number \cup {NoNumber}, cleared : BOOLEAN]

AnalysisInit ==
  /\ running = FALSE /\ number = NoNumber /\ runs = 0 /\ events = 0
  /\ runNumber = NoNumber /\ held = FALSE /\ stale = FALSE
  /\ updateMode = FALSE /\ queue = <<>>

-----------------------------------------------------------------------------
(* DIM's thread, between startServices and the end of the process. *)

Connected == pc \notin {"settings", "module", "name", "cycleType", "archiver", "network",
                        "run"} \cup Final

\* startNewRun of the run control client, which ends a run that goes on; the Run that
\* is over is deleted.
RunStarts(n) ==
  /\ Connected /\ runs < MaxRuns
  /\ running' = TRUE /\ number' = n /\ runs' = runs + 1
  /\ held' = FALSE
  /\ UNCHANGED <<applicationVars, events, runNumber, stale, updateMode, queue>>

RunEnds ==
  /\ Connected /\ running
  /\ running' = FALSE /\ number' = NoNumber
  /\ held' = FALSE
  /\ UNCHANGED <<applicationVars, runs, events, runNumber, stale, updateMode, queue>>

\* A full queue loses its oldest event.
PushEvent(e) ==
  queue' = Append(IF Len(queue) = MaxQueueSize THEN Tail(queue) ELSE queue, e)

\* An event may come whatever the update mode: the collector is told of it late, and
\* also sends events to clients that want none.  An empty or unreadable one is not
\* pushed.
EventReception ==
  /\ Connected /\ events < MaxEvents
  /\ events' = events + 1
  /\ \/ PushEvent([run |-> moduleRun, cleared |-> pc = "endRun"])
     \/ UNCHANGED queue
  /\ UNCHANGED <<applicationVars, running, number, runs, runNumber, held, stale, updateMode>>

DimThread == (\E n \in Number : RunStarts(n)) \/ RunEnds \/ EventReception

-----------------------------------------------------------------------------
(* readSettings. *)

ReadFile        == Configure("settings", "module") /\ UNCHANGED analysisVars
ConfigureModule == InitModule("module", "name") /\ UNCHANGED analysisVars

\* Another server of that name ends the configuration.
StartDimServer     == Configure("name", "cycleType") /\ UNCHANGED analysisVars
ConfigureCycle     == Configure("cycleType", "archiver") /\ UNCHANGED analysisVars
ConfigureArchiver  == Configure("archiver", "network") /\ UNCHANGED analysisVars
ConfigureNetwork   == SetInitialized("network") /\ UNCHANGED analysisVars

-----------------------------------------------------------------------------
(* run. *)

StartServices ==
  /\ pc = "run" /\ initialized
  /\ \E to \in {"waiting", "failed"} : GoOn(to)
  /\ UNCHANGED analysisVars

\* The wait for a run looks every second.
WaitForRun ==
  /\ pc = "waiting"
  /\ \/ shouldStop /\ GoOn("stopping")
     \/ running /\ ~shouldStop /\ GoOn("taking")
  /\ UNCHANGED analysisVars

\* getCurrentRun: the run may be gone when it is asked for.
TakeRun ==
  /\ pc = "taking"
  /\ IF running
     THEN GoOn("noting") /\ held' = TRUE
     ELSE GoOn("waiting") /\ UNCHANGED held
  /\ UNCHANGED <<clientVars, runNumber, stale, updateMode, queue>>

\* What pRun->getRunNumber() may give, here and in the module.
RunNumbers == IF held THEN {number} ELSE Number

\* Mutant: the number stays the one of an earlier run.
NoteRun_Kept == pc = "noting" /\ GoOn("opening") /\ UNCHANGED analysisVars

NoteRun ==
  /\ pc = "noting"
  /\ GoOn("opening")
  /\ runNumber' \in RunNumbers
  /\ UNCHANGED <<clientVars, held, stale, updateMode, queue>>

OpenRunArchive ==
  /\ pc = "opening"
  /\ \E r \in RunNumbers : OpenArchive(r, "startRun")
  /\ UNCHANGED analysisVars

StartOfRun ==
  /\ pc = "startRun"
  /\ call' = "startOfRun" /\ moduleRun' \in RunNumbers
  /\ stale' = ~held
  /\ pc' \in {"receiving", "failed"}
  /\ UNCHANGED <<mainOnly, archive, nProcessed, clientVars, runNumber, held, updateMode, queue>>

StartReceiving ==
  /\ pc = "receiving"
  /\ GoOn("deciding")
  /\ updateMode' = TRUE
  /\ UNCHANGED <<clientVars, runNumber, held, stale, queue>>

\* Mutant: a stop is not looked at.
Decide_NoStop ==
  /\ pc = "deciding"
  /\ IF running THEN StartCycle("cycle") ELSE GoOn("leaving")
  /\ UNCHANGED analysisVars

Decide ==
  /\ pc = "deciding"
  /\ IF running /\ ~shouldStop THEN StartCycle("cycle") ELSE GoOn("leaving")
  /\ UNCHANGED analysisVars

ProcessEvent ==
  /\ pc = "cycle" /\ ~CounterReached /\ ~shouldStop /\ queue # <<>>
  /\ queue' = Tail(queue)
  /\ call' = "process" /\ EventProcessed
  /\ UNCHANGED <<mainOnly, pc, moduleRun, archive, clientVars, runNumber, held, stale,
                 updateMode>>

\* Mutant: the elements are sent first, as they are before endOfCycle.
EndCycle_SendFirst == pc = "cycle" /\ SendMonitorElements("archiving") /\ UNCHANGED analysisVars

EndCycle == pc = "cycle" /\ StopCycle("archiving") /\ UNCHANGED analysisVars

ArchiveCycle == pc = "archiving" /\ WriteArchive("sending") /\ UNCHANGED analysisVars
SendElements == pc = "sending" /\ SendMonitorElements("checking") /\ UNCHANGED analysisVars

\* Mutant: only an end of run is noticed, not another run.
CheckRun_AnyRun == pc = "checking" /\ GoOn("deciding") /\ UNCHANGED analysisVars

\* The elements are reset, which may fail; a cycle of another run leaves the loop.
CheckRun ==
  /\ pc = "checking"
  /\ \/ GoOn("failed")
     \/ number # runNumber /\ GoOn("leaving")
     \/ number = runNumber /\ GoOn("deciding")
  /\ UNCHANGED analysisVars

StopReceiving ==
  /\ pc = "leaving"
  /\ GoOn("clearing")
  /\ updateMode' = FALSE
  /\ UNCHANGED <<clientVars, runNumber, held, stale, queue>>

\* Mutant: the queue keeps its events.
ClearQueue_Kept == pc = "clearing" /\ GoOn("endRun") /\ UNCHANGED analysisVars

ClearQueue ==
  /\ pc = "clearing"
  /\ GoOn("endRun")
  /\ queue' = <<>>
  /\ UNCHANGED <<clientVars, runNumber, held, stale, updateMode>>

EndOfRun ==
  /\ pc = "endRun"
  /\ call' = "endOfRun" /\ moduleRun' = NoNumber
  /\ pc' \in {"closing", "failed"}
  /\ UNCHANGED <<mainOnly, archive, nProcessed, analysisVars>>

\* Before it, the elements of the run are reset, which may fail.
CloseRunArchive ==
  /\ pc = "closing"
  /\ CloseArchive("waiting") \/ GoOn("failed")
  /\ UNCHANGED analysisVars

\* stopServices connects once more what is connected.
StopServices ==
  /\ pc = "stopping"
  /\ \E to \in Final : GoOn(to)
  /\ UNCHANGED analysisVars

AnalysisMain ==
  \/ ReadFile \/ ConfigureModule \/ StartDimServer \/ ConfigureCycle \/ ConfigureArchiver
  \/ ConfigureNetwork \/ (RunRefused /\ UNCHANGED analysisVars)
  \/ StartServices \/ WaitForRun \/ TakeRun \/ NoteRun \/ OpenRunArchive \/ StartOfRun
  \/ StartReceiving \/ Decide \/ ProcessEvent \/ EndCycle \/ ArchiveCycle \/ SendElements
  \/ CheckRun \/ StopReceiving \/ ClearQueue \/ EndOfRun \/ CloseRunArchive \/ StopServices

=============================================================================
