--------------------------- MODULE ModuleApplication ---------------------------
(***************************************************************************)
(* What the applications that run a module share: ModuleApplication, the   *)
(* signal handler of their programs, the cycles and the module itself.     *)
(*                                                                         *)
(* The main thread reads the settings, then calls run(): pc tells where it *)
(* is.  SIGINT comes at any point of it.  A call of the module, of the     *)
(* archiver or of a service may fail; run() then returns from where it is. *)
(*                                                                         *)
(* External: the module (a plugin) and the archiver, by their calls.       *)
(***************************************************************************)
EXTENDS Naturals, Sequences

CONSTANTS
  Number,         \* run numbers
  NoNumber,       \* no run; as a number, the -1 of the code
  Standalone,     \* name of the archive of a module without runs
  CycleValue,     \* events in an EventCounterCycle
  MaxInterrupts   \* bound: SIGINTs

ASSUME NumberAssumption ==
  Number \subseteq Nat /\ NoNumber \notin Number /\ Standalone \notin Number \cup {NoNumber}
ASSUME CycleAssumption == CycleValue \in Nat \ {0} /\ MaxInterrupts \in Nat

VARIABLES
  settings,     \* what the steering file asks for
  pc,           \* where the main thread is
  initialized,  \* m_isInitialized
  shouldStop,   \* m_shouldStop
  interrupts,   \* what the bound counts
  call,         \* last call of the module
  moduleRun,    \* run the module was given and that was not ended
  archive,      \* what the open archive is named for
  nProcessed    \* m_nProcessedEvents of the cycle

applicationVars ==
  <<settings, pc, initialized, shouldStop, interrupts, call, moduleRun, archive, nProcessed>>

\* Steps of the main thread leave alone what only readSettings and SIGINT change.
mainOnly == <<settings, initialized, shouldStop, interrupts>>

Settings == [application : {"AnalysisModule", "StandaloneModule"},
             cycle : {"TimerCycle", "EventCounterCycle"}, archive : BOOLEAN]

\* run() has returned: as it should, or from the middle because something failed.
Final == {"returned", "failed"}

ApplicationInit ==
  /\ settings \in {s \in Settings : s.application = "StandaloneModule" => s.cycle = "TimerCycle"}
  /\ pc = "settings"
  /\ initialized = FALSE /\ shouldStop = FALSE /\ interrupts = 0
  /\ call = "none" /\ moduleRun = NoNumber
  /\ archive = NoNumber /\ nProcessed = 0

-----------------------------------------------------------------------------
(* readSettings, exit and the signal handler. *)

\* A stage of readSettings.  When one fails the program goes on to run() all the
\* same: exit() refuses to stop an application that is not initialized.
Configure(from, to) ==
  /\ pc = from
  /\ pc' \in {to, "run"}
  /\ UNCHANGED <<settings, initialized, shouldStop, interrupts, call, moduleRun, archive,
                 nProcessed>>

\* The module's readSettings may fail, or its initModule.
InitModule(from, to) ==
  /\ pc = from
  /\ \/ pc' = "run" /\ call' \in {"none", "initModule"}
     \/ pc' = to /\ call' = "initModule"
  /\ UNCHANGED <<settings, initialized, shouldStop, interrupts, moduleRun, archive, nProcessed>>

\* The last stage, with setInitialized(true) at its end.
SetInitialized(from) ==
  /\ pc = from
  /\ pc' = "run"
  /\ initialized' \in BOOLEAN
  /\ UNCHANGED <<settings, shouldStop, interrupts, call, moduleRun, archive, nProcessed>>

\* run() of an application that is not initialized.
RunRefused ==
  /\ pc = "run" /\ ~initialized
  /\ pc' = "failed"
  /\ UNCHANGED <<mainOnly, call, moduleRun, archive, nProcessed>>

\* exit(): before the application is initialized it does nothing, so that a SIGINT
\* while the settings are read is lost.
Exit == shouldStop' = (shouldStop \/ initialized)

SignalHandler ==
  /\ pc \notin Final /\ interrupts < MaxInterrupts
  /\ interrupts' = interrupts + 1
  /\ Exit
  /\ UNCHANGED <<settings, pc, initialized, call, moduleRun, archive, nProcessed>>

-----------------------------------------------------------------------------
(* Steps of run(). *)

\* The main thread goes on, and changes nothing else of the application.
GoOn(to) == pc' = to /\ UNCHANGED <<mainOnly, call, moduleRun, archive, nProcessed>>

\* A call of the module that may fail; endOfRun forgets the run, the others keep it.
CallModule(name, to) ==
  /\ call' = name
  /\ pc' \in {to, "failed"}
  /\ UNCHANGED <<mainOnly, moduleRun, archive, nProcessed>>

\* open(..., "RECREATE"), if the settings ask for an archive.
OpenArchive(name, to) ==
  /\ \/ settings.archive /\ archive' = name /\ pc' = to
     \/ settings.archive /\ UNCHANGED archive /\ pc' = "failed"
     \/ ~settings.archive /\ UNCHANGED archive /\ pc' = to
  /\ UNCHANGED <<mainOnly, call, moduleRun, nProcessed>>

\* Mutant: the file stays open.
CloseArchive_LeftOpen(to) ==
  /\ pc' \in {to, "failed"} /\ (~settings.archive => pc' = to)
  /\ UNCHANGED <<mainOnly, call, moduleRun, archive, nProcessed>>

CloseArchive(to) ==
  /\ \/ settings.archive /\ archive' = NoNumber /\ pc' = to
     \/ settings.archive /\ UNCHANGED archive /\ pc' = "failed"
     \/ ~settings.archive /\ UNCHANGED archive /\ pc' = to
  /\ UNCHANGED <<mainOnly, call, moduleRun, nProcessed>>

\* archive(module), if there is an archive: the file gets the elements.
WriteArchive(to) ==
  /\ pc' \in {to, "failed"} /\ (~settings.archive => pc' = to)
  /\ UNCHANGED <<mainOnly, call, moduleRun, archive, nProcessed>>

\* sendMonitorElements: what was booked goes to the collector.
SendMonitorElements(to) ==
  /\ \/ call' = "publish" /\ pc' = to
     \/ UNCHANGED call /\ pc' = "failed"
  /\ UNCHANGED <<mainOnly, moduleRun, archive, nProcessed>>

-----------------------------------------------------------------------------
(* Cycle, TimerCycle, EventCounterCycle. *)

\* startCycle calls the listener, the application, which throws when the module fails.
StartCycle(to) ==
  /\ call' = "startOfCycle" /\ nProcessed' = 0
  /\ pc' \in {to, "failed"}
  /\ UNCHANGED <<mainOnly, moduleRun, archive>>

\* EventCounterCycle: isEndOfCycleReached, as long as no event comes.
CounterReached == settings.cycle = "EventCounterCycle" /\ nProcessed >= CycleValue

\* The clock may end a TimerCycle at any look at it, and the timeout any cycle: it
\* counts from the last event whose processing did not throw.
StopCycle(to) == CallModule("endOfCycle", to)

\* processEvent or process, and eventProcessed if it did not throw.
EventProcessed == nProcessed' \in {nProcessed, nProcessed + 1}

=============================================================================
