------------------------ MODULE ModuleApplicationsProofs ------------------------
(***************************************************************************)
(* Proofs about the applications that run a module: for any runs, bounds   *)
(* and sizes of the queue, whatever DIM's thread, SIGINT and failures do   *)
(* between two steps of the main thread, the module is called in the order *)
(* of ModuleProtocol, its archive is the one of the run it was given while *)
(* that was there, and the events an earlier run left behind are those     *)
(* that came after its clearQueue.                                         *)
(*                                                                         *)
(* The inductive invariant says for each place of the main thread what was *)
(* called last, what is open and who may have put events in the queue.     *)
(***************************************************************************)
EXTENDS ModuleApplications, TLAPS

\* Places of the main thread that only one of the programs has.
OfAnalysis == InRun \cup {"settings", "module", "name", "cycleType", "archiver", "network",
                          "run", "waiting", "taking", "noting", "opening", "startRun",
                          "closing", "stopping"} \cup Final

OfStandalone == {"settings", "server", "connecting", "run", "loop", "process", "publishing",
                 "storing", "endingModule", "closingFile"} \cup Final

\* Each application is in its own program.
Program ==
  /\ settings.application = "AnalysisModule" => pc \in OfAnalysis
  /\ settings.application = "StandaloneModule" => pc \in OfStandalone

\* Before the configuration is over nothing was called but initModule, and it was
\* called when the configuration is complete.
Configuration ==
  /\ pc \in {"settings", "module"} => call = "none" /\ ~initialized
  /\ pc \in {"name", "cycleType", "archiver", "network", "server", "connecting"} =>
       call = "initModule" /\ ~initialized
  /\ pc = "run" => call \in {"none", "initModule"} /\ (initialized => call = "initModule")

\* The last call, by the place in the loop.
LastCall ==
  /\ pc \in {"waiting", "taking", "noting", "opening", "startRun", "stopping"} =>
       call \in {"initModule", "endOfRun"}
  /\ pc \in {"receiving", "deciding", "leaving", "clearing", "endRun"} =>
       call \in {"startOfRun", "publish"}
  /\ pc \in {"cycle", "process"} => call \in {"startOfCycle", "process"}
  /\ pc \in {"archiving", "sending", "publishing"} => call = "endOfCycle"
  /\ pc = "checking" => call = "publish"
  /\ pc = "closing" => call = "endOfRun"
  /\ pc = "loop" => call \in {"initModule", "publish"}
  /\ pc = "endingModule" => call \in {"initModule", "publish"}
  /\ pc = "storing" => call = "publish"
  /\ settings.application = "StandaloneModule" /\ pc \in {"closingFile", "returned"} =>
       call = "endModule"

\* The run of the module, and the number noted for it: the same as long as the Run
\* was there when they were read of it.
RunOfModule ==
  /\ running => number \in Number
  /\ held => running
  /\ pc \in {"opening", "startRun"} /\ held => runNumber = number
  /\ pc \in InRun => moduleRun \in Number
  /\ moduleRun # NoNumber /\ ~stale => runNumber = moduleRun
  /\ pc \notin InRun \cup Final => moduleRun = NoNumber
  /\ pc = "returned" => moduleRun = NoNumber

\* The archive, from its opening before the run to its closing after it.
Archive ==
  /\ ~settings.archive => archive = NoNumber
  /\ settings.application = "AnalysisModule" /\ settings.archive =>
       /\ pc = "startRun" /\ held => archive = runNumber
       /\ moduleRun # NoNumber /\ ~stale => archive = moduleRun
  /\ pc \in {"settings", "module", "name", "cycleType", "archiver", "network", "run",
             "server", "connecting", "waiting", "taking", "noting", "opening", "stopping",
             "returned"} =>
       archive = NoNumber

\* The queue has no event of a run that the module left, but what came behind the
\* clearQueue of that run.
Queue ==
  /\ updateMode => pc \in {"deciding", "cycle", "archiving", "sending", "checking", "leaving"}
                            \cup {"failed"}
  /\ \A i \in 1 .. Len(queue) : queue[i].run \in {moduleRun, NoNumber} \/ queue[i].cleared
  /\ pc = "endRun" =>
       \A i \in 1 .. Len(queue) : queue[i].run = NoNumber \/ queue[i].cleared

\* Every event is in the queue at most once, and processed at most once.
Counts == nProcessed \in Nat /\ nProcessed + Len(queue) <= events

\* TypeOK, of the main thread's variables and of the others.
MainTypes ==
  /\ settings \in Settings
  /\ initialized \in BOOLEAN /\ shouldStop \in BOOLEAN /\ interrupts \in 0 .. MaxInterrupts
  /\ call \in {"none", "initModule", "startOfRun", "startOfCycle", "process", "endOfCycle",
               "publish", "endOfRun", "endModule"}
  /\ moduleRun \in Number \cup {NoNumber}
  /\ archive \in Number \cup {NoNumber, Standalone}

ClientTypes ==
  /\ running \in BOOLEAN /\ number \in Number \cup {NoNumber}
  /\ runs \in 0 .. MaxRuns /\ events \in 0 .. MaxEvents
  /\ runNumber \in Number \cup {NoNumber}
  /\ held \in BOOLEAN /\ stale \in BOOLEAN /\ updateMode \in BOOLEAN
  /\ queue \in Seq(Arrival)
  /\ Len(queue) <= MaxQueueSize

\* The inductive invariant: what the main thread does, and what it shares.
MainInv == MainTypes /\ Program /\ Configuration /\ LastCall /\ Archive

SharedInv == ClientTypes /\ RunOfModule /\ Queue /\ Counts

ApplicationInv == MainInv /\ SharedInv

LEMMA InvariantTypes == ApplicationInv => TypeOK
<1> SUFFICES ASSUME ApplicationInv PROVE TypeOK
  OBVIOUS
<1>1. nProcessed \in 0 .. MaxEvents
  <2>1. /\ events \in 0 .. MaxEvents /\ Len(queue) \in Nat /\ MaxEvents \in Nat
        /\ nProcessed \in Nat /\ nProcessed + Len(queue) <= events
    BY AnalysisAssumption DEF ApplicationInv, SharedInv, ClientTypes, Counts
  <2> QED
    BY <2>1
<1>2. pc \in OfAnalysis \cup OfStandalone
  <2>1. settings.application \in {"AnalysisModule", "StandaloneModule"}
    BY DEF ApplicationInv, MainInv, MainTypes, Settings
  <2> QED
    BY <2>1 DEF ApplicationInv, MainInv, Program
<1>3. pc \in InRun \cup Final
       \cup {"settings", "module", "name", "cycleType", "archiver", "network", "run",
             "waiting", "taking", "noting", "opening", "startRun", "closing", "stopping",
             "server", "connecting", "loop", "process", "publishing", "storing",
             "endingModule", "closingFile"}
  BY <1>2 DEF OfAnalysis, OfStandalone
<1> QED
  BY <1>1, <1>3 DEF ApplicationInv, MainInv, SharedInv, MainTypes, ClientTypes, TypeOK

LEMMA ApplicationInitially == Init => ApplicationInv
<1> SUFFICES ASSUME Init PROVE ApplicationInv
  OBVIOUS
<1>1. MainTypes
  <2>1. settings \in Settings /\ interrupts \in 0 .. MaxInterrupts
    BY CycleAssumption DEF Init, ApplicationInit
  <2> QED
    BY <2>1 DEF Init, ApplicationInit, MainTypes
<1>2. Program /\ Configuration /\ LastCall /\ Archive
  BY DEF Init, ApplicationInit, Program, OfAnalysis, OfStandalone, Configuration, LastCall,
         Archive
<1>3. ClientTypes
  <2>1. runs \in 0 .. MaxRuns /\ events \in 0 .. MaxEvents
    BY AnalysisAssumption DEF Init, AnalysisInit
  <2>2. queue \in Seq(Arrival) /\ Len(queue) <= MaxQueueSize
    BY AnalysisAssumption DEF Init, AnalysisInit
  <2> QED
    BY <2>1, <2>2 DEF Init, AnalysisInit, ClientTypes
<1>4. RunOfModule
  BY DEF Init, ApplicationInit, AnalysisInit, RunOfModule, InRun
<1>5. Queue /\ Counts
  BY DEF Init, ApplicationInit, AnalysisInit, Queue, Counts
<1> QED
  BY <1>1, <1>2, <1>3, <1>4, <1>5 DEF ApplicationInv, MainInv, SharedInv

(* Queues. *)

\* A queue without its first event.
LEMMA TailOfQueue ==
  ASSUME NEW S, NEW q \in Seq(S), q # <<>>
  PROVE  /\ Tail(q) \in Seq(S) /\ Len(q) \in Nat \ {0} /\ Len(Tail(q)) = Len(q) - 1
         /\ \A i \in 1 .. Len(Tail(q)) : Tail(q)[i] = q[i + 1] /\ i + 1 \in 1 .. Len(q)
OBVIOUS

LEMMA EmptyQueue == <<>> \in Seq(Arrival) /\ Len(<<>>) = 0
OBVIOUS

\* An event more, or one more and the oldest one less: the queue stays within its
\* limit, and what is true of the events in it and of the new one stays true.
LEMMA EventPushed ==
  ASSUME NEW e \in Arrival, queue \in Seq(Arrival),
         Len(queue) <= MaxQueueSize, PushEvent(e)
  PROVE  /\ queue' \in Seq(Arrival) /\ Len(queue') <= MaxQueueSize
         /\ Len(queue') \in Nat /\ Len(queue') <= Len(queue) + 1
         /\ \A i \in 1 .. Len(queue') :
              queue'[i] = e \/ \E j \in 1 .. Len(queue) : queue'[i] = queue[j]
<1> DEFINE q == IF Len(queue) = MaxQueueSize THEN Tail(queue) ELSE queue
<1>1. Len(queue) \in Nat /\ MaxQueueSize \in Nat \ {0}
  BY AnalysisAssumption
<1>2. /\ q \in Seq(Arrival) /\ Len(q) \in Nat
      /\ Len(q) < MaxQueueSize /\ Len(q) <= Len(queue)
      /\ \A i \in 1 .. Len(q) : \E j \in 1 .. Len(queue) : q[i] = queue[j]
  <2>1. CASE Len(queue) = MaxQueueSize
    <3>1. queue # <<>>
      BY <1>1, <2>1
    <3> QED
      BY <1>1, <2>1, <3>1, TailOfQueue
  <2>2. CASE Len(queue) # MaxQueueSize
    BY <1>1, <2>2
  <2> QED
    BY <2>1, <2>2
<1>3. queue' = Append(q, e)
  BY DEF PushEvent
<1> HIDE DEF q
<1>4. /\ queue' \in Seq(Arrival) /\ Len(queue') = Len(q) + 1
      /\ \A i \in 1 .. Len(q) : queue'[i] = q[i]
      /\ queue'[Len(q) + 1] = e
  BY <1>2, <1>3
<1> QED
  <2> SUFFICES ASSUME NEW i \in 1 .. Len(queue')
               PROVE  queue'[i] = e \/ \E j \in 1 .. Len(queue) : queue'[i] = queue[j]
    BY <1>1, <1>2, <1>4
  <2>1. CASE i = Len(q) + 1
    BY <1>4, <2>1
  <2>2. CASE i \in 1 .. Len(q)
    BY <1>2, <1>4, <2>2
  <2> QED
    BY <1>2, <1>4, <2>1, <2>2

(* DIM's thread and SIGINT. *)

\* What the main thread does is said without the clients.
LEMMA MainFrame ==
  ASSUME MainInv, UNCHANGED <<applicationVars, runNumber, stale>>, held' => held
  PROVE  MainInv'
<1>1. UNCHANGED <<settings, pc, initialized, shouldStop, interrupts, call, moduleRun, archive,
                  runNumber, stale>>
  BY DEF applicationVars
<1>2. MainTypes'
  BY <1>1 DEF MainInv, MainTypes, Settings
<1>3. Program' /\ Configuration' /\ LastCall'
  BY <1>1
  DEF MainInv, Program, OfAnalysis, OfStandalone, InRun, Final, Configuration, LastCall
<1>4. Archive'
  BY <1>1 DEF MainInv, Archive
<1> QED
  BY <1>2, <1>3, <1>4 DEF MainInv

\* What it shares with DIM's thread, when that changes the run control client only.
LEMMA RunControlKeeps ==
  ASSUME ApplicationInv, (\E n \in Number : RunStarts(n)) \/ RunEnds
  PROVE  ApplicationInv'
<1>1. /\ UNCHANGED <<applicationVars, events, runNumber, stale, updateMode, queue>>
      /\ held' = FALSE
      /\ running' \in BOOLEAN /\ number' \in Number \cup {NoNumber}
      /\ running' => number' \in Number
      /\ runs' = runs \/ (runs' = runs + 1 /\ runs < MaxRuns)
  BY DEF RunStarts, RunEnds
<1>a. runs' \in 0 .. MaxRuns
  BY <1>1, AnalysisAssumption DEF ApplicationInv, SharedInv, ClientTypes
<1>2. UNCHANGED <<pc, moduleRun, nProcessed>>
  BY <1>1 DEF applicationVars
<1>3. ClientTypes'
  BY <1>1, <1>a DEF ApplicationInv, SharedInv, ClientTypes
<1>4. RunOfModule'
  BY <1>1, <1>2 DEF ApplicationInv, SharedInv, RunOfModule, InRun, Final
<1>5. Queue' /\ Counts'
  BY <1>1, <1>2 DEF ApplicationInv, SharedInv, Queue, Counts
<1> QED
  BY <1>1, <1>3, <1>4, <1>5, MainFrame DEF ApplicationInv, SharedInv

\* An event that arrives is noted for the run the module is in.
LEMMA EventReceptionKeeps ==
  ASSUME ApplicationInv, EventReception
  PROVE  ApplicationInv'
<1> DEFINE e == [run |-> moduleRun, cleared |-> pc = "endRun"]
<1>1. /\ UNCHANGED <<applicationVars, running, number, runs, runNumber, held, stale, updateMode>>
      /\ events' = events + 1 /\ events < MaxEvents
      /\ e \in Arrival /\ (PushEvent(e) \/ queue' = queue)
  BY DEF EventReception, ApplicationInv, MainInv, MainTypes, Arrival
<1>e. e.run = moduleRun /\ (e.cleared <=> pc = "endRun")
  OBVIOUS
<1>2. UNCHANGED <<pc, moduleRun, nProcessed>>
  BY <1>1 DEF applicationVars
<1>3. /\ queue' \in Seq(Arrival) /\ Len(queue') <= MaxQueueSize
      /\ Len(queue') \in Nat /\ Len(queue') <= Len(queue) + 1
      /\ \A i \in 1 .. Len(queue') :
           queue'[i] = e \/ \E j \in 1 .. Len(queue) : queue'[i] = queue[j]
  <2> HIDE DEF e
  <2>1. CASE PushEvent(e)
    BY <1>1, <2>1, EventPushed DEF ApplicationInv, SharedInv, ClientTypes
  <2>2. CASE queue' = queue
    BY <2>2 DEF ApplicationInv, SharedInv, ClientTypes
  <2> QED
    BY <1>1, <2>1, <2>2
<1>4. events \in Nat /\ events' \in 0 .. MaxEvents
  BY <1>1, AnalysisAssumption DEF ApplicationInv, SharedInv, ClientTypes
<1>5. ClientTypes'
  BY <1>1, <1>3, <1>4 DEF ApplicationInv, SharedInv, ClientTypes
<1>6. RunOfModule'
  BY <1>1, <1>2 DEF ApplicationInv, SharedInv, RunOfModule, InRun, Final
<1>7. Queue'
  <2> HIDE DEF e
  <2>1. \A i \in 1 .. Len(queue') :
          queue'[i].run \in {moduleRun, NoNumber} \/ queue'[i].cleared
    BY <1>e, <1>3 DEF ApplicationInv, SharedInv, Queue
  <2>2. pc = "endRun" =>
          \A i \in 1 .. Len(queue') : queue'[i].run = NoNumber \/ queue'[i].cleared
    BY <1>e, <1>3 DEF ApplicationInv, SharedInv, Queue
  <2> QED
    BY <1>1, <1>2, <2>1, <2>2 DEF ApplicationInv, SharedInv, Queue
<1>8. Counts'
  <2>1. Len(queue) \in Nat /\ nProcessed \in Nat /\ nProcessed + Len(queue) <= events
    BY DEF ApplicationInv, SharedInv, ClientTypes, Counts
  <2> QED
    BY <1>1, <1>2, <1>3, <1>4, <2>1 DEF Counts
<1> QED
  BY <1>1, <1>5, <1>6, <1>7, <1>8, MainFrame DEF ApplicationInv, SharedInv

\* SIGINT raises a flag, and nothing in the invariant is about it.
LEMMA SignalHandlerKeeps ==
  ASSUME ApplicationInv, SignalHandler, UNCHANGED analysisVars
  PROVE  ApplicationInv'
<1>1. /\ UNCHANGED <<settings, pc, initialized, call, moduleRun, archive, nProcessed>>
      /\ UNCHANGED <<running, number, runs, events, runNumber, held, stale, updateMode,
                      queue>>
      /\ shouldStop' \in BOOLEAN
  BY DEF SignalHandler, Exit, ApplicationInv, MainInv, MainTypes, analysisVars, clientVars
<1>2. interrupts' \in 0 .. MaxInterrupts
  BY CycleAssumption DEF SignalHandler, ApplicationInv, MainInv, MainTypes
<1>3. MainTypes'
  BY <1>1, <1>2 DEF ApplicationInv, MainInv, MainTypes, Settings
<1>4. Program' /\ Configuration' /\ LastCall' /\ Archive'
  BY <1>1
  DEF ApplicationInv, MainInv, Program, OfAnalysis, OfStandalone, InRun, Final,
      Configuration, LastCall, Archive
<1>5. ClientTypes' /\ RunOfModule'
  BY <1>1 DEF ApplicationInv, SharedInv, ClientTypes, RunOfModule, InRun, Final
<1>6. Queue' /\ Counts'
  BY <1>1 DEF ApplicationInv, SharedInv, Queue, Counts
<1> QED
  BY <1>3, <1>4, <1>5, <1>6 DEF ApplicationInv, MainInv, SharedInv

(* The main thread. *)

LEMMA CountFacts ==
  ASSUME SharedInv
  PROVE  /\ nProcessed \in Nat /\ events \in Nat /\ Len(queue) \in Nat
         /\ nProcessed + Len(queue) <= events
<1>1. events \in Nat
  BY AnalysisAssumption DEF SharedInv, ClientTypes
<1>2. Len(queue) \in Nat
  BY DEF SharedInv, ClientTypes
<1> QED
  BY <1>1, <1>2 DEF SharedInv, Counts

\* Steps that leave the clients, the run and the queue alone.
LEMMA SharedFrame ==
  ASSUME SharedInv, UNCHANGED <<moduleRun, analysisVars>>,
         nProcessed' \in {0, nProcessed},
         RunOfModule',
         updateMode => pc' \in {"deciding", "cycle", "archiving", "sending", "checking",
                                "leaving", "failed"},
         pc' # "endRun"
  PROVE  SharedInv'
<1>1. UNCHANGED <<moduleRun, running, number, runs, events, runNumber, held, stale,
                  updateMode, queue>>
  BY DEF analysisVars, clientVars
<1>2. ClientTypes'
  BY <1>1 DEF SharedInv, ClientTypes
<1>3. Queue'
  BY <1>1 DEF SharedInv, Queue
<1>4. Counts'
  BY <1>1, CountFacts DEF Counts
<1> QED
  BY <1>2, <1>3, <1>4 DEF SharedInv

\* Reading the settings, and the start of run().
LEMMA AnalysisConfigurationKeeps ==
  ASSUME ApplicationInv, settings.application = "AnalysisModule",
         \/ ReadFile \/ ConfigureModule \/ StartDimServer \/ ConfigureCycle
         \/ ConfigureArchiver \/ ConfigureNetwork \/ (RunRefused /\ UNCHANGED analysisVars)
         \/ StartServices
  PROVE  ApplicationInv'
<1> USE DEF MainInv, MainTypes, Settings, Program, OfAnalysis, OfStandalone, InRun, Final,
            Configuration, LastCall, Archive, RunOfModule, ApplicationInv, mainOnly
<1>1. CASE ReadFile
  <2>1. MainInv' /\ RunOfModule'
    BY <1>1 DEF ReadFile, Configure, analysisVars, clientVars, SharedInv
  <2> QED
    BY <1>1, <2>1, SharedFrame DEF ReadFile, Configure, SharedInv, Queue
<1>2. CASE ConfigureModule
  <2>1. MainInv' /\ RunOfModule'
    BY <1>2 DEF ConfigureModule, InitModule, analysisVars, clientVars, SharedInv
  <2> QED
    BY <1>2, <2>1, SharedFrame DEF ConfigureModule, InitModule, SharedInv, Queue
<1>3. CASE StartDimServer
  <2>1. MainInv' /\ RunOfModule'
    BY <1>3 DEF StartDimServer, Configure, analysisVars, clientVars, SharedInv
  <2> QED
    BY <1>3, <2>1, SharedFrame DEF StartDimServer, Configure, SharedInv, Queue
<1>4. CASE ConfigureCycle
  <2>1. MainInv' /\ RunOfModule'
    BY <1>4 DEF ConfigureCycle, Configure, analysisVars, clientVars, SharedInv
  <2> QED
    BY <1>4, <2>1, SharedFrame DEF ConfigureCycle, Configure, SharedInv, Queue
<1>5. CASE ConfigureArchiver
  <2>1. MainInv' /\ RunOfModule'
    BY <1>5 DEF ConfigureArchiver, Configure, analysisVars, clientVars, SharedInv
  <2> QED
    BY <1>5, <2>1, SharedFrame DEF ConfigureArchiver, Configure, SharedInv, Queue
<1>6. CASE ConfigureNetwork
  <2>1. MainInv' /\ RunOfModule'
    BY <1>6 DEF ConfigureNetwork, SetInitialized, analysisVars, clientVars, SharedInv
  <2> QED
    BY <1>6, <2>1, SharedFrame DEF ConfigureNetwork, SetInitialized, SharedInv, Queue
<1>7. CASE RunRefused /\ UNCHANGED analysisVars
  <2>1. MainInv' /\ RunOfModule'
    BY <1>7 DEF RunRefused, analysisVars, clientVars, SharedInv
  <2> QED
    BY <1>7, <2>1, SharedFrame DEF RunRefused, SharedInv, Queue
<1>8. CASE StartServices
  <2>1. MainInv' /\ RunOfModule'
    BY <1>8 DEF StartServices, GoOn, analysisVars, clientVars, SharedInv
  <2> QED
    BY <1>8, <2>1, SharedFrame DEF StartServices, GoOn, SharedInv, Queue
<1> QED
  BY <1>1, <1>2, <1>3, <1>4, <1>5, <1>6, <1>7, <1>8

\* The wait for a run, and its archive.
LEMMA AnalysisWaitKeeps ==
  ASSUME ApplicationInv, settings.application = "AnalysisModule",
         WaitForRun \/ TakeRun \/ NoteRun \/ OpenRunArchive \/ StopServices
  PROVE  ApplicationInv'
<1> USE DEF MainInv, MainTypes, Settings, Program, OfAnalysis, OfStandalone, InRun, Final,
            Configuration, LastCall, Archive, RunOfModule, ApplicationInv, mainOnly
<1>1. CASE WaitForRun
  <2>1. MainInv' /\ RunOfModule'
    BY <1>1 DEF WaitForRun, GoOn, analysisVars, clientVars, SharedInv
  <2> QED
    BY <1>1, <2>1, SharedFrame DEF WaitForRun, GoOn, SharedInv, Queue
<1>2. CASE TakeRun
  <2>1. MainInv' /\ RunOfModule'
    BY <1>2 DEF TakeRun, GoOn, clientVars, SharedInv, ClientTypes
  <2>2. ClientTypes'
    BY <1>2 DEF TakeRun, clientVars, SharedInv, ClientTypes
  <2>3. Queue' /\ Counts'
    BY <1>2 DEF TakeRun, GoOn, clientVars, SharedInv, Queue, Counts
  <2> QED
    BY <2>1, <2>2, <2>3 DEF SharedInv
<1>3. CASE OpenRunArchive
  <2>1. MainInv' /\ RunOfModule'
    BY <1>3
    DEF OpenRunArchive, OpenArchive, RunNumbers, analysisVars, clientVars, SharedInv, ClientTypes
  <2> QED
    BY <1>3, <2>1, SharedFrame DEF OpenRunArchive, OpenArchive, SharedInv, Queue
<1>4. CASE StopServices
  <2>1. MainInv' /\ RunOfModule'
    BY <1>4 DEF StopServices, GoOn, analysisVars, clientVars, SharedInv
  <2> QED
    BY <1>4, <2>1, SharedFrame DEF StopServices, GoOn, SharedInv, Queue
<1>5. CASE NoteRun
  <2>1. runNumber' \in Number /\ (held => runNumber' = number)
    BY <1>5 DEF NoteRun, RunNumbers, SharedInv
  <2>2. MainInv' /\ RunOfModule'
    BY <1>5, <2>1 DEF NoteRun, GoOn, clientVars, SharedInv
  <2>3. ClientTypes'
    BY <1>5, <2>1 DEF NoteRun, clientVars, SharedInv, ClientTypes
  <2>4. Queue' /\ Counts'
    BY <1>5 DEF NoteRun, GoOn, clientVars, SharedInv, Queue, Counts
  <2> QED
    BY <2>2, <2>3, <2>4 DEF SharedInv
<1> QED
  BY <1>1, <1>2, <1>3, <1>4, <1>5

\* The run is given to the module, and its cycles.
LEMMA AnalysisCyclesKeep ==
  ASSUME ApplicationInv, settings.application = "AnalysisModule",
         \/ StartOfRun \/ StartReceiving \/ Decide \/ ProcessEvent \/ EndCycle
         \/ ArchiveCycle \/ SendElements \/ CheckRun
  PROVE  ApplicationInv'
<1> USE DEF MainInv, MainTypes, Settings, Program, OfAnalysis, OfStandalone, InRun, Final,
            Configuration, LastCall, Archive, RunOfModule, ApplicationInv, mainOnly
<1>1. CASE StartOfRun
  <2>0. moduleRun' \in Number /\ (held => moduleRun' = number)
    BY <1>1 DEF StartOfRun, RunNumbers, SharedInv
  <2>1. MainInv' /\ RunOfModule'
    BY <1>1, <2>0, NumberAssumption DEF StartOfRun, clientVars, SharedInv, ClientTypes
  <2>2. ClientTypes'
    BY <1>1 DEF StartOfRun, clientVars, SharedInv, ClientTypes
  <2>3. Queue' /\ Counts'
    BY <1>1 DEF StartOfRun, clientVars, SharedInv, Queue, Counts
  <2> QED
    BY <2>1, <2>2, <2>3 DEF SharedInv
<1>2. CASE StartReceiving
  <2>1. MainInv' /\ RunOfModule'
    BY <1>2 DEF StartReceiving, GoOn, clientVars, SharedInv
  <2>2. ClientTypes'
    BY <1>2 DEF StartReceiving, clientVars, SharedInv, ClientTypes
  <2>3. Queue' /\ Counts'
    BY <1>2 DEF StartReceiving, GoOn, clientVars, SharedInv, Queue, Counts
  <2> QED
    BY <2>1, <2>2, <2>3 DEF SharedInv
<1>3. CASE Decide
  <2>1. MainInv' /\ RunOfModule'
    BY <1>3 DEF Decide, StartCycle, GoOn, analysisVars, clientVars, SharedInv
  <2> QED
    BY <1>3, <2>1, SharedFrame DEF Decide, StartCycle, GoOn, SharedInv, Queue
<1>4. CASE ProcessEvent
  <2>1. MainInv' /\ RunOfModule'
    BY <1>4 DEF ProcessEvent, clientVars, SharedInv
  <2>2. /\ queue' = Tail(queue) /\ Tail(queue) \in Seq(Arrival)
        /\ Len(queue) \in Nat \ {0} /\ Len(Tail(queue)) = Len(queue) - 1
        /\ \A i \in 1 .. Len(Tail(queue)) :
             Tail(queue)[i] = queue[i + 1] /\ i + 1 \in 1 .. Len(queue)
    BY <1>4, TailOfQueue DEF ProcessEvent, SharedInv, ClientTypes
  <2>3. ClientTypes'
    BY <1>4, <2>2, AnalysisAssumption DEF ProcessEvent, clientVars, SharedInv, ClientTypes
  <2>4. Queue'
    BY <1>4, <2>2 DEF ProcessEvent, SharedInv, Queue
  <2>5. Counts'
    <3>1. nProcessed' \in {nProcessed, nProcessed + 1} /\ events' = events
      BY <1>4 DEF ProcessEvent, EventProcessed, clientVars
    <3> QED
      BY <2>2, <3>1, CountFacts DEF Counts
  <2> QED
    BY <2>1, <2>3, <2>4, <2>5 DEF SharedInv
<1>5. CASE EndCycle
  <2>1. MainInv' /\ RunOfModule'
    BY <1>5 DEF EndCycle, StopCycle, CallModule, analysisVars, clientVars, SharedInv
  <2> QED
    BY <1>5, <2>1, SharedFrame DEF EndCycle, StopCycle, CallModule, SharedInv, Queue
<1>6. CASE ArchiveCycle
  <2>1. MainInv' /\ RunOfModule'
    BY <1>6 DEF ArchiveCycle, WriteArchive, analysisVars, clientVars, SharedInv
  <2> QED
    BY <1>6, <2>1, SharedFrame DEF ArchiveCycle, WriteArchive, SharedInv, Queue
<1>7. CASE SendElements
  <2>1. MainInv' /\ RunOfModule'
    BY <1>7 DEF SendElements, SendMonitorElements, analysisVars, clientVars, SharedInv
  <2> QED
    BY <1>7, <2>1, SharedFrame DEF SendElements, SendMonitorElements, SharedInv, Queue
<1>8. CASE CheckRun
  <2>1. MainInv' /\ RunOfModule'
    BY <1>8 DEF CheckRun, GoOn, analysisVars, clientVars, SharedInv
  <2> QED
    BY <1>8, <2>1, SharedFrame DEF CheckRun, GoOn, SharedInv, Queue
<1> QED
  BY <1>1, <1>2, <1>3, <1>4, <1>5, <1>6, <1>7, <1>8

\* The end of a run: events stop first, then the queue is emptied, then the run goes.
LEMMA AnalysisLeaveKeeps ==
  ASSUME ApplicationInv, settings.application = "AnalysisModule",
         StopReceiving \/ ClearQueue \/ EndOfRun \/ CloseRunArchive
  PROVE  ApplicationInv'
<1> USE DEF MainInv, MainTypes, Settings, Program, OfAnalysis, OfStandalone, InRun, Final,
            Configuration, LastCall, Archive, RunOfModule, ApplicationInv, mainOnly
<1>1. CASE StopReceiving
  <2>1. MainInv' /\ RunOfModule'
    BY <1>1 DEF StopReceiving, GoOn, clientVars, SharedInv
  <2>2. ClientTypes'
    BY <1>1 DEF StopReceiving, GoOn, clientVars, SharedInv, ClientTypes
  <2>3. Queue' /\ Counts'
    BY <1>1 DEF StopReceiving, GoOn, clientVars, SharedInv, Queue, Counts
  <2> QED
    BY <2>1, <2>2, <2>3 DEF SharedInv
<1>2. CASE ClearQueue
  <2>1. /\ pc = "clearing" /\ pc' = "endRun" /\ queue' = <<>>
        /\ UNCHANGED <<settings, initialized, shouldStop, interrupts, call, moduleRun, archive,
                       nProcessed, running, number, runs, events, runNumber, held, stale,
                       updateMode>>
    BY <1>2 DEF ClearQueue, GoOn, clientVars
  <2>2. MainInv' /\ RunOfModule'
    BY <2>1 DEF SharedInv
  <2>3. Len(queue') = 0 /\ queue' \in Seq(Arrival)
    BY <2>1, EmptyQueue
  <2>4. ClientTypes'
    BY <2>1, <2>3, AnalysisAssumption DEF SharedInv, ClientTypes
  <2>5. Queue'
    BY <2>1, <2>3 DEF SharedInv, Queue
  <2>6. Counts'
    BY <2>1, <2>3, CountFacts DEF Counts
  <2> QED
    BY <2>2, <2>4, <2>5, <2>6 DEF SharedInv
<1>3. CASE EndOfRun
  <2>1. MainInv' /\ RunOfModule'
    BY <1>3 DEF EndOfRun, analysisVars, clientVars, SharedInv
  <2>2. ClientTypes'
    BY <1>3 DEF EndOfRun, analysisVars, clientVars, SharedInv, ClientTypes
  <2>3. Queue' /\ Counts'
    BY <1>3 DEF EndOfRun, analysisVars, clientVars, SharedInv, Queue, Counts
  <2> QED
    BY <2>1, <2>2, <2>3 DEF SharedInv
<1>4. CASE CloseRunArchive
  <2>1. MainInv' /\ RunOfModule'
    BY <1>4 DEF CloseRunArchive, CloseArchive, GoOn, analysisVars, clientVars, SharedInv
  <2> QED
    BY <1>4, <2>1, SharedFrame DEF CloseRunArchive, CloseArchive, GoOn, SharedInv, Queue
<1> QED
  BY <1>1, <1>2, <1>3, <1>4

\* The standalone application knows neither clients nor runs.
LEMMA StandaloneKeeps ==
  ASSUME ApplicationInv, settings.application = "StandaloneModule",
         StandaloneMain, UNCHANGED analysisVars
  PROVE  ApplicationInv'
<1> USE DEF MainInv, MainTypes, Settings, Program, OfAnalysis, OfStandalone, InRun, Final,
            Configuration, LastCall, Archive, RunOfModule, ApplicationInv, mainOnly
<1>1. CASE ReadSettings
  <2>1. MainInv' /\ RunOfModule'
    BY <1>1 DEF ReadSettings, InitModule, analysisVars, clientVars, SharedInv
  <2> QED
    BY <1>1, <2>1, SharedFrame DEF ReadSettings, InitModule, SharedInv, Queue
<1>2. CASE StartModuleServer
  <2>1. MainInv' /\ RunOfModule'
    BY <1>2 DEF StartModuleServer, Configure, analysisVars, clientVars, SharedInv
  <2> QED
    BY <1>2, <2>1, SharedFrame DEF StartModuleServer, Configure, SharedInv, Queue
<1>3. CASE ConnectSender
  <2>1. MainInv' /\ RunOfModule'
    BY <1>3 DEF ConnectSender, SetInitialized, analysisVars, clientVars, SharedInv
  <2> QED
    BY <1>3, <2>1, SharedFrame DEF ConnectSender, SetInitialized, SharedInv, Queue
<1>4. CASE RunRefused
  <2>1. MainInv' /\ RunOfModule'
    BY <1>4 DEF RunRefused, analysisVars, clientVars, SharedInv
  <2> QED
    BY <1>4, <2>1, SharedFrame DEF RunRefused, SharedInv, Queue
<1>5. CASE OpenModuleArchive
  <2>1. MainInv' /\ RunOfModule'
    BY <1>5 DEF OpenModuleArchive, OpenArchive, analysisVars, clientVars, SharedInv
  <2> QED
    BY <1>5, <2>1, SharedFrame DEF OpenModuleArchive, OpenArchive, SharedInv, Queue
<1>6. CASE Loop
  <2>1. MainInv' /\ RunOfModule'
    BY <1>6 DEF Loop, GoOn, StartCycle, analysisVars, clientVars, SharedInv
  <2> QED
    BY <1>6, <2>1, SharedFrame DEF Loop, GoOn, StartCycle, SharedInv, Queue
<1>7. CASE Process
  <2>1. MainInv' /\ RunOfModule'
    BY <1>7 DEF Process, CallModule, analysisVars, clientVars, SharedInv
  <2> QED
    BY <1>7, <2>1, SharedFrame DEF Process, CallModule, SharedInv, Queue
<1>8. CASE StopTimerCycle
  <2>1. MainInv' /\ RunOfModule'
    BY <1>8 DEF StopTimerCycle, StopCycle, CallModule, analysisVars, clientVars, SharedInv
  <2> QED
    BY <1>8, <2>1, SharedFrame DEF StopTimerCycle, StopCycle, CallModule, SharedInv, Queue
<1>9. CASE PublishElements
  <2>1. MainInv' /\ RunOfModule'
    BY <1>9 DEF PublishElements, SendMonitorElements, analysisVars, clientVars, SharedInv
  <2> QED
    BY <1>9, <2>1, SharedFrame DEF PublishElements, SendMonitorElements, SharedInv, Queue
<1>10. CASE StoreElements
  <2>1. MainInv' /\ RunOfModule'
    BY <1>10 DEF StoreElements, WriteArchive, analysisVars, clientVars, SharedInv
  <2> QED
    BY <1>10, <2>1, SharedFrame DEF StoreElements, WriteArchive, SharedInv, Queue
<1>11. CASE EndModule
  <2>1. MainInv' /\ RunOfModule'
    BY <1>11 DEF EndModule, CallModule, analysisVars, clientVars, SharedInv
  <2> QED
    BY <1>11, <2>1, SharedFrame DEF EndModule, CallModule, SharedInv, Queue
<1>12. CASE CloseModuleArchive
  <2>1. MainInv' /\ RunOfModule'
    BY <1>12 DEF CloseModuleArchive, CloseArchive, analysisVars, clientVars, SharedInv
  <2> QED
    BY <1>12, <2>1, SharedFrame DEF CloseModuleArchive, CloseArchive, SharedInv, Queue
<1> QED
  BY <1>1, <1>2, <1>3, <1>4, <1>5, <1>6, <1>7, <1>8, <1>9, <1>10, <1>11, <1>12 DEF StandaloneMain

(* The theorems. *)

LEMMA ApplicationStep == ApplicationInv /\ [Next]_vars => ApplicationInv'
<1> SUFFICES ASSUME ApplicationInv, [Next]_vars PROVE ApplicationInv'
  OBVIOUS
<1>1. CASE RunAnalysis
  BY <1>1, AnalysisConfigurationKeeps, AnalysisWaitKeeps, AnalysisCyclesKeep,
     AnalysisLeaveKeeps
  DEF RunAnalysis, AnalysisMain
<1>2. CASE RunStandalone
  BY <1>2, StandaloneKeeps DEF RunStandalone
<1>3. CASE DimThread
  BY <1>3, RunControlKeeps, EventReceptionKeeps DEF DimThread
<1>4. CASE SignalHandler /\ UNCHANGED analysisVars
  BY <1>4, SignalHandlerKeeps
<1>5. CASE UNCHANGED vars
  <2>1. UNCHANGED <<applicationVars, running, number, runs, events, runNumber, held, stale,
                    updateMode, queue, pc, moduleRun, nProcessed>>
    BY <1>5 DEF vars, applicationVars, analysisVars, clientVars
  <2>2. MainInv'
    BY <2>1, MainFrame DEF ApplicationInv
  <2>3. ClientTypes' /\ RunOfModule'
    BY <2>1 DEF ApplicationInv, SharedInv, ClientTypes, RunOfModule, InRun, Final
  <2>4. Queue' /\ Counts'
    BY <2>1 DEF ApplicationInv, SharedInv, Queue, Counts
  <2> QED
    BY <2>2, <2>3, <2>4 DEF ApplicationInv, SharedInv
<1> QED
  BY <1>1, <1>2, <1>3, <1>4, <1>5 DEF Next, Main

\* The inductive invariant, whatever DIM's thread, SIGINT and failures do.
THEOREM ApplicationInvariance == Spec => []ApplicationInv
BY ApplicationInitially, ApplicationStep, PTL DEF Spec

\* Types; the queue stays within its limit.
THEOREM ApplicationTypes == Spec => []TypeOK
BY ApplicationInvariance, InvariantTypes, PTL

\* While events are processed, an event of an earlier run came behind its clearQueue.
THEOREM EventsBelongToTheRun == Spec => []EventsOfThisRun
<1>1. ApplicationInv => EventsOfThisRun
  BY DEF ApplicationInv, SharedInv, Queue, EventsOfThisRun
<1> QED
  BY ApplicationInvariance, <1>1, PTL

\* The archive of a run is named for it, and the number noted is its number, when the
\* Run was there until the module had it.
THEOREM ArchiveNamedForRun == Spec => []ArchiveOfRun
<1>1. ApplicationInv => ArchiveOfRun
  BY DEF ApplicationInv, MainInv, SharedInv, Archive, RunOfModule, ArchiveOfRun
<1> QED
  BY ApplicationInvariance, <1>1, PTL

\* Who returns in order leaves nothing open.
THEOREM NothingLeftOpen == Spec => []CleanReturn
<1>1. ApplicationInv => CleanReturn
  BY DEF ApplicationInv, MainInv, SharedInv, Archive, RunOfModule, Queue, LastCall, CleanReturn
<1> QED
  BY ApplicationInvariance, <1>1, PTL

(* The refinement: every step of the applications is a step of ModuleProtocol or none. *)

LEMMA AnalysisCalls ==
  ASSUME ApplicationInv, settings.application = "AnalysisModule", AnalysisMain
  PROVE  Protocol!ProtocolNext \/ UNCHANGED <<call, moduleRun>>
<1>1. CASE ConfigureModule
  <2>1. Protocol!InitModule \/ UNCHANGED <<call, moduleRun>>
    BY <1>1 DEF ConfigureModule, InitModule, ApplicationInv, MainInv, SharedInv, Configuration, Protocol!InitModule
  <2> QED
    BY <2>1 DEF Protocol!ProtocolNext
<1>2. CASE StartOfRun
  <2>1. Protocol!StartOfRun \/ UNCHANGED <<call, moduleRun>>
    BY <1>2
    DEF StartOfRun, RunNumbers, ApplicationInv, MainInv, SharedInv, LastCall, RunOfModule,
        InRun, Final, Protocol!StartOfRun
  <2> QED
    BY <2>1 DEF Protocol!ProtocolNext
<1>3. CASE Decide
  <2>1. Protocol!StartOfCycle \/ UNCHANGED <<call, moduleRun>>
    BY <1>3 DEF Decide, StartCycle, GoOn, ApplicationInv, MainInv, SharedInv, LastCall, Protocol!StartOfCycle
  <2> QED
    BY <2>1 DEF Protocol!ProtocolNext
<1>4. CASE ProcessEvent
  <2>1. Protocol!Process \/ UNCHANGED <<call, moduleRun>>
    BY <1>4 DEF ProcessEvent, ApplicationInv, MainInv, SharedInv, LastCall, Protocol!Process
  <2> QED
    BY <2>1 DEF Protocol!ProtocolNext
<1>5. CASE EndCycle
  <2>1. Protocol!EndOfCycle \/ UNCHANGED <<call, moduleRun>>
    BY <1>5 DEF EndCycle, StopCycle, CallModule, ApplicationInv, MainInv, SharedInv, LastCall, Protocol!EndOfCycle
  <2> QED
    BY <2>1 DEF Protocol!ProtocolNext
<1>6. CASE SendElements
  <2>1. Protocol!Publish \/ UNCHANGED <<call, moduleRun>>
    BY <1>6 DEF SendElements, SendMonitorElements, ApplicationInv, MainInv, SharedInv, LastCall, Protocol!Publish
  <2> QED
    BY <2>1 DEF Protocol!ProtocolNext
<1>7. CASE EndOfRun
  <2>1. Protocol!EndOfRun \/ UNCHANGED <<call, moduleRun>>
    BY <1>7 DEF EndOfRun, ApplicationInv, MainInv, SharedInv, LastCall, RunOfModule, InRun, Protocol!EndOfRun
  <2> QED
    BY <2>1 DEF Protocol!ProtocolNext
<1>8. CASE ReadFile \/ StartDimServer \/ ConfigureCycle \/ ConfigureArchiver \/ ConfigureNetwork
  BY <1>8
  DEF ReadFile, StartDimServer, ConfigureCycle, ConfigureArchiver, ConfigureNetwork,
      Configure, SetInitialized
<1>9. CASE RunRefused \/ StartServices \/ WaitForRun \/ TakeRun \/ NoteRun \/ OpenRunArchive
  BY <1>9
  DEF RunRefused, StartServices, WaitForRun, TakeRun, NoteRun, OpenRunArchive, OpenArchive, GoOn
<1>10. CASE StartReceiving \/ ArchiveCycle \/ CheckRun \/ StopReceiving \/ ClearQueue
  BY <1>10
  DEF StartReceiving, ArchiveCycle, CheckRun, StopReceiving, ClearQueue, WriteArchive, GoOn
<1>11. CASE CloseRunArchive \/ StopServices
  BY <1>11 DEF CloseRunArchive, CloseArchive, StopServices, GoOn
<1> QED
  BY <1>1, <1>2, <1>3, <1>4, <1>5, <1>6, <1>7, <1>8, <1>9, <1>10, <1>11 DEF AnalysisMain

LEMMA StandaloneCalls ==
  ASSUME ApplicationInv, settings.application = "StandaloneModule", StandaloneMain
  PROVE  Protocol!ProtocolNext \/ UNCHANGED <<call, moduleRun>>
<1>1. CASE ReadSettings
  <2>1. Protocol!InitModule \/ UNCHANGED <<call, moduleRun>>
    BY <1>1 DEF ReadSettings, InitModule, ApplicationInv, MainInv, SharedInv, Configuration, Protocol!InitModule
  <2> QED
    BY <2>1 DEF Protocol!ProtocolNext
<1>2. CASE Loop
  <2>1. Protocol!StartOfCycle \/ UNCHANGED <<call, moduleRun>>
    BY <1>2 DEF Loop, StartCycle, GoOn, ApplicationInv, MainInv, SharedInv, LastCall, Protocol!StartOfCycle
  <2> QED
    BY <2>1 DEF Protocol!ProtocolNext
<1>3. CASE Process
  <2>1. Protocol!Process \/ UNCHANGED <<call, moduleRun>>
    BY <1>3 DEF Process, CallModule, ApplicationInv, MainInv, SharedInv, LastCall, Protocol!Process
  <2> QED
    BY <2>1 DEF Protocol!ProtocolNext
<1>4. CASE StopTimerCycle
  <2>1. Protocol!EndOfCycle \/ UNCHANGED <<call, moduleRun>>
    BY <1>4 DEF StopTimerCycle, StopCycle, CallModule, ApplicationInv, MainInv, SharedInv, LastCall, Protocol!EndOfCycle
  <2> QED
    BY <2>1 DEF Protocol!ProtocolNext
<1>5. CASE PublishElements
  <2>1. Protocol!Publish \/ UNCHANGED <<call, moduleRun>>
    BY <1>5 DEF PublishElements, SendMonitorElements, ApplicationInv, MainInv, SharedInv, LastCall, Protocol!Publish
  <2> QED
    BY <2>1 DEF Protocol!ProtocolNext
<1>6. CASE EndModule
  <2>1. Protocol!EndModule \/ UNCHANGED <<call, moduleRun>>
    BY <1>6 DEF EndModule, CallModule, ApplicationInv, MainInv, SharedInv, LastCall, RunOfModule, InRun, Final, Protocol!EndModule
  <2> QED
    BY <2>1 DEF Protocol!ProtocolNext
<1>7. CASE \/ StartModuleServer \/ ConnectSender \/ RunRefused \/ OpenModuleArchive
             \/ StoreElements \/ CloseModuleArchive
  BY <1>7
  DEF StartModuleServer, ConnectSender, RunRefused, OpenModuleArchive, StoreElements,
      CloseModuleArchive, Configure, SetInitialized, OpenArchive, WriteArchive, CloseArchive
<1> QED
  BY <1>1, <1>2, <1>3, <1>4, <1>5, <1>6, <1>7 DEF StandaloneMain

\* The applications call the module in the order of ModuleProtocol.
THEOREM ProtocolImplemented == Spec => CallsFollowProtocol
<1>1. Init => Protocol!ProtocolInit
  BY DEF Init, ApplicationInit, Protocol!ProtocolInit
<1>2. ApplicationInv /\ [Next]_vars => [Protocol!ProtocolNext]_<<call, moduleRun>>
  <2> SUFFICES ASSUME ApplicationInv, [Next]_vars
               PROVE  Protocol!ProtocolNext \/ UNCHANGED <<call, moduleRun>>
    OBVIOUS
  <2>1. CASE RunAnalysis
    BY <2>1, AnalysisCalls DEF RunAnalysis
  <2>2. CASE RunStandalone
    BY <2>2, StandaloneCalls DEF RunStandalone
  <2>3. CASE DimThread
    BY <2>3 DEF DimThread, RunStarts, RunEnds, EventReception, applicationVars
  <2>4. CASE SignalHandler
    BY <2>4 DEF SignalHandler
  <2>5. CASE UNCHANGED vars
    BY <2>5 DEF vars, applicationVars
  <2> QED
    BY <2>1, <2>2, <2>3, <2>4, <2>5 DEF Next, Main
<1> QED
  BY ApplicationInvariance, <1>1, <1>2, PTL
  DEF Spec, CallsFollowProtocol, Protocol!ProtocolSpec

=============================================================================
