------------------------------ MODULE EventSource ------------------------------
(***************************************************************************)
(* A program with an EventSource: it names its collectors, starts, and     *)
(* sends events until it is interrupted.  For each event the source goes   *)
(* through the collectors: it asks DIM whether the collector's server is   *)
(* running, registers there if it is not registered, and sends the event.  *)
(*                                                                         *)
(* Everything of the source runs on one thread; a collector may exit and   *)
(* come back between any two of its steps, and a registration is a request *)
(* that is answered later.  In start the answers go into copies of the     *)
(* collector infos: the first event registers the source a second time.    *)
(*                                                                         *)
(* External: the servers /dqm4hep/app/evtcol/..., of which the repository  *)
(* has only the client side, and DIM.  A server accepts or refuses a       *)
(* registration as it likes, and forgets everything when it exits.         *)
(***************************************************************************)
EXTENDS Naturals, Sequences, FiniteSets

CONSTANTS
  Collector,    \* names of event collectors
  MaxOutages,   \* bound: exits of collectors
  MaxPending    \* bound: commands under way to a collector when a send begins

ASSUME BoundAssumption == MaxOutages \in Nat /\ MaxPending \in Nat \ {0}

VARIABLES
  pc,           \* where the program is
  running,      \* its running flag, cleared by SIGINT
  started,      \* m_started
  infos,        \* the names in m_collectorInfos
  registered,   \*   those of them with m_registered
  todo,         \* what is left of the loop over collectors
  current,      \* the collector that is being visited
  answer,       \* what its server answers to the registration
  up, knows,    \* external: servers that run, those where the source is registered
  watching,     \*   those that forget the source when its connection closes
  toCollector,  \*   commands under way
  outages,      \*   counts exits, for the bound
  steady,       \* history: servers that have been up since the send began
  served,       \*   collectors that were sent this event
  refused,      \*   collectors that refused, or did not answer, in this send
  unseen        \*   collectors that exited since the source last looked

sourceVars == <<pc, running, started, infos, registered, todo, current, answer>>
serverVars == <<up, knows, watching, toCollector, outages>>
historyVars == <<steady, served, refused, unseen>>
vars == <<sourceVars, serverVars, historyVars>>

Final == {"returned", "died"}

Init ==
  /\ pc = "setup" /\ running = TRUE /\ started = FALSE
  /\ infos = {} /\ registered = {} /\ todo = {} /\ current \in Collector /\ answer = FALSE
  /\ up \in SUBSET Collector /\ knows = {} /\ watching = {}
  /\ toCollector = [c \in Collector |-> <<>>] /\ outages = 0
  /\ steady = {} /\ served = {} /\ refused = {} /\ unseen = {}

-----------------------------------------------------------------------------
(* External: the collectors' servers. *)

CollectorStart(c) ==
  /\ c \notin up
  /\ up' = up \cup {c}
  /\ UNCHANGED <<sourceVars, knows, watching, toCollector, outages, historyVars>>

\* An answer that is under way may be lost.
CollectorExit(c) ==
  /\ c \in up /\ outages < MaxOutages
  /\ outages' = outages + 1
  /\ up' = up \ {c} /\ knows' = knows \ {c} /\ watching' = watching \ {c}
  /\ toCollector' = [toCollector EXCEPT ![c] = <<>>]
  /\ steady' = steady \ {c} /\ unseen' = unseen \cup {c}
  /\ IF pc = "answered" /\ current = c THEN answer' \in {answer, FALSE} ELSE UNCHANGED answer
  /\ UNCHANGED <<pc, running, started, infos, registered, todo, current, served, refused>>

HandleCommand(c) ==
  /\ toCollector[c] # <<>>
  /\ toCollector' = [toCollector EXCEPT ![c] = Tail(@)]
  /\ LET command == Head(toCollector[c])
     IN /\ watching' = IF command = "notifyOnExit" THEN watching \cup {c} ELSE watching
        /\ knows' = IF \/ command = "unregister"
                       \/ command = "disconnect" /\ c \in watching
                    THEN knows \ {c} ELSE knows
  /\ UNCHANGED <<sourceVars, up, outages, historyVars>>

Commands == {"collect", "notifyOnExit", "unregister", "disconnect"}

\* sendCommand: lost when the server is not there.
SendCommand(c, command) ==
  toCollector' = IF c \in up THEN [toCollector EXCEPT ![c] = Append(@, command)]
                 ELSE toCollector

\* The connections close, behind the commands that had been written to them.
Disconnect(written) ==
  toCollector' = [c \in Collector |->
    IF c \in up THEN Append(written[c], "disconnect") ELSE toCollector[c]]

-----------------------------------------------------------------------------
(* The program: setup, start, end. *)

\* addCollector: a name that is there already throws, and ends the program.
AddCollector(c) ==
  /\ pc = "setup"
  /\ IF c \in infos THEN pc' = "died" /\ UNCHANGED infos
     ELSE infos' = infos \cup {c} /\ UNCHANGED pc
  /\ UNCHANGED <<running, started, registered, todo, current, answer, serverVars, historyVars>>

\* start: needs a streamer and a collector.
Start ==
  /\ pc = "setup"
  /\ \/ infos # {} /\ pc' = "visit" /\ todo' = infos
     \/ pc' = "died" /\ UNCHANGED todo
  /\ UNCHANGED <<running, started, infos, registered, current, answer, serverVars, historyVars>>

Interrupt ==
  /\ running /\ running' = FALSE
  /\ UNCHANGED <<pc, started, infos, registered, todo, current, answer, serverVars, historyVars>>

\* The destructor unregisters from every collector, registered or not.
Leave ==
  /\ pc = "idle" /\ ~running
  /\ pc' = "leaving" /\ todo' = infos
  /\ UNCHANGED <<running, started, infos, registered, current, answer, serverVars, historyVars>>

UnregisterMe(c) ==
  /\ pc = "leaving" /\ c \in todo
  /\ todo' = todo \ {c}
  /\ SendCommand(c, "unregister")
  /\ UNCHANGED <<pc, running, started, infos, registered, current, answer, up, knows,
                 watching, outages, historyVars>>

Return ==
  /\ pc = "leaving" /\ todo = {}
  /\ pc' = "returned"
  /\ Disconnect(toCollector)
  /\ UNCHANGED <<running, started, infos, registered, todo, current, answer, up, knows,
                 watching, outages, historyVars>>

\* An exception nobody catches, or a crash: the streamer cannot write the event, or an
\* answer to registerMe, of start too, is not what it expects.
Die ==
  /\ pc \notin Final
  /\ pc' = "died"
  /\ \E n \in 0 .. MaxPending + 2 :
       Disconnect([c \in Collector |->
         SubSeq(toCollector[c], 1, IF n < Len(toCollector[c]) THEN n ELSE Len(toCollector[c]))])
  /\ UNCHANGED <<running, started, infos, registered, todo, current, answer, up, knows,
                 watching, outages, historyVars>>

-----------------------------------------------------------------------------
(* sendEvent and registerMe. *)

\* The overloads: all collectors, one (refused here if it is unknown), or a list.
SendEvent(targets) ==
  /\ pc = "idle" /\ running
  /\ \A c \in Collector : Len(toCollector[c]) < MaxPending
  /\ pc' = "visit" /\ todo' = targets
  /\ steady' = up \cap targets /\ served' = {} /\ refused' = {}
  /\ UNCHANGED <<running, started, infos, registered, current, answer, serverVars, unseen>>

\* In start every collector is asked.
VisitInStart(c) ==
  /\ pc = "visit" /\ ~started /\ c \in todo
  /\ pc' = "asking" /\ current' = c /\ todo' = todo \ {c}
  /\ UNCHANGED <<running, started, infos, registered, answer, serverVars, historyVars>>

\* A collector that is not in the map throws, and the others are not reached.
VisitUnknown(c) ==
  /\ pc = "visit" /\ started /\ c \in todo \ infos
  /\ pc' = "idle"
  /\ UNCHANGED <<running, started, infos, registered, todo, current, answer, serverVars,
                 historyVars>>

\* Mutant: a server that is down keeps its registration.
VisitDown_Kept(c) ==
  /\ pc = "visit" /\ started /\ c \in (todo \cap infos) \ up
  /\ todo' = todo \ {c} /\ unseen' = unseen \ {c}
  /\ UNCHANGED <<pc, running, started, infos, registered, current, answer, serverVars,
                 steady, served, refused>>

\* Mutant: the first server that is down ends the send.
VisitDown_GiveUp(c) ==
  /\ pc = "visit" /\ started /\ c \in (todo \cap infos) \ up
  /\ registered' = registered \ {c} /\ todo' = {} /\ unseen' = unseen \ {c}
  /\ UNCHANGED <<pc, running, started, infos, current, answer, serverVars, steady, served,
                 refused>>

\* The server is not running: it will have to be asked again.
VisitDown(c) ==
  /\ pc = "visit" /\ started /\ c \in (todo \cap infos) \ up
  /\ registered' = registered \ {c} /\ todo' = todo \ {c} /\ unseen' = unseen \ {c}
  /\ UNCHANGED <<pc, running, started, infos, current, answer, serverVars, steady, served,
                 refused>>

\* Mutant: only start registers.
VisitRunning_NoRetry(c) ==
  /\ pc = "visit" /\ started /\ c \in todo \cap infos \cap up
  /\ current' = c /\ todo' = todo \ {c}
  /\ pc' = IF c \in registered THEN "collecting" ELSE "visit"
  /\ UNCHANGED <<running, started, infos, registered, answer, serverVars, historyVars>>

VisitRunning(c) ==
  /\ pc = "visit" /\ started /\ c \in todo \cap infos \cap up
  /\ current' = c /\ todo' = todo \ {c}
  /\ pc' = IF c \in registered THEN "collecting" ELSE "asking"
  /\ UNCHANGED <<running, started, infos, registered, answer, serverVars, historyVars>>

\* registerMe, the request: a server that is not there answers nothing.
Request ==
  /\ pc = "asking"
  /\ pc' = "answered"
  /\ \E accepted \in (IF current \in up THEN BOOLEAN ELSE {FALSE}) :
       answer' = accepted /\ knows' = IF accepted THEN knows \cup {current} ELSE knows
  /\ unseen' = unseen \ {current}
  /\ UNCHANGED <<running, started, infos, registered, todo, current, up, watching,
                 toCollector, outages, steady, served, refused>>

\* registerMe, the answer.  The loop of start has a copy of the collector's info, and
\* loses it.
Answer ==
  /\ pc = "answered"
  /\ IF started THEN /\ registered' = IF answer THEN registered \cup {current} ELSE registered
                     /\ pc' = IF answer THEN "collecting" ELSE "visit"
     ELSE pc' = "visit" /\ UNCHANGED registered
  /\ IF answer THEN SendCommand(current, "notifyOnExit") /\ UNCHANGED refused
     ELSE refused' = refused \cup {current} /\ UNCHANGED toCollector
  /\ UNCHANGED <<running, started, infos, todo, current, answer, up, knows, watching,
                 outages, steady, served, unseen>>

Collect ==
  /\ pc = "collecting"
  /\ pc' = "visit"
  /\ SendCommand(current, "collect")
  /\ served' = served \cup {current}
  /\ UNCHANGED <<running, started, infos, registered, todo, current, answer, up, knows,
                 watching, outages, steady, refused, unseen>>

EndVisit ==
  /\ pc = "visit" /\ todo = {}
  /\ pc' = "idle" /\ started' = TRUE
  /\ UNCHANGED <<running, infos, registered, todo, current, answer, serverVars, historyVars>>

-----------------------------------------------------------------------------
(* Specification. *)

Visit(c) == VisitInStart(c) \/ VisitUnknown(c) \/ VisitDown(c) \/ VisitRunning(c)

Work == (\E c \in Collector : Visit(c)) \/ Request \/ Answer \/ Collect \/ EndVisit

End == Leave \/ (\E c \in Collector : UnregisterMe(c)) \/ Return

Next ==
  \/ \E c \in Collector :
       CollectorStart(c) \/ CollectorExit(c) \/ HandleCommand(c) \/ AddCollector(c)
  \/ \E targets \in SUBSET Collector \ {{}} : SendEvent(targets)
  \/ Start \/ Interrupt \/ Die \/ Work \/ End

Spec == Init /\ [][Next]_vars

\* The program's thread runs and servers handle what they get.  As the main loop does,
\* it sends every event to all its collectors now and then.
Fairness ==
  /\ WF_vars(Work) /\ WF_vars(End)
  /\ \A c \in Collector : WF_vars(HandleCommand(c))
  /\ SF_vars(SendEvent(infos))

FairSpec == Spec /\ Fairness

-----------------------------------------------------------------------------
(* Properties. *)

TypeOK ==
  /\ pc \in {"setup", "visit", "asking", "answered", "collecting", "idle", "leaving"} \cup Final
  /\ running \in BOOLEAN /\ started \in BOOLEAN /\ answer \in BOOLEAN
  /\ infos \subseteq Collector /\ registered \subseteq infos
  /\ todo \subseteq Collector /\ current \in Collector
  /\ up \subseteq Collector /\ knows \subseteq up /\ watching \subseteq up
  /\ toCollector \in [Collector -> Seq(Commands)]
  /\ \A c \in Collector \ up : toCollector[c] = <<>>
  /\ outages \in 0 .. MaxOutages
  /\ steady \subseteq up /\ served \subseteq infos /\ refused \subseteq infos
  /\ unseen \subseteq Collector

\* m_registered is true of the server that is up now, if it has not been replaced since
\* the source last looked: of a restart between two looks the source knows nothing.
RegistrationIsReal ==
  \A c \in registered \cap up : c \in knows \/ c \in unseen \/ pc \in {"leaving"} \cup Final

\* When a send is over, every collector it went through was sent the event, if it
\* has been up all the time and did not refuse the source: whatever the others did.
SteadyCollectorsServed ==
  pc = "idle" /\ started => \A c \in steady : c \in served \cup refused \cup todo

\* A collector that is up and where the source is not registered gets it registered or
\* refuses it, unless it exits or the source ends: which SIGINT makes it do, whatever
\* its collectors do.
RestartedCollectorsRegister ==
  \A c \in Collector :
    (started /\ c \in (infos \cap up) \ registered)
      ~> (c \in registered \cup refused \/ c \notin up \/ pc \in Final)

=============================================================================
