---------------------------- MODULE EventSourceProofs ----------------------------
(***************************************************************************)
(* Proofs about the event source, for any collectors that exit and come    *)
(* back at any moment: a registration that is believed is real unless its  *)
(* server was replaced behind the back of the source, and no collector is  *)
(* left out of a send because of another one.                              *)
(*                                                                         *)
(* What makes it inductive is what cannot be under way: until the program  *)
(* leaves, no command can make a server forget the source.                 *)
(***************************************************************************)
EXTENDS EventSource, TLAPS

Gone == {"leaving"} \cup Final

\* The collector that is being visited.
Visiting == {"asking", "answered", "collecting"}

\* Commands that a server is sent while the program works.
WorkCommands == {"collect", "notifyOnExit"}

\* start comes first, and registers nowhere.
Starting ==
  /\ pc = "setup" => ~started
  /\ pc = "idle" => started
  /\ ~started => todo \subseteq infos /\ registered = {} /\ steady = {}

\* Only collectors of the source are visited, and asked only if not registered.
Visited ==
  /\ pc \in Visiting => current \in infos
  /\ pc \in {"asking", "answered"} => current \notin registered

\* Registrations, from the acceptance by the server to the end of the source.
Registrations ==
  pc \notin Gone =>
    /\ registered \subseteq knows \cup unseen
    /\ pc = "answered" /\ answer => current \in knows \cup unseen
    /\ toCollector \in [Collector -> Seq(WorkCommands)]

\* The collectors that were up all the time are served, or still to be visited.
Serving ==
  pc \notin Gone =>
    \A c \in steady : c \in served \cup refused \cup todo \/ (pc \in Visiting /\ c = current)

\* The inductive invariant.
SourceInv == TypeOK /\ Starting /\ Visited /\ Registrations /\ Serving

LEMMA SourceInitially == Init => SourceInv
<1> SUFFICES ASSUME Init PROVE SourceInv
  OBVIOUS
<1>1. <<>> \in Seq(Commands) /\ <<>> \in Seq(WorkCommands)
  OBVIOUS
<1>2. TypeOK
  <2>1. outages \in 0 .. MaxOutages
    BY BoundAssumption DEF Init
  <2>2. toCollector \in [Collector -> Seq(Commands)] /\ \A c \in Collector : toCollector[c] = <<>>
    BY <1>1 DEF Init
  <2>3. /\ pc = "setup" /\ running \in BOOLEAN /\ started \in BOOLEAN /\ answer \in BOOLEAN
        /\ current \in Collector /\ up \subseteq Collector
    BY Zenon DEF Init
  <2>4. infos = {} /\ registered = {} /\ todo = {} /\ knows = {} /\ watching = {} /\ steady = {}
        /\ served = {} /\ refused = {} /\ unseen = {}
    BY DEF Init
  <2> QED
    BY <2>1, <2>2, <2>3, <2>4 DEF TypeOK
<1>3. Starting /\ Visited /\ Serving
  BY DEF Init, Starting, Visited, Visiting, Serving
<1>4. Registrations
  BY <1>1 DEF Init, Registrations
<1> QED
  BY <1>2, <1>3, <1>4 DEF SourceInv

(* Commands under way. *)

LEMMA CommandSent ==
  ASSUME NEW K, NEW c \in Collector, NEW m \in K, toCollector \in [Collector -> Seq(K)],
         SendCommand(c, m)
  PROVE  /\ toCollector' \in [Collector -> Seq(K)]
         /\ \A d \in Collector \ up : toCollector'[d] = toCollector[d]
<1>1. \A d \in Collector : toCollector[d] \in Seq(K) /\ Append(toCollector[d], m) \in Seq(K)
  OBVIOUS
<1> QED
  BY <1>1 DEF SendCommand

LEMMA ConnectionsClosed ==
  ASSUME NEW written \in [Collector -> Seq(Commands)], TypeOK, Disconnect(written)
  PROVE  /\ toCollector' \in [Collector -> Seq(Commands)]
         /\ \A d \in Collector \ up : toCollector'[d] = <<>>
<1>1. \A d \in Collector : Append(written[d], "disconnect") \in Seq(Commands)
  <2>1. "disconnect" \in Commands
    BY DEF Commands
  <2> QED
    BY <2>1
<1> QED
  BY <1>1 DEF TypeOK, Disconnect

(* The servers. *)

LEMMA ServersKeep ==
  ASSUME SourceInv, NEW c \in Collector,
         CollectorStart(c) \/ CollectorExit(c) \/ HandleCommand(c)
  PROVE  SourceInv'
<1> USE DEF SourceInv, TypeOK, Starting, Visited, Registrations, Serving, Gone, Final, Visiting,
            serverVars, historyVars, sourceVars
<1>1. CASE CollectorStart(c)
  BY <1>1 DEF CollectorStart
<1>2. CASE CollectorExit(c)
  <2>1. /\ <<>> \in Seq(Commands) /\ <<>> \in Seq(WorkCommands)
        /\ outages' \in 0 .. MaxOutages
    BY <1>2, BoundAssumption DEF CollectorExit
  <2>2. /\ toCollector' \in [Collector -> Seq(Commands)]
        /\ \A d \in Collector \ up' : toCollector'[d] = <<>>
        /\ toCollector \in [Collector -> Seq(WorkCommands)] =>
             toCollector' \in [Collector -> Seq(WorkCommands)]
    BY <1>2, <2>1 DEF CollectorExit
  <2>3. TypeOK'
    BY <1>2, <2>1, <2>2 DEF CollectorExit
  <2>4. Starting' /\ Visited' /\ Serving'
    BY <1>2 DEF CollectorExit
  <2>5. Registrations'
    BY <1>2, <2>2 DEF CollectorExit
  <2> QED
    BY <2>3, <2>4, <2>5
<1>3. CASE HandleCommand(c)
  <2>1. c \in up /\ toCollector[c] \in Seq(Commands) /\ toCollector[c] # <<>>
    BY <1>3 DEF HandleCommand
  <2>2. Tail(toCollector[c]) \in Seq(Commands) /\ Head(toCollector[c]) \in Commands
    BY <2>1
  <2>3. TypeOK'
    BY <1>3, <2>1, <2>2 DEF HandleCommand
  <2>4. Starting' /\ Visited' /\ Serving'
    BY <1>3 DEF HandleCommand
  <2>5. Registrations'
    <3> SUFFICES ASSUME pc \notin Gone PROVE Registrations'
      BY <1>3 DEF HandleCommand
    <3>1. toCollector[c] \in Seq(WorkCommands)
      OBVIOUS
    <3>2. Tail(toCollector[c]) \in Seq(WorkCommands) /\ Head(toCollector[c]) \in WorkCommands
      BY <2>1, <3>1
    <3>3. knows' = knows
      BY <1>3, <3>2 DEF HandleCommand, WorkCommands
    <3> QED
      BY <1>3, <3>2, <3>3 DEF HandleCommand
  <2> QED
    BY <2>3, <2>4, <2>5
<1> QED
  BY <1>1, <1>2, <1>3

(* The program. *)

LEMMA ProgramKeeps ==
  ASSUME SourceInv, (\E c \in Collector : AddCollector(c)) \/ Start \/ Interrupt \/ Die \/ End
  PROVE  SourceInv'
<1> USE DEF SourceInv, TypeOK, Starting, Visited, Registrations, Serving, Gone, Final, Visiting,
            serverVars, historyVars, sourceVars
<1>1. CASE \E c \in Collector : AddCollector(c)
  BY <1>1 DEF AddCollector
<1>2. CASE Start
  <2>1. pc = "setup" /\ pc' \in {"visit", "died"} /\ (todo' = infos \/ todo' = todo)
    BY <1>2 DEF Start
  <2>2. UNCHANGED <<running, started, infos, registered, current, answer, up, knows, watching,
                    toCollector, outages, steady, served, refused, unseen>>
    BY <1>2 DEF Start
  <2>3. TypeOK'
    BY <2>1, <2>2
  <2>4. Starting' /\ Visited' /\ Serving'
    BY <2>1, <2>2
  <2>5. Registrations'
    BY <2>1, <2>2
  <2> QED
    BY <2>3, <2>4, <2>5
<1>3. CASE Interrupt
  BY <1>3 DEF Interrupt
<1>4. CASE Leave
  BY <1>4 DEF Leave
<1>5. CASE \E c \in Collector : UnregisterMe(c)
  <2>1. PICK c \in Collector : UnregisterMe(c)
    BY <1>5
  <2>2. "unregister" \in Commands /\ SendCommand(c, "unregister")
    BY <2>1 DEF UnregisterMe, Commands
  <2>3. /\ toCollector' \in [Collector -> Seq(Commands)]
        /\ \A d \in Collector \ up : toCollector'[d] = toCollector[d]
    BY <2>2, CommandSent
  <2> QED
    BY <2>1, <2>3 DEF UnregisterMe
<1>6. CASE Return
  <2>1. Disconnect(toCollector) /\ toCollector \in [Collector -> Seq(Commands)]
    BY <1>6 DEF Return
  <2>2. /\ toCollector' \in [Collector -> Seq(Commands)]
        /\ \A d \in Collector \ up : toCollector'[d] = <<>>
    BY <2>1, ConnectionsClosed
  <2> QED
    BY <1>6, <2>2 DEF Return
<1>7. CASE Die
  <2> DEFINE Written(n) ==
        [c \in Collector |->
           SubSeq(toCollector[c], 1,
                  IF n < Len(toCollector[c]) THEN n ELSE Len(toCollector[c]))]
  <2>1. PICK n \in 0 .. MaxPending + 2 : Disconnect(Written(n))
    BY <1>7 DEF Die
  <2>2. n \in Nat
    BY <2>1, BoundAssumption
  <2>3. ASSUME NEW s \in Seq(Commands)
        PROVE  SubSeq(s, 1, IF n < Len(s) THEN n ELSE Len(s)) \in Seq(Commands)
    BY <2>2, <2>3
  <2>4. Written(n) \in [Collector -> Seq(Commands)]
    BY <2>3
  <2> HIDE DEF Written
  <2>5. /\ toCollector' \in [Collector -> Seq(Commands)]
        /\ \A d \in Collector \ up : toCollector'[d] = <<>>
    BY <2>1, <2>4, ConnectionsClosed
  <2> QED
    BY <1>7, <2>5 DEF Die
<1> QED
  BY <1>1, <1>2, <1>3, <1>4, <1>5, <1>6, <1>7 DEF End

(* A send. *)

LEMMA VisitKeeps ==
  ASSUME SourceInv, NEW c \in Collector, Visit(c)
  PROVE  SourceInv'
<1> USE DEF SourceInv, TypeOK, Starting, Visited, Registrations, Serving, Gone, Final, Visiting,
            serverVars, historyVars, sourceVars
<1>1. CASE VisitInStart(c)
  BY <1>1 DEF VisitInStart
<1>2. CASE VisitUnknown(c)
  BY <1>2 DEF VisitUnknown
<1>3. CASE VisitDown(c)
  BY <1>3 DEF VisitDown
<1>4. CASE VisitRunning(c)
  BY <1>4 DEF VisitRunning
<1> QED
  BY <1>1, <1>2, <1>3, <1>4 DEF Visit

LEMMA SendKeeps ==
  ASSUME SourceInv,
         \/ \E targets \in SUBSET Collector : SendEvent(targets)
         \/ Request \/ Answer \/ Collect \/ EndVisit
  PROVE  SourceInv'
<1> USE DEF SourceInv, TypeOK, Starting, Visited, Registrations, Serving, Gone, Final, Visiting,
            serverVars, historyVars, sourceVars
<1>1. CASE \E targets \in SUBSET Collector : SendEvent(targets)
  BY <1>1 DEF SendEvent
<1>2. CASE Request
  BY <1>2 DEF Request
<1>3. CASE Answer
  <2>1. current \in Collector /\ "notifyOnExit" \in Commands /\ "notifyOnExit" \in WorkCommands
    BY DEF Commands, WorkCommands
  <2>2. /\ toCollector' \in [Collector -> Seq(Commands)]
        /\ \A d \in Collector \ up : toCollector'[d] = toCollector[d]
    BY <1>3, <2>1, CommandSent DEF Answer
  <2>3. toCollector \in [Collector -> Seq(WorkCommands)] =>
          toCollector' \in [Collector -> Seq(WorkCommands)]
    BY <1>3, <2>1, CommandSent DEF Answer
  <2>4. TypeOK'
    BY <1>3, <2>2 DEF Answer
  <2>5. Starting' /\ Visited' /\ Serving'
    BY <1>3 DEF Answer
  <2>6. Registrations'
    BY <1>3, <2>3 DEF Answer
  <2> QED
    BY <2>4, <2>5, <2>6
<1>4. CASE Collect
  <2>1. current \in Collector /\ "collect" \in Commands /\ "collect" \in WorkCommands
    BY DEF Commands, WorkCommands
  <2>2. /\ toCollector' \in [Collector -> Seq(Commands)]
        /\ \A d \in Collector \ up : toCollector'[d] = toCollector[d]
    BY <1>4, <2>1, CommandSent DEF Collect
  <2>3. toCollector \in [Collector -> Seq(WorkCommands)] =>
          toCollector' \in [Collector -> Seq(WorkCommands)]
    BY <1>4, <2>1, CommandSent DEF Collect
  <2> QED
    BY <1>4, <2>2, <2>3 DEF Collect
<1>5. CASE EndVisit
  BY <1>5 DEF EndVisit
<1> QED
  BY <1>1, <1>2, <1>3, <1>4, <1>5

(* The theorems. *)

\* The inductive invariant, in whatever order servers come and go.
THEOREM SourceInvariance == Spec => []SourceInv
<1>1. SourceInv /\ UNCHANGED vars => SourceInv'
  BY DEF SourceInv, TypeOK, Starting, Visited, Registrations, Serving, Gone, Final, Visiting,
         vars, serverVars, historyVars, sourceVars
<1>2. SourceInv /\ [Next]_vars => SourceInv'
  BY <1>1, ServersKeep, ProgramKeeps, VisitKeeps, SendKeeps DEF Next, Work
<1> QED
  BY SourceInitially, <1>2, PTL DEF Spec

\* Types; a server that is down has nothing and knows nobody.
THEOREM SourceTypes == Spec => []TypeOK
<1>1. SourceInv => TypeOK
  BY DEF SourceInv
<1> QED
  BY SourceInvariance, <1>1, PTL

\* A registration the source believes in is real, up to restarts it could not see.
THEOREM BelievedRegistrationsAreReal == Spec => []RegistrationIsReal
<1>1. SourceInv => RegistrationIsReal
  BY DEF SourceInv, Registrations, RegistrationIsReal, Gone
<1> QED
  BY SourceInvariance, <1>1, PTL

\* No collector that is up all the time is left out of a send.
THEOREM NobodyLeftOut == Spec => []SteadyCollectorsServed
<1>1. SourceInv => SteadyCollectorsServed
  BY DEF SourceInv, Serving, SteadyCollectorsServed, Gone, Final, Visiting
<1> QED
  BY SourceInvariance, <1>1, PTL

=============================================================================
