------------------------------- MODULE EventFlow -------------------------------
(***************************************************************************)
(* Events over DIM: DimEventCollector, in its application, takes events    *)
(* and passes them on to the DimEventClients that registered and asked for *)
(* updates.  What a client does with the events is in EventQueue.          *)
(*                                                                         *)
(* Handlers of the collector run one at a time on its DIM thread, those of *)
(* a client on the client's; the application of the client connects and    *)
(* sets on a thread of its own.  Nothing protects the settings.            *)
(*                                                                         *)
(* External: DIM.  Between a client and the collector the order is kept;   *)
(* a DimUpdatedInfo gets updates but no first value, and gets no data when *)
(* the collector goes away; the exit of a client is told to the collector. *)
(***************************************************************************)
EXTENDS Naturals, Sequences, Channels

CONSTANTS
  Client,       \* processes with a DimEventClient
  MaxEvents,    \* bound: events sent to the collector
  MaxCalls,     \* bound: calls of the applications, exits of clients included
  MaxOutages    \* bound: exits of the collector

ASSUME BoundAssumption ==
  MaxEvents \in Nat /\ MaxCalls \in Nat /\ MaxOutages \in Nat

VARIABLES
  phase,       \* of the collector
  known,       \* clients in its m_clientMap
  updated,     \*   those of them with m_updateMode
  connected,   \* m_isConnected of a client
  connecting,  \* where its application is in performServiceConnection
  serverId,    \* its m_serverClientId: none, confirmed, or left from an earlier connection
  updateMode,  \* its m_updateMode
  reading,     \* the update mode its infoHandler read and has not sent yet
  raced,       \* history: setUpdateMode came in between
  linked,      \* DIM connection from the collector to the infos of the client
  toCollector, toClient,  \* what is under way
  events, calls, outages  \* what the bounds count

collectorVars == <<phase, known, updated>>
settingVars == <<connected, connecting, serverId, updateMode, reading, raced>>
wireVars == <<linked, toCollector, toClient>>
boundVars == <<events, calls, outages>>
vars == <<collectorVars, settingVars, wireVars, boundVars>>

Init ==
  /\ phase = "down" /\ known = {} /\ updated = {}
  /\ connected = [c \in Client |-> FALSE] /\ connecting = [c \in Client |-> "no"]
  /\ serverId = [c \in Client |-> "none"]
  /\ updateMode = [c \in Client |-> FALSE]
  /\ reading = [c \in Client |-> <<>>] /\ raced = [c \in Client |-> FALSE]
  /\ linked = [c \in Client |-> FALSE]
  /\ toCollector = [c \in Client |-> <<>>] /\ toClient = [c \in Client |-> <<>>]
  /\ events = 0 /\ calls = 0 /\ outages = 0

-----------------------------------------------------------------------------
(* Messages. *)

Command(kind, value) == [kind |-> kind, value |-> value]

Commands == [kind : {"REGISTRATION", "UPDATE_MODE"}, value : BOOLEAN]
              \cup {Command("EXIT", FALSE)}
              \cup [kind : {"SUB_EVENT_IDENTIFIER", "COLLECT_RAW_EVENT"}, value : {TRUE}]

Updates == {"CLIENT_REGISTERED", "SERVER_STATE", "NO_LINK", "EVENT_RAW_UPDATE"}

Prefix(s, n) == SubSeq(s, 1, IF n <= Len(s) THEN n ELSE Len(s))

\* sendCommandNB: lost when there is no collector.
Send(c, commands) ==
  toCollector' = IF phase = "down" THEN toCollector
                 ELSE [toCollector EXCEPT ![c] = @ \o commands]

\* updateService and selectiveUpdateService: lost on clients that are not linked.
Update(clients, update) ==
  toClient' = [c \in Client |->
                 IF c \in clients /\ linked[c] THEN Append(toClient[c], update)
                 ELSE toClient[c]]

-----------------------------------------------------------------------------
(* DimEventCollector: start and end. *)

\* startCollector: the services are there, and commands are served.
StartCollector ==
  /\ phase = "down"
  /\ phase' = "starting"
  /\ UNCHANGED <<known, updated, settingVars, wireVars, boundVars>>

\* Mutant: nobody is told.
AnnounceState_Silent ==
  /\ phase = "starting"
  /\ phase' = "announced"
  /\ UNCHANGED <<known, updated, settingVars, wireVars, boundVars>>

\* A second later, SERVER_STATE becomes 1.
AnnounceState ==
  /\ phase = "starting"
  /\ phase' = "announced"
  /\ Update(Client, "SERVER_STATE")
  /\ UNCHANGED <<known, updated, settingVars, linked, toCollector, boundVars>>

\* m_isRunning: from here events are passed on.
SetRunning ==
  /\ phase = "announced"
  /\ phase' = "running"
  /\ UNCHANGED <<known, updated, settingVars, wireVars, boundVars>>

\* stopCollector at the end of the process, or its death.  The clients that were
\* linked get SERVER_STATE 0, after some of what was under way.
CollectorExit ==
  /\ phase # "down" /\ outages < MaxOutages
  /\ outages' = outages + 1
  /\ phase' = "down" /\ known' = {} /\ updated' = {}
  /\ linked' = [c \in Client |-> FALSE]
  /\ toCollector' = [c \in Client |-> <<>>]
  /\ \E received \in [Client -> 0 .. MaxEvents + MaxCalls] :
       toClient' = [c \in Client |->
         IF linked[c]
         THEN Append(Prefix(toClient[c], received[c]), "NO_LINK")
         ELSE toClient[c]]
  /\ UNCHANGED <<settingVars, events, calls>>

\* DIM finds the services for the infos of a client.
Link(c) ==
  /\ phase # "down" /\ connected[c] /\ ~linked[c]
  /\ linked' = [linked EXCEPT ![c] = TRUE]
  /\ UNCHANGED <<collectorVars, settingVars, toCollector, toClient, boundVars>>

-----------------------------------------------------------------------------
(* DimEventCollector: commandHandler and clientExitHandler. *)

\* getClient: a client that is not known is made known, with no updates.
GetClient(c) == known' = known \cup {c}

\* Mutant: the update mode outlives the client.
RemoveClient_Half(c) == known' = known \ {c} /\ UNCHANGED updated

RemoveClient(c) == known' = known \ {c} /\ updated' = updated \ {c}

\* updateEventService.  The id array is as long as the map, only its first bytes are
\* zero, and it has no end mark: what DIM reads behind the ids, those of clients
\* outside the model included, is up to the memory and may be the id of any client.
UpdateEventService ==
  \E others \in SUBSET Client :
    Update(updated \cup others, "EVENT_RAW_UPDATE")

\* An event that the streamer cannot read is not passed on.
HandleEventReception ==
  \/ phase = "running" /\ UpdateEventService
  \/ UNCHANGED toClient

\* The client is answered with its id.
RegisterClient(c) ==
  /\ GetClient(c)
  /\ Update({c}, "CLIENT_REGISTERED")
  /\ UNCHANGED updated

CommandHandler(c) ==
  /\ phase # "down" /\ toCollector[c] # <<>>
  /\ toCollector' = [toCollector EXCEPT ![c] = Tail(@)]
  /\ LET command == Head(toCollector[c])
     IN \/ /\ command.kind = "UPDATE_MODE"
           /\ GetClient(c)
           /\ updated' = IF command.value THEN updated \cup {c} ELSE updated \ {c}
           /\ UNCHANGED toClient
        \/ /\ command.kind = "SUB_EVENT_IDENTIFIER"
           /\ GetClient(c) /\ UNCHANGED <<updated, toClient>>
        \/ /\ command.kind = "COLLECT_RAW_EVENT"
           /\ HandleEventReception /\ UNCHANGED <<known, updated>>
        \/ command.kind = "REGISTRATION" /\ command.value /\ RegisterClient(c)
        \/ /\ command.kind \in {"REGISTRATION", "EXIT"} /\ ~command.value
           /\ RemoveClient(c) /\ UNCHANGED toClient
  /\ UNCHANGED <<phase, settingVars, linked, boundVars>>

-----------------------------------------------------------------------------
(* DimEventClient: the application's thread. *)

\* One call at a time.
Call(c) ==
  /\ connecting[c] = "no" /\ calls < MaxCalls
  /\ calls' = calls + 1
  /\ UNCHANGED <<events, outages>>

\* performServiceConnection, in three steps.  Without a collector the new infos may
\* get no data, and the state is then 0.
CreateInfos(c) ==
  /\ Call(c) /\ ~connected[c]
  /\ connected' = [connected EXCEPT ![c] = TRUE]
  /\ connecting' = [connecting EXCEPT ![c] = "asking"]
  /\ \/ UNCHANGED toClient
     \/ phase \in {"down", "starting"} /\ toClient' = [toClient EXCEPT ![c] = <<"NO_LINK">>]
  /\ UNCHANGED <<collectorVars, serverId, updateMode, reading, raced, linked, toCollector>>

\* DimCurrentInfo asks for SERVER_STATE and waits.  The infos were asked for before it,
\* so that they are linked when it is answered.
AskServerState(c) ==
  /\ connecting[c] = "asking"
  /\ IF phase \in {"announced", "running"}
     THEN /\ connecting' = [connecting EXCEPT ![c] = "registering"]
          /\ linked' = [linked EXCEPT ![c] = TRUE]
     ELSE connecting' = [connecting EXCEPT ![c] = "no"] /\ UNCHANGED linked
  /\ UNCHANGED <<collectorVars, connected, serverId, updateMode, reading, raced, toCollector,
                 toClient, boundVars>>

\* The collector was running a moment ago; infoHandler may have registered already.
RegisterAtOnce(c) ==
  /\ connecting[c] = "registering"
  /\ connecting' = [connecting EXCEPT ![c] = "no"]
  /\ Send(c, <<Command("REGISTRATION", TRUE)>>)
  /\ UNCHANGED <<collectorVars, connected, serverId, updateMode, reading, raced, linked,
                 toClient, boundVars>>

\* performServiceDisconnection: the id is kept, though the collector forgets it.
PerformServiceDisconnection(c) ==
  /\ Call(c) /\ connected[c] /\ reading[c] = <<>>
  /\ connected' = [connected EXCEPT ![c] = FALSE]
  /\ linked' = [linked EXCEPT ![c] = FALSE]
  /\ toClient' = [toClient EXCEPT ![c] = <<>>]
  /\ IF serverId[c] = "none" THEN UNCHANGED toCollector
     ELSE Send(c, <<Command("REGISTRATION", FALSE)>>)
  /\ serverId' = [serverId EXCEPT ![c] = IF @ = "confirmed" THEN "stale" ELSE @]
  /\ UNCHANGED <<collectorVars, connecting, updateMode, reading, raced>>

\* Mutant: the new mode stays with the client.
SetUpdateMode_Local(c) ==
  /\ Call(c)
  /\ updateMode' = [updateMode EXCEPT ![c] = ~@]
  /\ raced' = [raced EXCEPT ![c] = @ \/ reading[c] # <<>>]
  /\ UNCHANGED <<collectorVars, connected, connecting, serverId, reading, wireVars>>

SetUpdateMode(c) ==
  /\ Call(c)
  /\ updateMode' = [updateMode EXCEPT ![c] = ~@]
  /\ IF connected[c] THEN Send(c, <<Command("UPDATE_MODE", ~updateMode[c])>>)
     ELSE UNCHANGED toCollector
  /\ raced' = [raced EXCEPT ![c] = @ \/ reading[c] # <<>>]
  /\ UNCHANGED <<collectorVars, connected, connecting, serverId, reading, linked, toClient>>

SetSubEventIdentifier(c) ==
  /\ Call(c) /\ connected[c]
  /\ Send(c, <<Command("SUB_EVENT_IDENTIFIER", TRUE)>>)
  /\ UNCHANGED <<collectorVars, settingVars, linked, toClient>>

\* sendEvent, of any process: it needs no connection.
SendEvent(c) ==
  /\ phase # "down" /\ events < MaxEvents
  /\ events' = events + 1
  /\ Send(c, <<Command("COLLECT_RAW_EVENT", TRUE)>>)
  /\ UNCHANGED <<collectorVars, settingVars, linked, toClient, calls, outages>>

\* The process goes away with its client, and another one begins in its place.  A
\* destructor that runs is a performServiceDisconnection before it.
ClientExit(c) ==
  /\ calls < MaxCalls /\ calls' = calls + 1
  /\ connecting' = [connecting EXCEPT ![c] = "no"]
  /\ connected' = [connected EXCEPT ![c] = FALSE]
  /\ serverId' = [serverId EXCEPT ![c] = "none"]
  /\ updateMode' = [updateMode EXCEPT ![c] = FALSE]
  /\ reading' = [reading EXCEPT ![c] = <<>>]
  /\ raced' = [raced EXCEPT ![c] = FALSE]
  /\ linked' = [linked EXCEPT ![c] = FALSE]
  /\ toClient' = [toClient EXCEPT ![c] = <<>>]
  /\ Send(c, <<Command("EXIT", FALSE)>>)
  /\ UNCHANGED <<collectorVars, events, outages>>

-----------------------------------------------------------------------------
(* DimEventClient: infoHandler, on the client's DIM thread. *)

\* The rest of infoHandler, by what it is called for.
HandleClientId(c) ==
  /\ serverId' = [serverId EXCEPT ![c] = "confirmed"]
  /\ reading' = [reading EXCEPT ![c] = <<updateMode[c]>>]
  /\ raced' = [raced EXCEPT ![c] = FALSE]
  /\ UNCHANGED toCollector

HandleServerState(c) ==
  /\ IF serverId[c] = "none" THEN Send(c, <<Command("REGISTRATION", TRUE)>>)
     ELSE UNCHANGED toCollector
  /\ UNCHANGED <<serverId, reading, raced>>

HandleNoLink(c) ==
  /\ serverId' = [serverId EXCEPT ![c] = "none"]
  /\ UNCHANGED <<reading, raced, toCollector>>

\* eventReception: an event that can be read goes to the queue, and nothing else of the
\* client changes.
HandleEvent(c) == UNCHANGED <<serverId, reading, raced, toCollector>>

InfoHandler(c) ==
  /\ toClient[c] # <<>> /\ reading[c] = <<>>
  /\ toClient' = [toClient EXCEPT ![c] = Tail(@)]
  /\ LET update == Head(toClient[c])
     IN \/ update = "CLIENT_REGISTERED" /\ HandleClientId(c)
        \/ update = "SERVER_STATE" /\ HandleServerState(c)
        \/ update = "NO_LINK" /\ HandleNoLink(c)
        \/ update = "EVENT_RAW_UPDATE" /\ HandleEvent(c)
  /\ UNCHANGED <<collectorVars, connected, connecting, updateMode, linked, boundVars>>

\* The end of HandleClientId: the settings that were read go to the collector.  The
\* SUB_EVENT_IDENTIFIER behind the mode finds the client known and is left out.
SendParameters(c) ==
  /\ reading[c] # <<>>
  /\ Send(c, <<Command("UPDATE_MODE", Head(reading[c]))>>)
  /\ reading' = [reading EXCEPT ![c] = <<>>]
  /\ UNCHANGED <<collectorVars, connected, connecting, serverId, updateMode, raced, linked,
                 toClient, boundVars>>

-----------------------------------------------------------------------------
(* Specification. *)

Handlers(c) == CommandHandler(c) \/ InfoHandler(c) \/ SendParameters(c)

\* readSettings is a sequence of these calls: it disconnects, sets and connects again.
ApplicationCalls(c) ==
  \/ CreateInfos(c) \/ AskServerState(c) \/ RegisterAtOnce(c)
  \/ PerformServiceDisconnection(c) \/ SetUpdateMode(c) \/ SetSubEventIdentifier(c)
  \/ SendEvent(c) \/ ClientExit(c)

\* The program of the collector: it starts, serves and exits, and may be run again.
CollectorProgram == StartCollector \/ AnnounceState \/ SetRunning \/ CollectorExit

Next ==
  \/ CollectorProgram
  \/ \E c \in Client : Link(c) \/ Handlers(c) \/ ApplicationCalls(c)

Spec == Init /\ [][Next]_vars

\* DIM's threads run, and a collector that has begun to start goes on.
Fairness ==
  /\ WF_vars(AnnounceState) /\ WF_vars(SetRunning)
  /\ \A c \in Client : WF_vars(CommandHandler(c)) /\ WF_vars(InfoHandler(c))
                         /\ WF_vars(SendParameters(c))

FairSpec == Spec /\ Fairness

-----------------------------------------------------------------------------
(* Properties. *)

TypeOK ==
  /\ phase \in {"down", "starting", "announced", "running"}
  /\ known \subseteq Client /\ updated \subseteq known
  /\ connected \in [Client -> BOOLEAN]
  /\ connecting \in [Client -> {"no", "asking", "registering"}]
  /\ \A c \in Client : connecting[c] # "no" => connected[c]
  /\ serverId \in [Client -> {"none", "confirmed", "stale"}]
  /\ updateMode \in [Client -> BOOLEAN]
  /\ reading \in [Client -> ({<<>>} \cup {<<b>> : b \in BOOLEAN})] /\ raced \in [Client -> BOOLEAN]
  /\ linked \in [Client -> BOOLEAN]
  /\ toCollector \in [Client -> Seq(Commands)] /\ toClient \in [Client -> Seq(Updates)]
  /\ events \in 0 .. MaxEvents /\ calls \in 0 .. MaxCalls /\ outages \in 0 .. MaxOutages

Settled(c) ==
  phase = "running" /\ toCollector[c] = <<>> /\ toClient[c] = <<>> /\ reading[c] = <<>>

\* A client whose id was confirmed over its present connection is known to the
\* collector, with the update mode it has, once nothing is under way: unless
\* setUpdateMode overtook the handler that was about to send the mode it had read.
ConfirmedClientsKnown ==
  \A c \in Client : Settled(c) /\ connected[c] /\ serverId[c] = "confirmed" =>
    /\ c \in known
    /\ raced[c] \/ (c \in updated <=> updateMode[c])

\* What the inductive invariant says of the commands under way: those that take a
\* client out of the map, that enter it, and that give its update mode.
Removals == {m \in Commands : m.kind \in {"REGISTRATION", "EXIT"} /\ ~m.value}
Modes == {m \in Commands : m.kind = "UPDATE_MODE"}
Additions == {m \in Commands : m.kind = "REGISTRATION" /\ m.value}
               \cup {m \in Commands : m.kind = "SUB_EVENT_IDENTIFIER"} \cup Modes

\* The connection of the client is lost, and it has not been told yet.
Losing(c) == ~NoneAfter(toClient[c], 0, {"NO_LINK"})

\* The client is known once the collector has handled what is under way, and the
\* collector has the update mode of the client.
StaysKnown(c) == Prevails(c \in known, toCollector[c], Additions, Removals)

ModeArrives(c) ==
  Prevails(c \in updated <=> updateMode[c], toCollector[c],
           {Command("UPDATE_MODE", updateMode[c])}, Modes \cup Removals)

\* A confirmed client has a connection or hears of its loss, and so does one whose
\* confirmation is under way.
ConnectionInv(c) ==
  /\ linked[c] => phase # "down" /\ connected[c]
  /\ ~connected[c] => toClient[c] = <<>> /\ serverId[c] # "confirmed"
  /\ serverId[c] = "confirmed" => linked[c] \/ Losing(c)
  /\ \A i \in 1 .. Len(toClient[c]) :
       toClient[c][i] = "CLIENT_REGISTERED" =>
         linked[c] \/ ~NoneAfter(toClient[c], i, {"NO_LINK"})

\* From the confirmation on, the client is about to send the mode it read, or the
\* collector has it or will get it.
SettingsInv(c) ==
  serverId[c] = "confirmed" /\ ~Losing(c) =>
    /\ reading[c] # <<>> => raced[c] \/ Head(reading[c]) = updateMode[c]
    /\ reading[c] = <<>> => StaysKnown(c)
    /\ reading[c] = <<>> /\ ~raced[c] /\ NoneAfter(toClient[c], 0, {"CLIENT_REGISTERED"})
         => ModeArrives(c)

\* The inductive invariant of the proofs.
EventInv ==
  TypeOK /\ \A c \in Client : ConnectionInv(c) /\ SettingsInv(c)

\* A client that was not registered and is linked before the collector announces its
\* state gets registered, or loses its connection.
AnnouncedClientsRegister ==
  \A c \in Client :
    (phase = "starting" /\ linked[c] /\ serverId[c] = "none")
      ~> (serverId[c] = "confirmed" \/ ~linked[c])

=============================================================================
