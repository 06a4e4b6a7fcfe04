--------------------------- MODULE MonitorElementFlow ---------------------------
(***************************************************************************)
(* The monitor element collector together with the processes around it:    *)
(* the MonitorElementSender of each module application and the             *)
(* MonitorElementClient of each viewer, over DIM connections.              *)
(*                                                                         *)
(* A connection keeps the order of what goes through it and loses all of   *)
(* it when the collector process goes away.  Commands and services that    *)
(* find no connection are lost: nothing in the code waits for an answer.   *)
(*                                                                         *)
(* A module application has two threads.  The main thread books elements   *)
(* and sends at the end of a cycle; DIM's thread runs infoHandler.  The    *)
(* flag m_sendAvailableMeList is shared by the two, and sendMonitorElements *)
(* reads and clears it outside of the mutex.                               *)
(*                                                                         *)
(* AVAILABLE_ME_SVC is left out: a viewer passes it on to its listeners,   *)
(* which may ask for the same list with NAME_LIST_RPC.                     *)
(***************************************************************************)
EXTENDS MonitorElementCollector, Sequences, Channels

CONSTANTS
  MaxCommands, \* bound: commands given by the users of the viewers
  MaxBookings, \* bound: elements booked or deleted by the modules
  MaxExits,    \* bound: exits or crashes of the collector process
  MaxQueue     \* bound: messages one channel holds before its sender waits

ASSUME BoundsAssumption ==
  {MaxCommands, MaxBookings, MaxExits, MaxQueue} \subseteq Nat

VARIABLES
  link,         \* clients with a DIM connection to the collector process
  toCollector,  \* client -> commands under way
  toClient,     \* client -> service updates under way
  announcing,   \* start() sleeps before it updates COLLECTOR_STATE_SVC
  exits, commands, bookings,   \* what the bounds count
  availableMe,  \* module application -> keys of m_availableMeMap
  sendList,     \* module application -> m_sendAvailableMeList
  subscribed,   \* module application -> m_subscribedMeList
  sending,      \* sender threads between sending the list and clearing the flag
  greeted,      \* history: senders whose last news of the collector is RUNNING, and
                \*   did not come between the sending of the list and the flag's clearing
  wantedMode,   \* viewer -> m_updateMode
  serverUp,     \* viewers whose m_isCollectorRunning is set
  received      \* viewer -> elements its listeners got in the last step

collectorVars == <<lifeVars, clientVars, storageVars, subs, watched>>
senderVars == <<availableMe, sendList, subscribed, sending, greeted>>
viewerVars == <<wantedMode, serverUp>>
boundVars  == <<exits, commands, bookings>>
flowVars == <<vars, link, toCollector, toClient, announcing, boundVars,
              senderVars, viewerVars, received>>

-----------------------------------------------------------------------------
(* Messages. *)

Command ==
  [cmd : {"AVAILABLE_ME_CMD", "COLLECT_ME_CMD"}, els : SUBSET Element]
    \cup [cmd : {"SET_UPDATE_MODE_CMD"}, mode : BOOLEAN]
    \cup [cmd : {"SUBSCRIBE_CMD", "UNSUBSCRIBE_CMD", "SET_SUBSCRIPTION_CMD",
                 "QUERY_ME_CMD", "NAME_LIST_RPC"}, request : SUBSET Pair]

Info ==
  [svc : {"NOTIFY_WATCHED_ME_SVC"}, list : SUBSET Element]
    \cup [svc : {"COLLECTOR_STATE_SVC"}, running : BOOLEAN]
    \cup [svc : {"ME_UPDATE_SVC", "NAME_LIST_RPC"}, elements : SUBSET Pair]

StateInfo(running) == [svc |-> "COLLECTOR_STATE_SVC", running |-> running]

\* DimClient::sendCommandNB: no answer, and no error without a connection.
SendCommand(c, m) ==
  toCollector' = IF c \in link THEN [toCollector EXCEPT ![c] = Append(@, m)]
                               ELSE toCollector

\* The collector process does nothing in a step of another process.
CollectorIdle ==
  /\ notified' = {} /\ published' = Nobody /\ announced' = {}
  /\ UNCHANGED <<collectorVars, announcing, exits>>

NothingReceived == received' = Nobody

-----------------------------------------------------------------------------
(* The collector process. *)

\* The services a handler updates, as they leave for one client.
Emitted(c) ==
  IF c \notin link THEN <<>>
  ELSE IF c \in notified'
  THEN <<[svc |-> "NOTIFY_WATCHED_ME_SVC", list |-> watched'[c]]>>
  ELSE IF c \in Viewer /\ published'[c] # {}
  THEN <<[svc |-> "ME_UPDATE_SVC", elements |-> published'[c]]>>
  ELSE <<>>

HandleCommand(c, m) ==
  \/ m.cmd = "AVAILABLE_ME_CMD" /\ HandleAvailableListUpdate(c, m.els)
  \/ m.cmd = "COLLECT_ME_CMD" /\ HandleMeCollectUpdate(c, m.els)
  \/ m.cmd = "SET_UPDATE_MODE_CMD" /\ HandleClientUpdateMode(c, m.mode)
  \/ m.cmd = "SUBSCRIBE_CMD" /\ HandleClientSubscription(c, m.request)
  \/ m.cmd = "UNSUBSCRIBE_CMD" /\ HandleClientUnsubscription(c, m.request)
  \/ m.cmd = "SET_SUBSCRIPTION_CMD" /\ HandleClientRequestList(c, m.request)
  \/ m.cmd = "QUERY_ME_CMD" /\ m.request # {} /\ HandleMeQuery(c, m.request)
  \/ m.cmd = "QUERY_ME_CMD" /\ m.request = {} /\ HandleMeQueryAll(c)

ReceiveCommand(c) ==
  /\ NothingReceived
  /\ toCollector[c] # <<>> /\ Head(toCollector[c]).cmd # "NAME_LIST_RPC"
  /\ \A d \in Client : Len(toClient[d]) < MaxQueue
  /\ HandleCommand(c, Head(toCollector[c]))
  /\ toCollector' = [toCollector EXCEPT ![c] = Tail(@)]
  /\ toClient' = [d \in Client |-> toClient[d] \o Emitted(d)]
  /\ UNCHANGED <<link, announcing, boundVars, senderVars, viewerVars>>

\* MonitorElementNameListRpc: the available elements that match the request.
AnswerNameList(v) ==
  /\ NothingReceived
  /\ toCollector[v] # <<>> /\ Len(toClient[v]) < MaxQueue
  /\ LET m == Head(toCollector[v])
     IN /\ m.cmd = "NAME_LIST_RPC"
        /\ toClient' = [toClient EXCEPT ![v] =
                         Append(@, [svc |-> "NAME_LIST_RPC", elements |-> available \cap m.request])]
  /\ toCollector' = [toCollector EXCEPT ![v] = Tail(@)]
  /\ CollectorIdle
  /\ UNCHANGED <<link, commands, bookings, senderVars, viewerVars>>

\* MonitorElementCollectorApplication::run, up to the sleep of start().
StartCollector ==
  /\ NothingReceived
  /\ Start
  /\ announcing' = TRUE
  /\ UNCHANGED <<link, toCollector, toClient, boundVars, senderVars, viewerVars>>

\* The end of start(): the state is sent to the clients DIM has connected so far.
AnnounceRunning ==
  /\ NothingReceived
  /\ announcing
  /\ announcing' = FALSE
  /\ toClient' = [c \in Client |-> IF c \in link THEN Append(toClient[c], StateInfo(TRUE))
                                                 ELSE toClient[c]]
  /\ notified' = {} /\ published' = Nobody /\ announced' = {}
  /\ UNCHANGED <<collectorVars, link, toCollector, boundVars, senderVars, viewerVars>>

\* The DimInfo of a viewer gets the state with the connection, the DimUpdatedInfo
\* of a sender only the next update of it.
FirstInfo(c) == IF c \in Viewer THEN <<StateInfo(TRUE)>> ELSE <<>>

\* DIM connects a client to the services of the collector.
Connect(c) ==
  /\ NothingReceived
  /\ IsRunning /\ c \notin link
  /\ link' = link \cup {c}
  /\ toClient' = [toClient EXCEPT ![c] = @ \o FirstInfo(c)]
  /\ CollectorIdle
  /\ UNCHANGED <<toCollector, commands, bookings, senderVars, viewerVars>>

\* The collector process ends or dies and a new one may follow.  Its clients get
\* the STOPPED they gave as the value for a lost connection.
CollectorExit ==
  /\ NothingReceived
  /\ IsRunning /\ exits < MaxExits
  /\ exits' = exits + 1
  /\ link' = {} /\ announcing' = FALSE
  /\ toCollector' = [c \in Client |-> <<>>]
  /\ toClient' = [c \in Client |-> IF c \in link THEN Append(toClient[c], StateInfo(FALSE))
                                                 ELSE toClient[c]]
  /\ collectorState' = "STOPPED" /\ starts' = 0
  /\ clients' = {} /\ moduleOf' = [c \in Client |-> NoModule] /\ updateMode' = {}
  /\ known' = {} /\ available' = {} /\ entries' = {} /\ stored' = {}
  /\ subs' = Nobody /\ watched' = [a \in ModuleApp |-> {}]
  /\ notified' = {} /\ published' = Nobody /\ announced' = {}
  /\ UNCHANGED <<commands, bookings, senderVars, viewerVars>>

-----------------------------------------------------------------------------
(* The sender of a module application. *)

\* The subscribed elements that the module has: ModuleApi::getMonitorElement finds
\* them.
Publication(a) == subscribed[a] \cap availableMe[a]

\* ModuleApi books a monitor element: addAvailableMonitorElement.
AddAvailableMonitorElement(a, e) ==
  /\ NothingReceived
  /\ bookings < MaxBookings /\ a \notin sending
  /\ e \notin availableMe[a]
  /\ bookings' = bookings + 1
  /\ availableMe' = [availableMe EXCEPT ![a] = @ \cup {e}]
  /\ sendList' = [sendList EXCEPT ![a] = TRUE]
  /\ CollectorIdle
  /\ UNCHANGED <<link, toCollector, toClient, commands, subscribed, sending, greeted,
                 viewerVars>>

\* ModuleApi deletes a monitor element: removeAvailableMonitorElement.
RemoveAvailableMonitorElement(a, e) ==
  /\ NothingReceived
  /\ bookings < MaxBookings /\ a \notin sending
  /\ e \in availableMe[a]
  /\ bookings' = bookings + 1
  /\ availableMe' = [availableMe EXCEPT ![a] = @ \ {e}]
  /\ sendList' = [sendList EXCEPT ![a] = TRUE]
  /\ CollectorIdle
  /\ UNCHANGED <<link, toCollector, toClient, commands, subscribed, sending, greeted,
                 viewerVars>>

\* Mutant: the list is not sent when the flag asks for it.
SendList_Never(a) == toCollector' = toCollector

\* sendAvailableMonitorElementList: an empty list is not sent.
SendList(a) ==
  IF availableMe[a] = {} THEN toCollector' = toCollector
  ELSE SendCommand(a, [cmd |-> "AVAILABLE_ME_CMD", els |-> availableMe[a]])

\* First half of sendMonitorElements when the flag is set.
SendAvailableMonitorElementList(a) ==
  /\ NothingReceived
  /\ a \notin sending /\ sendList[a] /\ Len(toCollector[a]) < MaxQueue
  /\ sending' = sending \cup {a}
  /\ SendList(a)
  /\ CollectorIdle
  /\ UNCHANGED <<link, toClient, commands, bookings, availableMe, sendList, subscribed,
                 greeted, viewerVars>>

\* The rest of sendMonitorElements: clear the flag if the list was sent, copy the
\* subscribed list under the mutex, publish.  A publication without elements
\* changes nothing at the collector and is left out.
SendMonitorElements(a) ==
  /\ NothingReceived
  /\ a \in sending \/ ~sendList[a]
  /\ Len(toCollector[a]) < MaxQueue
  /\ sending' = sending \ {a}
  /\ sendList' = [sendList EXCEPT ![a] = FALSE]
  /\ IF Publication(a) = {} THEN toCollector' = toCollector
     ELSE SendCommand(a, [cmd |-> "COLLECT_ME_CMD", els |-> Publication(a)])
  /\ CollectorIdle
  /\ UNCHANGED <<link, toClient, commands, bookings, availableMe, subscribed, greeted,
                 viewerVars>>

\* Mutant: the subscribed list survives the collector that sent it.
ServerDown_KeepsList(a) == subscribed' = subscribed

\* What infoHandler does with STOPPED.
ServerDown(a) == subscribed' = [subscribed EXCEPT ![a] = {}]

\* MonitorElementSender::infoHandler, on DIM's thread.
SenderInfoHandler(a) ==
  LET info == Head(toClient[a]) IN
  /\ NothingReceived
  /\ toClient[a] # <<>>
  /\ \/ /\ info.svc = "NOTIFY_WATCHED_ME_SVC"
        /\ subscribed' = [subscribed EXCEPT ![a] = info.list]
        /\ UNCHANGED <<sendList, greeted>>
     \/ /\ info.svc = "COLLECTOR_STATE_SVC" /\ info.running
        /\ sendList' = [sendList EXCEPT ![a] = TRUE]
        /\ greeted' = IF a \in sending THEN greeted \ {a} ELSE greeted \cup {a}
        /\ UNCHANGED subscribed
     \/ /\ info.svc = "COLLECTOR_STATE_SVC" /\ ~info.running
        /\ ServerDown(a)
        /\ greeted' = greeted \ {a}
        /\ UNCHANGED sendList
  /\ toClient' = [toClient EXCEPT ![a] = Tail(@)]
  /\ CollectorIdle
  /\ UNCHANGED <<link, toCollector, commands, bookings, availableMe, sending, viewerVars>>

-----------------------------------------------------------------------------
(* The client of a viewer. *)

\* subscribe, unsubscribe, replaceSubscription and querySubscribedMonitorElements
\* send what they are given and keep nothing.  The collector drops an empty
\* request to subscribe or to unsubscribe.
ViewerRequest(v) ==
  /\ NothingReceived
  /\ commands < MaxCommands
  /\ commands' = commands + 1
  /\ \E name \in {"SUBSCRIBE_CMD", "UNSUBSCRIBE_CMD", "SET_SUBSCRIPTION_CMD",
                  "QUERY_ME_CMD"}, request \in SUBSET Pair :
       /\ request # {} \/ name = "QUERY_ME_CMD"
       /\ SendCommand(v, [cmd |-> name, request |-> request])
  /\ CollectorIdle
  /\ UNCHANGED <<link, toClient, bookings, senderVars, viewerVars>>

\* queryAvailableMonitorElements, for the elements that match the request.
QueryAvailable(v) ==
  /\ NothingReceived
  /\ commands < MaxCommands
  /\ commands' = commands + 1
  /\ \E request \in (SUBSET Pair) \ {{}} :
       SendCommand(v, [cmd |-> "NAME_LIST_RPC", request |-> request])
  /\ CollectorIdle
  /\ UNCHANGED <<link, toClient, bookings, senderVars, viewerVars>>

SendUpdateMode(v, mode) ==
  SendCommand(v, [cmd |-> "SET_UPDATE_MODE_CMD", mode |-> mode])

\* setUpdateMode
ViewerSetUpdateMode(v, mode) ==
  /\ NothingReceived
  /\ commands < MaxCommands
  /\ commands' = commands + 1
  /\ wantedMode' = [wantedMode EXCEPT ![v] = mode]
  /\ SendUpdateMode(v, mode)
  /\ CollectorIdle
  /\ UNCHANGED <<link, toClient, bookings, senderVars, serverUp>>

\* handleMeListNameRpcInfo: the listeners get the list, which is kept nowhere.
HandleNameList(v) ==
  /\ NothingReceived
  /\ toClient[v] # <<>> /\ Head(toClient[v]).svc = "NAME_LIST_RPC"
  /\ toClient' = [toClient EXCEPT ![v] = Tail(@)]
  /\ CollectorIdle
  /\ UNCHANGED <<link, toCollector, commands, bookings, senderVars, viewerVars>>

\* MonitorElementClient::infoHandler.  A change of the collector's state to
\* RUNNING makes it send the update mode again.
ViewerInfoHandler(v) ==
  LET info == Head(toClient[v])
      startup == info.svc = "COLLECTOR_STATE_SVC" /\ info.running /\ v \notin serverUp
  IN
  /\ toClient[v] # <<>> /\ info.svc # "NAME_LIST_RPC"
  /\ received' = [Nobody EXCEPT ![v] = IF info.svc = "ME_UPDATE_SVC" THEN info.elements
                                                                     ELSE {}]
  /\ serverUp' = IF info.svc # "COLLECTOR_STATE_SVC" THEN serverUp
                 ELSE IF info.running THEN serverUp \cup {v} ELSE serverUp \ {v}
  /\ IF startup THEN SendUpdateMode(v, wantedMode[v]) ELSE toCollector' = toCollector
  /\ toClient' = [toClient EXCEPT ![v] = Tail(@)]
  /\ CollectorIdle
  /\ UNCHANGED <<link, commands, bookings, senderVars, wantedMode>>

-----------------------------------------------------------------------------

FlowInit ==
  /\ Init
  /\ link = {} /\ announcing = FALSE
  /\ toCollector = [c \in Client |-> <<>>] /\ toClient = [c \in Client |-> <<>>]
  /\ exits = 0 /\ commands = 0 /\ bookings = 0
  /\ availableMe = [a \in ModuleApp |-> {}]
  /\ sendList = [a \in ModuleApp |-> TRUE]
  /\ subscribed = [a \in ModuleApp |-> {}]
  /\ sending = {} /\ greeted = {}
  /\ wantedMode = [v \in Viewer |-> FALSE] /\ serverUp = {}
  /\ received = Nobody

SenderStep(a) ==
  \/ \E e \in Element : \/ AddAvailableMonitorElement(a, e)
                        \/ RemoveAvailableMonitorElement(a, e)
  \/ SendAvailableMonitorElementList(a)
  \/ SendMonitorElements(a)
  \/ SenderInfoHandler(a)

ViewerStep(v) ==
  \/ ViewerRequest(v) \/ QueryAvailable(v) \/ HandleNameList(v)
  \/ \E mode \in BOOLEAN : ViewerSetUpdateMode(v, mode)
  \/ ViewerInfoHandler(v)

CollectorStep ==
  \/ StartCollector
  \/ AnnounceRunning
  \/ CollectorExit
  \/ \E c \in Client : Connect(c) \/ ReceiveCommand(c)
  \/ \E v \in Viewer : AnswerNameList(v)

FlowNext ==
  \/ CollectorStep
  \/ \E a \in ModuleApp : SenderStep(a)
  \/ \E v \in Viewer : ViewerStep(v)

\* DIM delivers what a connection holds, a collector that starts gets to the end
\* of its start(), and the main loop of a module application comes to the end of a
\* cycle again and again.  Users, bookings, exits and connections owe nothing.
FlowFairness ==
  /\ WF_flowVars(AnnounceRunning)
  /\ \A c \in Client : WF_flowVars(ReceiveCommand(c))
  /\ \A a \in ModuleApp : /\ WF_flowVars(SenderInfoHandler(a))
                          /\ WF_flowVars(SendAvailableMonitorElementList(a))
                          /\ WF_flowVars(SendMonitorElements(a))
  /\ \A v \in Viewer : /\ WF_flowVars(AnswerNameList(v)) /\ WF_flowVars(HandleNameList(v))
                       /\ WF_flowVars(ViewerInfoHandler(v))

FlowSpec == FlowInit /\ [][FlowNext]_flowVars /\ FlowFairness

-----------------------------------------------------------------------------
(* Properties *)

FlowTypeOK ==
  /\ IndInv
  /\ link \subseteq Client
  /\ toCollector \in [Client -> Seq(Command)]
  /\ toClient \in [Client -> Seq(Info)]
  /\ announcing \in BOOLEAN
  /\ exits \in 0 .. MaxExits /\ commands \in 0 .. MaxCommands
  /\ bookings \in 0 .. MaxBookings
  /\ availableMe \in [ModuleApp -> SUBSET Element]
  /\ sendList \in [ModuleApp -> BOOLEAN]
  /\ subscribed \in [ModuleApp -> SUBSET Element]
  /\ sending \subseteq ModuleApp /\ greeted \subseteq ModuleApp
  /\ wantedMode \in [Viewer -> BOOLEAN] /\ serverUp \subseteq Viewer
  /\ received \in [Viewer -> SUBSET Pair]

\* Connected, and nothing under way in either direction.
Settled(c) == c \in link /\ toCollector[c] = <<>> /\ toClient[c] = <<>>

\* A sender that is connected and has nothing left to handle sends exactly what
\* viewers subscribe to: also after the collector went away with all its
\* subscriptions, and another one took its place.
SendersFollowSubscriptions ==
  \A a \in ModuleApp :
    a \in link /\ toClient[a] = <<>> => subscribed[a] = GetSubscribedList(ModuleName[a])

\* A viewer that is connected and has nothing left to handle knows that the
\* collector runs, whatever the order of connection, announcement and restart.
ViewersSeeCollector ==
  \A v \in Viewer : v \in link /\ toClient[v] = <<>> => v \in serverUp

\* Senders and viewers agree with the collector that is there.
ClientsFollowCollector == SendersFollowSubscriptions /\ ViewersSeeCollector

\* A list that a connected module still has to send reaches the collector, unless
\* the connection is lost or the module deletes all its elements first.
DueListArrives ==
  \A a \in ModuleApp :
    sendList[a] /\ a \in link \ sending /\ availableMe[a] # {}
      ~> \/ {e \in Element : <<ModuleName[a], e>> \in available} = availableMe[a]
         \/ a \notin link
         \/ availableMe[a] = {}

\* An element somebody watches in update mode is received again and again, until
\* the viewer gives up, the module deletes it or the collector goes away.
WatchedElementsArrive ==
  \A a \in ModuleApp, v \in Viewer, e \in Element :
    LET p == <<ModuleName[a], e>>
        watching == v \in updateMode /\ p \in subs[v] /\ e \in availableMe[a]
    IN watching ~> p \in received[v] \/ ~watching

\* When the flag says that no list is due, a collector that announced itself to the
\* sender has the list, unless the list is empty: the announcement may come at any
\* moment but the one in which the main thread clears the flag.
AnnouncedListKnown ==
  \A a \in greeted :
    Settled(a) /\ a \notin sending /\ ~sendList[a] /\ availableMe[a] # {} =>
      \A e \in availableMe[a] : <<ModuleName[a], e>> \in available

\* What the inductive invariant says.  Senders and viewers send commands of their own.
CommandKinds ==
  \A c \in Client : \A i \in 1 .. Len(toCollector[c]) :
    toCollector[c][i].cmd \in {"AVAILABLE_ME_CMD", "COLLECT_ME_CMD"} <=> c \in ModuleApp

\* A collector process starts once, and what it knows of a client came through the
\* connection that is there.
LifeInv ==
  /\ starts = IF IsRunning THEN 1 ELSE 0
  /\ link # {} => IsRunning
  /\ clients \subseteq link
  /\ \A c \in Client : toCollector[c] # <<>> => c \in link

\* The messages that change the list of a sender, and those that make it this list.
ListNews == {m \in Info : m.svc = "NOTIFY_WATCHED_ME_SVC"} \cup {StateInfo(FALSE)}

Telling(list) == {m \in ListNews : IF m.svc = "NOTIFY_WATCHED_ME_SVC" THEN m.list = list
                                                                     ELSE list = {}}

\* What the collector sent a sender last is what it has or will have.
SenderTold(a) ==
  /\ a \notin clients => watched[a] = {}
  /\ Prevails(subscribed[a] = watched[a], toClient[a], Telling(watched[a]), ListNews)

\* A viewer that is connected knows of the collector or will be told.
ViewerTold(v) ==
  v \in link => Prevails(v \in serverUp, toClient[v], {StateInfo(TRUE)}, {StateInfo(FALSE)})

\* The connection of a sender is lost, and it has not been told yet.
Losing(a) == ~NoneAfter(toClient[a], 0, {StateInfo(FALSE)})

\* A sender that the collector greeted is connected or hears of the loss.
GreetedInv(a) ==
  /\ a \in greeted => a \in link \/ Losing(a)
  /\ \A i \in 1 .. Len(toClient[a]) :
       toClient[a][i] = StateInfo(TRUE) =>
         a \in link \/ ~NoneAfter(toClient[a], i, {StateInfo(FALSE)})

\* The list of a module at the collector.
AvailableOf(a) == {e \in Element : <<ModuleName[a], e>> \in available}

ListCommand(list) == [cmd |-> "AVAILABLE_ME_CMD", els |-> list]

\* The sender has sent its list to the collector that greeted it.
ListSent(a) ==
  /\ a \in greeted /\ ~Losing(a) /\ availableMe[a] # {}
  /\ a \in sending \/ ~sendList[a]

\* From then on, the collector has the list or will get it.
ListInv(a) ==
  ListSent(a) =>
    Prevails(AvailableOf(a) = availableMe[a], toCollector[a],
             {ListCommand(availableMe[a])}, {ListCommand(list) : list \in SUBSET Element})

\* The inductive invariant of the proofs, when names are unique.
FlowInv ==
  /\ FlowTypeOK /\ CommandKinds /\ LifeInv /\ WatchedListTold
  /\ \A a \in ModuleApp : SenderTold(a) /\ GreetedInv(a) /\ ListInv(a)
  /\ \A v \in Viewer : ViewerTold(v)

=============================================================================
