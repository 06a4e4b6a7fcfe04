------------------------ MODULE MonitorElementCollector ------------------------
(***************************************************************************)
(* The monitor element collector: a DIM server that stores the monitor     *)
(* elements published by the module applications, keeps the subscriptions  *)
(* of the viewers (the monitor element clients), tells each module which   *)
(* of its elements somebody watches, and sends viewers the elements they   *)
(* subscribed to.                                                          *)
(*                                                                         *)
(* DIM runs the handlers of a server one after the other on its own        *)
(* thread, so every handler is one atomic action.  A handler's messages go *)
(* to "notified", "published" and "announced", which hold what the last    *)
(* step sent; how long they travel is the business of a composition.       *)
(*                                                                         *)
(* The nested maps of the code, module -> element name -> {element pointer,*)
(* client ids}, are kept as relations between modules and elements: the    *)
(* same information, read by column.                                       *)
(***************************************************************************)
EXTENDS Integers

CONSTANTS
  Viewer,      \* DIM client ids of the processes that hold a MonitorElementClient
  ModuleApp,   \* DIM client ids of the processes that hold a MonitorElementSender
  Module,      \* module names
  Element,     \* full names (path and name) of monitor elements
  ModuleName,  \* the name each module application gives its module
  NoModule,    \* stands for the empty module name of a ClientInfo
  MaxStarts    \* bound: calls of start() on one collector object

\* A process is a viewer or a module application: no program of the repository
\* holds both a MonitorElementClient and a MonitorElementSender.  Ids of module
\* applications are ordered because std::map<int, ClientInfo> is walked by id;
\* DIM never uses the id 0.
ASSUME ClientIdAssumption ==
  /\ ModuleApp \subseteq Nat \ {0}
  /\ Viewer \cap ModuleApp = {}

ASSUME ModuleNameAssumption ==
  /\ ModuleName \in [ModuleApp -> Module]
  /\ NoModule \notin Module

ASSUME MaxStartsAssumption == MaxStarts \in Nat

Client == Viewer \cup ModuleApp

\* <<m, e>> : the element e of the module m.
Pair == Module \X Element

VARIABLES
  collectorState, \* m_collectorState
  starts,         \* calls of start() so far
  clients,        \* keys of m_clientMap
  moduleOf,       \* ClientInfo::m_moduleName; NoModule when m_isModule is false
  updateMode,     \* registered clients with ClientInfo::m_updateMode set
  known,          \* keys of m_moduleMeInfoMap
  available,      \* ModuleMeInfo::m_availableMeList, as pairs
  entries,        \* keys of ModuleMeInfo::m_meInfoMap, as pairs
  stored,         \* entries whose MeInfo::m_monitorElement is not null
  subs,           \* viewer -> pairs whose MeInfo::m_clientList holds its id
  watched,        \* module application -> last list sent on NOTIFY_WATCHED_ME_SVC
  notified,       \* module applications sent a watched list by the last step
  published,      \* viewer -> elements sent on ME_UPDATE_SVC by the last step
  announced       \* modules whose list the last step sent on AVAILABLE_ME_SVC

lifeVars    == <<collectorState, starts>>
clientVars  == <<clients, moduleOf, updateMode>>
storageVars == <<known, available, entries, stored>>
outputVars  == <<notified, published, announced>>
vars == <<lifeVars, clientVars, storageVars, subs, watched, outputVars>>

-----------------------------------------------------------------------------
(* Helpers, named after the methods they stand for. *)

IsRunning == collectorState = "RUNNING"

Nobody == [v \in Viewer |-> {}]

\* The modules named by a set of pairs.
ModulesOf(pairs) == {p[1] : p \in pairs}

\* ModuleMeInfo::getSubscribedList: elements of m with at least one subscriber.
GetSubscribedList(m) == {e \in Element : \E v \in Viewer : <<m, e>> \in subs[v]}

\* ModuleMeInfo::getSubscribedMeList over all modules, the publication that
\* sendMeUpdate builds: what v subscribed to and the collector holds.
GetSubscribedMeList(v) == subs[v] \cap stored

\* getModuleClientID: the lowest id registered under the module name, as a set
\* that is empty when there is none (the code's 0).
GetModuleClientID(m) ==
  {a \in clients : /\ moduleOf[a] = m
                   /\ \A b \in clients : moduleOf[b] = m => a <= b}

\* Mutant: getMonitorElement with partialCompare, so that a requested name
\* matches other elements of the module too.
GetMonitorElements_Partial(request) ==
  {p \in stored : \E r \in request : r[1] = p[1]}

\* ModuleMeInfo::getMonitorElement for every element of a request: those found.
GetMonitorElements(request) == request \cap stored

\* ModuleMeInfo::subscribe accepts an element that has an entry or is available.
Accepted(request) ==
  {p \in request : p[1] \in known /\ p \in entries \cup available}

\* Mutant: the list is read before the handler changes the subscriptions.
NotifyWatchedMe_Stale(modules) ==
  /\ notified' = {a \in ModuleApp :
                    \E m \in modules \cap known' : a \in GetModuleClientID(m)'}
  /\ watched' = [a \in ModuleApp |->
                    IF a \in notified' THEN GetSubscribedList(moduleOf[a])
                                       ELSE watched[a]]

\* notifyWatchedMe for every module of a set, in the state the handler leaves:
\* the module client with the lowest id is sent the list of subscribed elements.
NotifyWatchedMe(modules) ==
  /\ notified' = {a \in ModuleApp :
                    \E m \in modules \cap known' : a \in GetModuleClientID(m)'}
  /\ watched' = [a \in ModuleApp |->
                    IF a \in notified' THEN GetSubscribedList(moduleOf[a])'
                                       ELSE watched[a]]

NotifyNobody == notified' = {} /\ watched' = watched

\* sendMeUpdate to one client; an empty publication is not sent.
SendMeUpdate(v) == published' = [Nobody EXCEPT ![v] = GetSubscribedMeList(v)]

\* Mutant: the client is not entered in the map.
RegisterClient_Forgets(v) == clients' = clients

\* registerClient(clientId): a plain client, update mode off, unless it is there.
RegisterClient(v) == clients' = clients \cup {v}

-----------------------------------------------------------------------------
(* The life of the collector object. *)

Init ==
  /\ collectorState = "STOPPED" /\ starts = 0
  /\ clients = {} /\ moduleOf = [c \in Client |-> NoModule] /\ updateMode = {}
  /\ known = {} /\ available = {} /\ entries = {} /\ stored = {}
  /\ subs = Nobody
  /\ watched = [a \in ModuleApp |-> {}]
  /\ notified = {} /\ published = Nobody /\ announced = {}

\* start(): the client and storage maps of an earlier life are kept.
Start ==
  /\ ~IsRunning /\ starts < MaxStarts
  /\ collectorState' = "RUNNING" /\ starts' = starts + 1
  /\ NotifyNobody /\ published' = Nobody /\ announced' = {}
  /\ UNCHANGED <<clientVars, storageVars, subs>>

\* stop(): deletes the services and commands, clears neither map.
Stop ==
  /\ IsRunning
  /\ collectorState' = "STOPPED"
  /\ NotifyNobody /\ published' = Nobody /\ announced' = {}
  /\ UNCHANGED <<starts, clientVars, storageVars, subs>>

-----------------------------------------------------------------------------
(* Commands of the module applications. *)

\* AVAILABLE_ME_CMD.  The list replaces the previous one; entries, and the
\* subscriptions on them, survive an element's removal from the list.
HandleAvailableListUpdate(a, list) ==
  LET m == ModuleName[a]
      newClient == a \notin clients
  IN
  /\ IsRunning
  /\ clients' = clients \cup {a}
  /\ moduleOf' = IF newClient THEN [moduleOf EXCEPT ![a] = m] ELSE moduleOf
  /\ known' = known \cup {m}
  /\ available' = {p \in available : p[1] # m} \cup ({m} \X list)
  /\ announced' = {m}
  /\ published' = Nobody
  /\ UNCHANGED <<lifeVars, updateMode, entries, stored, subs>>
  /\ NotifyWatchedMe(IF newClient THEN {m} ELSE {})

\* Mutant: forceUpdate, which skips the update mode test.
UpdateClients_Forced(collected) ==
  published' = [v \in Viewer |->
    IF v \in clients /\ subs[v] \cap collected # {}
    THEN GetSubscribedMeList(v)' ELSE {}]

\* Mutant: the clients are updated before the elements are stored.
UpdateClients_Early(collected) ==
  published' = [v \in Viewer |->
    IF v \in clients \cap updateMode /\ subs[v] \cap collected # {}
    THEN GetSubscribedMeList(v) ELSE {}]

\* updateClients: a registered subscriber of a collected element that is in
\* update mode is sent everything it subscribed to, of all modules.
UpdateClients(collected) ==
  published' = [v \in Viewer |->
    IF v \in clients \cap updateMode /\ subs[v] \cap collected # {}
    THEN GetSubscribedMeList(v)' ELSE {}]

\* COLLECT_ME_CMD, the elements els of the module of a.  The sender need not be
\* registered, but its module must be known.  The handler has no test of its own
\* for a running collector: the command exists between start() and stop().
HandleMeCollectUpdate(a, els) ==
  LET m == ModuleName[a]
      collected == IF m \in known THEN {m} \X els ELSE {}
  IN
  /\ IsRunning
  /\ entries' = entries \cup collected
  /\ stored' = stored \cup collected
  /\ NotifyNobody /\ announced' = {}
  /\ UNCHANGED <<lifeVars, clientVars, known, available, subs>>
  /\ UpdateClients(collected)

-----------------------------------------------------------------------------
(* Commands of the viewers.  A request is a set of pairs. *)

\* ClientInfo::setUpdateMode of the client, if it has an entry in m_clientMap.
SetUpdateMode(v, mode) ==
  updateMode' = IF mode THEN updateMode \cup ({v} \cap clients)
                        ELSE updateMode \ {v}

\* SET_UPDATE_MODE_CMD: ignored when the client is not registered; switching
\* the mode on sends the client what it subscribed to.
HandleClientUpdateMode(v, mode) ==
  /\ IsRunning
  /\ SetUpdateMode(v, mode)
  /\ IF v \in clients \ updateMode /\ mode
     THEN SendMeUpdate(v) ELSE published' = Nobody
  /\ NotifyNobody /\ announced' = {}
  /\ UNCHANGED <<lifeVars, clients, moduleOf, storageVars, subs>>

\* SET_SUBSCRIPTION_CMD: replaces the subscriptions of v, in the known modules
\* that the request names and in no other.
HandleClientRequestList(v, request) ==
  LET touched == ModulesOf(request) \cap known IN
  /\ IsRunning
  /\ RegisterClient(v)
  /\ subs' = [subs EXCEPT ![v] =
                {p \in @ : p[1] \notin touched} \cup Accepted(request)]
  /\ entries' = entries \cup Accepted(request)
  /\ published' = Nobody /\ announced' = {}
  /\ UNCHANGED <<lifeVars, moduleOf, updateMode, known, available, stored>>
  /\ NotifyWatchedMe(touched)

\* SUBSCRIBE_CMD with a request that is not empty (an empty one is dropped).
HandleClientSubscription(v, request) ==
  LET new == Accepted(request) \ subs[v] IN
  /\ IsRunning /\ request # {}
  /\ RegisterClient(v)
  /\ subs' = [subs EXCEPT ![v] = @ \cup new]
  /\ entries' = entries \cup new
  /\ published' = Nobody /\ announced' = {}
  /\ UNCHANGED <<lifeVars, moduleOf, updateMode, known, available, stored>>
  /\ NotifyWatchedMe(ModulesOf(new))

\* Mutant: the elements lose all their subscribers, not only the caller.
Unsubscribe_Everybody(v, pairs) == subs' = [w \in Viewer |-> subs[w] \ pairs]

\* The erase of v from the client lists in ModuleMeInfo::unsubscribe.
Unsubscribe(v, pairs) == subs' = [subs EXCEPT ![v] = @ \ pairs]

\* UNSUBSCRIBE_CMD with a request that is not empty.  ModuleMeInfo::unsubscribe
\* answers true for an element the module has no entry for.
HandleClientUnsubscription(v, request) ==
  LET unsubscribed == {p \in request : p[1] \in known /\ (p \in subs[v] \/ p \notin entries)}
  IN
  /\ IsRunning /\ request # {}
  /\ RegisterClient(v)
  /\ Unsubscribe(v, unsubscribed)
  /\ published' = Nobody /\ announced' = {}
  /\ UNCHANGED <<lifeVars, moduleOf, updateMode, storageVars>>
  /\ NotifyWatchedMe(ModulesOf(unsubscribed))

\* QUERY_ME_CMD with a request: subscribes, then sends the requested elements
\* that are stored, whatever the update mode.
HandleMeQuery(v, request) ==
  LET new == Accepted(request) \ subs[v] IN
  /\ IsRunning /\ request # {}
  /\ RegisterClient(v)
  /\ subs' = [subs EXCEPT ![v] = @ \cup new]
  /\ entries' = entries \cup new
  /\ published' = [Nobody EXCEPT ![v] = GetMonitorElements(request)]
  /\ announced' = {}
  /\ UNCHANGED <<lifeVars, moduleOf, updateMode, known, available, stored>>
  /\ NotifyWatchedMe(ModulesOf(new))

\* QUERY_ME_CMD with an empty request: send v all it subscribed to.
HandleMeQueryAll(v) ==
  /\ IsRunning
  /\ RegisterClient(v)
  /\ SendMeUpdate(v)
  /\ NotifyNobody /\ announced' = {}
  /\ UNCHANGED <<lifeVars, moduleOf, updateMode, storageVars, subs>>

-----------------------------------------------------------------------------
(* clientExitHandler: DIM calls it, running or not, when the connection of a *)
(* registered client is gone; deregisterClient does the work.                *)

\* Mutant: the record of the module is left behind.
EraseModule_Not(m) == UNCHANGED <<storageVars, subs>>

\* The ModuleMeInfo of m is deleted, with all it holds.
EraseModule(m) ==
  LET Others(pairs) == {p \in pairs : p[1] # m} IN
  /\ known' = known \ {m}
  /\ available' = Others(available)
  /\ entries' = Others(entries)
  /\ stored' = Others(stored)
  /\ subs' = [v \in Viewer |-> Others(subs[v])]

\* The client was a module: the whole record of its module goes, with the
\* subscriptions of the viewers, whoever else uses the name.  What was sent to the
\* client is lost with its connection.
DeregisterModule(a) ==
  /\ a \in clients \cap ModuleApp
  /\ clients' = clients \ {a}
  /\ moduleOf' = [moduleOf EXCEPT ![a] = NoModule]
  /\ updateMode' = updateMode \ {a}
  /\ EraseModule(moduleOf[a])
  /\ watched' = [watched EXCEPT ![a] = {}]
  /\ notified' = {} /\ published' = Nobody /\ announced' = {}
  /\ UNCHANGED lifeVars

\* The client was a viewer: it leaves every subscriber list, and the modules
\* concerned are notified.  After stop() the notification goes through a deleted
\* service: nothing is sent, or the process dies and takes no further step.
DeregisterViewer(v) ==
  /\ v \in clients \cap Viewer
  /\ clients' = clients \ {v}
  /\ updateMode' = updateMode \ {v}
  /\ subs' = [subs EXCEPT ![v] = {}]
  /\ published' = Nobody /\ announced' = {}
  /\ UNCHANGED <<lifeVars, moduleOf, storageVars>>
  /\ NotifyWatchedMe(IF IsRunning THEN ModulesOf(subs[v]) ELSE {})

-----------------------------------------------------------------------------

ModuleCommand(a) ==
  \E els \in (SUBSET Element) \ {{}} :
    HandleAvailableListUpdate(a, els) \/ HandleMeCollectUpdate(a, els)

ViewerCommand(v) ==
  \/ \E mode \in BOOLEAN : HandleClientUpdateMode(v, mode)
  \/ HandleMeQueryAll(v)
  \/ \E request \in SUBSET Pair :
       \/ HandleClientRequestList(v, request)
       \/ HandleClientSubscription(v, request)
       \/ HandleClientUnsubscription(v, request)
       \/ HandleMeQuery(v, request)

Next ==
  \/ Start
  \/ Stop
  \/ \E a \in ModuleApp : ModuleCommand(a) \/ DeregisterModule(a)
  \/ \E v \in Viewer : ViewerCommand(v) \/ DeregisterViewer(v)

Spec == Init /\ [][Next]_vars

-----------------------------------------------------------------------------
(* Properties *)

TypeOK ==
  /\ collectorState \in {"STOPPED", "RUNNING"}
  /\ starts \in 0 .. MaxStarts
  /\ clients \subseteq Client
  /\ moduleOf \in [Client -> Module \cup {NoModule}]
  /\ updateMode \subseteq clients \cap Viewer
  /\ known \subseteq Module
  /\ available \subseteq Pair /\ entries \subseteq Pair /\ stored \subseteq Pair
  /\ subs \in [Viewer -> SUBSET Pair]
  /\ watched \in [ModuleApp -> SUBSET Element]
  /\ notified \subseteq ModuleApp
  /\ published \in [Viewer -> SUBSET Pair]
  /\ announced \subseteq Module

\* What AnalysisModuleApplication::readSettings and its standalone twin look for
\* in the DIM name server before they start: no two applications share a name.
UniqueNames ==
  \A a, b \in ModuleApp : ModuleName[a] = ModuleName[b] => a = b

\* Every id in a subscriber list belongs to a client of m_clientMap, so that its
\* exit handler will clean the list: no list holds the id of a process that is
\* gone, which DIM may give to another process later.
SubscribersRegistered ==
  \A v \in Viewer : subs[v] # {} => v \in clients

\* Every module the collector stores elements for has a living module client:
\* the exit of a module application leaves no orphan record behind, also when
\* two applications share the name.
KnownModulesServed ==
  \A m \in known : \E a \in clients : moduleOf[a] = m

\* While the collector serves its first life, the list last sent to the client
\* that serves a module is exactly the list of its elements that somebody
\* subscribes to: no subscription, unsubscription, replacement, query or exit
\* changes the list without the module hearing of it.
WatchedListTold ==
  IsRunning /\ starts = 1 =>
    \A m \in Module : \A a \in GetModuleClientID(m) :
      watched[a] = GetSubscribedList(m)

\* What a handler sends a viewer is subscribed to by that viewer and held by the
\* collector when the handler returns, also on the path of handleMeQuery that
\* subscribes and publishes in one go.
PublicationsSubscribed ==
  \A v \in Viewer : published[v] \subseteq subs[v] \cap stored

\* Clients are what their first command made them, and an id that is not in the
\* map carries no module name.
ClientKinds ==
  \A c \in Client :
    moduleOf[c] = IF c \in clients \cap ModuleApp THEN ModuleName[c] ELSE NoModule

\* What is kept about elements belongs to a known module, and the elements held
\* or subscribed to have an entry: deleting a ModuleMeInfo leaves nothing behind.
StorageOfKnownModules ==
  /\ available \cup entries \subseteq known \X Element
  /\ stored \subseteq entries
  /\ \A v \in Viewer : subs[v] \subseteq entries

\* Before the first start() there are no clients and nothing is known.
NothingBeforeStart ==
  starts = 0 => ~IsRunning /\ clients = {}

\* The inductive invariant of the proofs.
IndInv ==
  /\ TypeOK
  /\ SubscribersRegistered
  /\ KnownModulesServed
  /\ PublicationsSubscribed
  /\ ClientKinds
  /\ StorageOfKnownModules
  /\ NothingBeforeStart

\* A subscription ends by a command of its own client, by the exit of its client,
\* or with the record of the module: never by what another client does.
SubscriptionsLostByOwner ==
  [][\A v \in Viewer :
       LET lost == subs[v] \ subs'[v] IN
       \/ lost = {}
       \/ ModulesOf(lost) \cap known' = {}
       \/ ViewerCommand(v)
       \/ DeregisterViewer(v)]_vars

\* A viewer that is not in update mode is sent elements only in answer to a
\* command of its own.
UnaskedOnlyInUpdateMode ==
  [][\A v \in Viewer :
       published'[v] # {} => v \in updateMode \/ ViewerCommand(v)]_vars

\* A collected element reaches at once every viewer in update mode that
\* subscribes to it, the first time the element is collected included.
CollectedElementsReachSubscribers ==
  [][\A a \in ModuleApp, els \in (SUBSET Element) \ {{}} :
       HandleMeCollectUpdate(a, els) =>
         \A v \in updateMode :
           subs[v] \cap ({ModuleName[a]} \X els) \subseteq published'[v]]_vars

=============================================================================
