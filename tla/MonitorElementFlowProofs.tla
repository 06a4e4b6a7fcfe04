------------------------ MODULE MonitorElementFlowProofs ------------------------
(***************************************************************************)
(* Proofs about the monitor element collector and about the processes      *)
(* around it, for any set of viewers, module applications, modules and     *)
(* elements.                                                               *)
(*                                                                         *)
(* First the collector: IndInv is inductive, with one lemma for the        *)
(* initial state and one for each handler, put together in StepIndInv.     *)
(* The watched list needs more: that names are unique, and that no         *)
(* notification was lost in a stop, so it is proved on top of IndInv,      *)
(* again with one lemma for each handler.                                  *)
(*                                                                         *)
(* Then the flow: the same handlers with the messages between them, which  *)
(* FlowInv looks at from the end: what holds when all of them are handled. *)
(***************************************************************************)
EXTENDS MonitorElementFlow, TLAPS

USE ClientIdAssumption, ModuleNameAssumption, MaxStartsAssumption

-----------------------------------------------------------------------------
(* The inductive invariant. *)

USE DEF IndInv, TypeOK, SubscribersRegistered, KnownModulesServed,
        PublicationsSubscribed, ClientKinds, StorageOfKnownModules,
        NothingBeforeStart, Client, Pair, Nobody, IsRunning,
        lifeVars, clientVars, storageVars, outputVars

LEMMA InitIndInv == Init => IndInv
  BY DEF Init

LEMMA StartIndInv ==
  ASSUME IndInv, Start PROVE IndInv'
  BY DEF Start, NotifyNobody

LEMMA StopIndInv ==
  ASSUME IndInv, Stop PROVE IndInv'
  BY DEF Stop, NotifyNobody

LEMMA AvailableListIndInv ==
  ASSUME IndInv, NEW a \in ModuleApp, NEW list \in SUBSET Element,
         HandleAvailableListUpdate(a, list)
  PROVE  IndInv'
  BY DEF HandleAvailableListUpdate, NotifyWatchedMe, GetSubscribedList

LEMMA CollectIndInv ==
  ASSUME IndInv, NEW a \in ModuleApp, NEW els \in SUBSET Element,
         HandleMeCollectUpdate(a, els)
  PROVE  IndInv'
  BY DEF HandleMeCollectUpdate, NotifyNobody, UpdateClients, GetSubscribedMeList

LEMMA UpdateModeIndInv ==
  ASSUME IndInv, NEW v \in Viewer, NEW mode \in BOOLEAN,
         HandleClientUpdateMode(v, mode)
  PROVE  IndInv'
  BY DEF HandleClientUpdateMode, SetUpdateMode, SendMeUpdate, NotifyNobody,
         GetSubscribedMeList

LEMMA QueryAllIndInv ==
  ASSUME IndInv, NEW v \in Viewer, HandleMeQueryAll(v)
  PROVE  IndInv'
  BY DEF HandleMeQueryAll, RegisterClient, SendMeUpdate, NotifyNobody,
         GetSubscribedMeList

LEMMA RequestListIndInv ==
  ASSUME IndInv, NEW v \in Viewer, NEW request \in SUBSET Pair,
         HandleClientRequestList(v, request)
  PROVE  IndInv'
  BY DEF HandleClientRequestList, RegisterClient, Accepted, NotifyWatchedMe,
         GetSubscribedList

LEMMA SubscriptionIndInv ==
  ASSUME IndInv, NEW v \in Viewer, NEW request \in SUBSET Pair,
         HandleClientSubscription(v, request)
  PROVE  IndInv'
  BY DEF HandleClientSubscription, RegisterClient, Accepted, NotifyWatchedMe,
         GetSubscribedList

LEMMA UnsubscriptionIndInv ==
  ASSUME IndInv, NEW v \in Viewer, NEW request \in SUBSET Pair,
         HandleClientUnsubscription(v, request)
  PROVE  IndInv'
  BY DEF HandleClientUnsubscription, RegisterClient, Unsubscribe,
         NotifyWatchedMe, GetSubscribedList

LEMMA QueryIndInv ==
  ASSUME IndInv, NEW v \in Viewer, NEW request \in SUBSET Pair,
         HandleMeQuery(v, request)
  PROVE  IndInv'
  BY DEF HandleMeQuery, RegisterClient, Accepted, GetMonitorElements,
         NotifyWatchedMe, GetSubscribedList

LEMMA DeregisterModuleIndInv ==
  ASSUME IndInv, NEW a \in ModuleApp, DeregisterModule(a)
  PROVE  IndInv'
  BY DEF DeregisterModule, EraseModule

LEMMA DeregisterViewerIndInv ==
  ASSUME IndInv, NEW v \in Viewer, DeregisterViewer(v)
  PROVE  IndInv'
  BY DEF DeregisterViewer, NotifyWatchedMe, GetSubscribedList

HIDE DEF IndInv, TypeOK, SubscribersRegistered, KnownModulesServed,
         PublicationsSubscribed, ClientKinds, StorageOfKnownModules,
         NothingBeforeStart, Client, Nobody, IsRunning

LEMMA StutterIndInv ==
  ASSUME IndInv, UNCHANGED vars PROVE IndInv'
  BY DEF IndInv, TypeOK, SubscribersRegistered, KnownModulesServed,
         PublicationsSubscribed, ClientKinds, StorageOfKnownModules,
         NothingBeforeStart, IsRunning, vars

\* Every step keeps IndInv.
LEMMA StepIndInv == IndInv /\ [Next]_vars => IndInv'
  <1> SUFFICES ASSUME IndInv, [Next]_vars PROVE IndInv'
    OBVIOUS
  <1>1. CASE Start
    BY <1>1, StartIndInv
  <1>2. CASE Stop
    BY <1>2, StopIndInv
  <1>3. ASSUME NEW a \in ModuleApp, ModuleCommand(a) PROVE IndInv'
    BY <1>3, AvailableListIndInv, CollectIndInv DEF ModuleCommand
  <1>4. ASSUME NEW v \in Viewer, ViewerCommand(v) PROVE IndInv'
    BY <1>4, UpdateModeIndInv, QueryAllIndInv, RequestListIndInv,
       SubscriptionIndInv, UnsubscriptionIndInv, QueryIndInv DEF ViewerCommand
  <1>5. CASE UNCHANGED vars
    BY <1>5, StutterIndInv
  <1> QED
    BY <1>1, <1>2, <1>3, <1>4, <1>5, DeregisterModuleIndInv, DeregisterViewerIndInv
    DEF Next

\* Registration, records, storage and subscriptions agree, whatever handlers run.
THEOREM Invariance == Spec => []IndInv
  BY InitIndInv, StepIndInv, PTL DEF Spec

\* Type correctness.
THEOREM TypeCorrect == Spec => []TypeOK
  BY Invariance, PTL DEF IndInv

\* No subscriber list holds the id of a client that is not registered, so none
\* survives the exit of its process.
THEOREM SubscribersAreRegistered == Spec => []SubscribersRegistered
  BY Invariance, PTL DEF IndInv

\* Every module record has a living module client, also when names are shared.
THEOREM KnownModulesAreServed == Spec => []KnownModulesServed
  BY Invariance, PTL DEF IndInv

\* What is sent to a viewer is subscribed to by it and held by the collector.
THEOREM PublicationsAreSubscribed == Spec => []PublicationsSubscribed
  BY Invariance, PTL DEF IndInv

-----------------------------------------------------------------------------
(* The list a module was told last is the list of its subscribed elements. *)

\* Under unique names the client that serves a module is the only one that
\* carries its name, and nobody else is told about the module.
LEMMA OnlyClientOfItsModule ==
  ASSUME UniqueNames, IndInv, NEW m \in Module
  PROVE  GetModuleClientID(m) = {a \in clients \cap ModuleApp : ModuleName[a] = m}
  <1>1. \A c \in clients : moduleOf[c] = m <=> c \in ModuleApp /\ ModuleName[c] = m
    BY DEF IndInv, TypeOK, ClientKinds, Client
  <1>2. \A b, c \in clients : moduleOf[b] = m /\ moduleOf[c] = m => b = c
    BY <1>1 DEF UniqueNames
  <1>3. \A c \in ModuleApp : c <= c
    <2> \A n \in Nat : n <= n
      OBVIOUS
    <2> QED
      OBVIOUS
  <1>4. \A b, c \in clients : moduleOf[b] = m /\ moduleOf[c] = m => c <= b
    BY <1>1, <1>2, <1>3
  <1> QED
    BY <1>1, <1>4 DEF GetModuleClientID

\* A handler that notifies the modules whose subscribed list it changes, and the
\* module of a new client, keeps every served module up to date.
LEMMA NotifyKeepsToldLists ==
  ASSUME UniqueNames, IndInv, IndInv', NEW modules \in SUBSET Module,
         WatchedListTold, UNCHANGED lifeVars, NotifyWatchedMe(modules),
         \A a \in (clients' \ clients) \cap ModuleApp :
           ModuleName[a] \in modules \cap known',
         \A m \in Module : m \in modules \cap known' \/ UNCHANGED GetSubscribedList(m)
  PROVE  WatchedListTold'
  <1> SUFFICES ASSUME IsRunning', starts' = 1, NEW m \in Module,
                      NEW a \in GetModuleClientID(m)'
               PROVE  watched'[a] = GetSubscribedList(m)'
    BY DEF WatchedListTold
  <1>1. a \in clients' /\ a \in ModuleApp /\ ModuleName[a] = m /\ moduleOf'[a] = m
    BY DEF IndInv, TypeOK, ClientKinds, GetModuleClientID, Client
  <1>2. CASE m \in modules \cap known'
    BY <1>1, <1>2 DEF NotifyWatchedMe
  <1>3. CASE m \notin modules \cap known'
    <2>1. a \notin notified'
      BY <1>1, <1>3 DEF NotifyWatchedMe, GetModuleClientID
    <2>2. watched'[a] = watched[a]
      BY <1>1, <2>1 DEF NotifyWatchedMe
    <2>3. a \in GetModuleClientID(m)
      BY <1>1, <1>3, OnlyClientOfItsModule
    <2>4. IsRunning /\ starts = 1
      BY DEF IsRunning, lifeVars
    <2>5. watched[a] = GetSubscribedList(m)
      BY <2>3, <2>4 DEF WatchedListTold
    <2> QED
      BY <1>3, <2>2, <2>5
  <1> QED
    BY <1>2, <1>3

\* The step of a handler that notifies no one is the special case of no module.
LEMMA NobodyToldIsNoModuleTold ==
  ASSUME IndInv, NotifyNobody PROVE NotifyWatchedMe({})
  BY DEF IndInv, TypeOK, NotifyNobody, NotifyWatchedMe

LEMMA StartToldLists ==
  ASSUME IndInv, Start PROVE WatchedListTold'
  <1>1. starts' = 1 => clients = {}
    BY DEF Start, IndInv, TypeOK, NothingBeforeStart
  <1> QED
    BY <1>1 DEF Start, WatchedListTold, GetModuleClientID, clientVars

LEMMA StopToldLists ==
  ASSUME Stop PROVE WatchedListTold'
  BY DEF Stop, WatchedListTold, IsRunning

LEMMA AvailableListToldLists ==
  ASSUME UniqueNames, IndInv, IndInv', WatchedListTold, NEW a \in ModuleApp,
         NEW list \in SUBSET Element, HandleAvailableListUpdate(a, list)
  PROVE  WatchedListTold'
  <1> DEFINE modules == IF a \notin clients THEN {ModuleName[a]} ELSE {}
  <1>1. modules \in SUBSET Module
    OBVIOUS
  <1>2. NotifyWatchedMe(modules) /\ UNCHANGED <<lifeVars, subs>>
    BY DEF HandleAvailableListUpdate
  <1>3. \A b \in (clients' \ clients) \cap ModuleApp :
          ModuleName[b] \in modules \cap known'
    BY DEF HandleAvailableListUpdate
  <1>4. \A m \in Module : UNCHANGED GetSubscribedList(m)
    BY <1>2 DEF GetSubscribedList
  <1> QED
    BY <1>1, <1>2, <1>3, <1>4, NotifyKeepsToldLists

\* The steps that leave the subscriptions and the module clients alone.
LEMMA SilentToldLists ==
  ASSUME UniqueNames, IndInv, IndInv', WatchedListTold, NotifyNobody,
         UNCHANGED <<lifeVars, subs>>, (clients' \ clients) \cap ModuleApp = {}
  PROVE  WatchedListTold'
  <1>1. NotifyWatchedMe({})
    BY NobodyToldIsNoModuleTold
  <1>2. \A m \in Module : UNCHANGED GetSubscribedList(m)
    BY DEF GetSubscribedList
  <1> QED
    BY <1>1, <1>2, NotifyKeepsToldLists

\* The steps that change subscriptions and notify the known modules of a set that
\* contains those the change is about.
LEMMA SubscriptionsToldLists ==
  ASSUME UniqueNames, IndInv, IndInv', WatchedListTold,
         NEW modules \in SUBSET Module, NotifyWatchedMe(modules),
         UNCHANGED <<lifeVars, known>>, (clients' \ clients) \cap ModuleApp = {},
         \A w \in Viewer, m \in Module, e \in Element :
           \/ m \in modules \cap known
           \/ <<m, e>> \in subs'[w] <=> <<m, e>> \in subs[w]
  PROVE  WatchedListTold'
  <1>1. \A m \in Module : m \in modules \cap known' \/ UNCHANGED GetSubscribedList(m)
    BY DEF GetSubscribedList, IndInv, TypeOK
  <1> QED
    BY <1>1, NotifyKeepsToldLists

LEMMA RequestListToldLists ==
  ASSUME UniqueNames, IndInv, IndInv', WatchedListTold, NEW v \in Viewer,
         NEW request \in SUBSET Pair, HandleClientRequestList(v, request)
  PROVE  WatchedListTold'
  <1> DEFINE touched == ModulesOf(request) \cap known
             after == {p \in subs[v] : p[1] \notin touched} \cup Accepted(request)
  <1>1. touched \in SUBSET Module
    BY DEF IndInv, TypeOK
  <1>2. /\ NotifyWatchedMe(touched) /\ UNCHANGED <<lifeVars, known>>
        /\ subs' = [subs EXCEPT ![v] = after]
    BY DEF HandleClientRequestList
  <1>3. (clients' \ clients) \cap ModuleApp = {}
    BY DEF HandleClientRequestList, RegisterClient
  <1>4. \A p \in Accepted(request) : p[1] \in touched
    BY DEF Accepted, ModulesOf
  <1>5. \A w \in Viewer, m \in Module, e \in Element :
          \/ m \in touched \cap known
          \/ <<m, e>> \in subs'[w] <=> <<m, e>> \in subs[w]
    BY <1>2, <1>4 DEF IndInv, TypeOK
  <1> QED
    BY <1>1, <1>2, <1>3, <1>5, SubscriptionsToldLists

LEMMA SubscriptionToldLists ==
  ASSUME UniqueNames, IndInv, IndInv', WatchedListTold, NEW v \in Viewer,
         NEW request \in SUBSET Pair, HandleClientSubscription(v, request)
  PROVE  WatchedListTold'
  <1> DEFINE new == Accepted(request) \ subs[v]
             after == subs[v] \cup new
  <1>1. ModulesOf(new) \in SUBSET Module
    BY DEF Accepted, ModulesOf, IndInv, TypeOK
  <1>2. /\ NotifyWatchedMe(ModulesOf(new)) /\ UNCHANGED <<lifeVars, known>>
        /\ subs' = [subs EXCEPT ![v] = after]
    BY DEF HandleClientSubscription
  <1>3. (clients' \ clients) \cap ModuleApp = {}
    BY DEF HandleClientSubscription, RegisterClient
  <1>4. \A p \in new : p[1] \in ModulesOf(new) \cap known
    BY DEF Accepted, ModulesOf
  <1>5. \A w \in Viewer, m \in Module, e \in Element :
          \/ m \in ModulesOf(new) \cap known
          \/ <<m, e>> \in subs'[w] <=> <<m, e>> \in subs[w]
    BY <1>2, <1>4 DEF IndInv, TypeOK
  <1> QED
    BY <1>1, <1>2, <1>3, <1>5, SubscriptionsToldLists

LEMMA QueryToldLists ==
  ASSUME UniqueNames, IndInv, IndInv', WatchedListTold, NEW v \in Viewer,
         NEW request \in SUBSET Pair, HandleMeQuery(v, request)
  PROVE  WatchedListTold'
  <1> DEFINE new == Accepted(request) \ subs[v]
             after == subs[v] \cup new
  <1>1. ModulesOf(new) \in SUBSET Module
    BY DEF Accepted, ModulesOf, IndInv, TypeOK
  <1>2. /\ NotifyWatchedMe(ModulesOf(new)) /\ UNCHANGED <<lifeVars, known>>
        /\ subs' = [subs EXCEPT ![v] = after]
    BY DEF HandleMeQuery
  <1>3. (clients' \ clients) \cap ModuleApp = {}
    BY DEF HandleMeQuery, RegisterClient
  <1>4. \A p \in new : p[1] \in ModulesOf(new) \cap known
    BY DEF Accepted, ModulesOf
  <1>5. \A w \in Viewer, m \in Module, e \in Element :
          \/ m \in ModulesOf(new) \cap known
          \/ <<m, e>> \in subs'[w] <=> <<m, e>> \in subs[w]
    BY <1>2, <1>4 DEF IndInv, TypeOK
  <1> QED
    BY <1>1, <1>2, <1>3, <1>5, SubscriptionsToldLists

LEMMA UnsubscriptionToldLists ==
  ASSUME UniqueNames, IndInv, IndInv', WatchedListTold, NEW v \in Viewer,
         NEW request \in SUBSET Pair, HandleClientUnsubscription(v, request)
  PROVE  WatchedListTold'
  <1> DEFINE gone == {p \in request : p[1] \in known /\ (p \in subs[v] \/ p \notin entries)}
             after == subs[v] \ gone
  <1>1. ModulesOf(gone) \in SUBSET Module
    BY DEF ModulesOf, IndInv, TypeOK
  <1>2. /\ NotifyWatchedMe(ModulesOf(gone)) /\ UNCHANGED <<lifeVars, known>>
        /\ subs' = [subs EXCEPT ![v] = after]
    BY DEF HandleClientUnsubscription, Unsubscribe
  <1>3. (clients' \ clients) \cap ModuleApp = {}
    BY DEF HandleClientUnsubscription, RegisterClient
  <1>4. \A p \in gone : p[1] \in ModulesOf(gone) \cap known
    BY DEF ModulesOf
  <1>5. \A w \in Viewer, m \in Module, e \in Element :
          \/ m \in ModulesOf(gone) \cap known
          \/ <<m, e>> \in subs'[w] <=> <<m, e>> \in subs[w]
    BY <1>2, <1>4 DEF IndInv, TypeOK
  <1> QED
    BY <1>1, <1>2, <1>3, <1>5, SubscriptionsToldLists

LEMMA DeregisterViewerToldLists ==
  ASSUME UniqueNames, IndInv, IndInv', WatchedListTold, NEW v \in Viewer,
         DeregisterViewer(v)
  PROVE  WatchedListTold'
  <1>1. CASE IsRunning
    <2>1. ModulesOf(subs[v]) \in SUBSET Module
      BY DEF ModulesOf, IndInv, TypeOK
    <2>2. \A p \in subs[v] : p[1] \in ModulesOf(subs[v]) \cap known
      BY DEF ModulesOf, IndInv, TypeOK, StorageOfKnownModules
    <2>3. \A w \in Viewer, m \in Module, e \in Element :
            \/ m \in ModulesOf(subs[v]) \cap known
            \/ <<m, e>> \in subs'[w] <=> <<m, e>> \in subs[w]
      BY <2>2 DEF DeregisterViewer, IndInv, TypeOK
    <2>4. /\ NotifyWatchedMe(ModulesOf(subs[v])) /\ UNCHANGED <<lifeVars, known>>
          /\ (clients' \ clients) \cap ModuleApp = {}
      BY <1>1 DEF DeregisterViewer, storageVars
    <2> QED
      BY <2>1, <2>3, <2>4, SubscriptionsToldLists
  <1>2. CASE ~IsRunning
    BY <1>2 DEF DeregisterViewer, lifeVars, IsRunning, WatchedListTold
  <1> QED
    BY <1>1, <1>2

\* The exit of a module client takes the record of its module with it, and
\* under unique names nobody is left who would have to hear of that.
LEMMA DeregisterModuleToldLists ==
  ASSUME UniqueNames, IndInv, IndInv', WatchedListTold, NEW a \in ModuleApp,
         DeregisterModule(a)
  PROVE  WatchedListTold'
  <1> SUFFICES ASSUME IsRunning', starts' = 1, NEW m \in Module,
                      NEW b \in GetModuleClientID(m)'
               PROVE  watched'[b] = GetSubscribedList(m)'
    BY DEF WatchedListTold
  <1>1. b \in clients' /\ b \in ModuleApp /\ ModuleName[b] = m
    BY DEF IndInv, TypeOK, ClientKinds, GetModuleClientID, Client
  <1>2. b # a /\ b \in clients
    BY <1>1 DEF DeregisterModule
  <1>3. moduleOf[a] = ModuleName[a] /\ ModuleName[a] # m
    BY <1>1, <1>2 DEF UniqueNames, DeregisterModule, IndInv, ClientKinds, Client
  <1>4. watched'[b] = watched[b]
    BY <1>1, <1>2 DEF DeregisterModule, IndInv, TypeOK
  <1>5. UNCHANGED GetSubscribedList(m)
    BY <1>3 DEF DeregisterModule, EraseModule, GetSubscribedList
  <1>6. IsRunning /\ starts = 1 /\ b \in GetModuleClientID(m)
    BY <1>1, <1>2, OnlyClientOfItsModule DEF DeregisterModule, lifeVars, IsRunning
  <1> QED
    BY <1>4, <1>5, <1>6 DEF WatchedListTold

LEMMA StepToldLists ==
  ASSUME UniqueNames, IndInv, IndInv', WatchedListTold, [Next]_vars
  PROVE  WatchedListTold'
  <1>1. CASE Start
    BY <1>1, StartToldLists
  <1>2. CASE Stop
    BY <1>2, StopToldLists
  <1>3. ASSUME NEW a \in ModuleApp, NEW els \in SUBSET Element,
               HandleMeCollectUpdate(a, els)
        PROVE  WatchedListTold'
    BY <1>3, SilentToldLists DEF HandleMeCollectUpdate
  <1>4. ASSUME NEW a \in ModuleApp, ModuleCommand(a) PROVE WatchedListTold'
    BY <1>3, <1>4, AvailableListToldLists DEF ModuleCommand
  <1>5. ASSUME NEW v \in Viewer, NEW mode \in BOOLEAN,
               HandleClientUpdateMode(v, mode)
        PROVE  WatchedListTold'
    BY <1>5, SilentToldLists DEF HandleClientUpdateMode
  <1>6. ASSUME NEW v \in Viewer, HandleMeQueryAll(v) PROVE WatchedListTold'
    BY <1>6, SilentToldLists DEF HandleMeQueryAll, RegisterClient
  <1>7. ASSUME NEW v \in Viewer, ViewerCommand(v) PROVE WatchedListTold'
    BY <1>5, <1>6, <1>7, RequestListToldLists, SubscriptionToldLists,
       UnsubscriptionToldLists, QueryToldLists DEF ViewerCommand
  <1>8. CASE UNCHANGED vars
    BY <1>8 DEF vars, WatchedListTold, IsRunning, GetModuleClientID,
                GetSubscribedList
  <1> QED
    BY <1>1, <1>2, <1>4, <1>7, <1>8, DeregisterModuleToldLists,
       DeregisterViewerToldLists DEF Next

\* No handler changes the subscribed elements of a module behind its back: under
\* unique names, every module was last told exactly the list that holds.
THEOREM WatchedListExact ==
  ASSUME UniqueNames PROVE Spec => []WatchedListTold
  <1>1. Init => WatchedListTold
    BY DEF Init, WatchedListTold
  <1>2. IndInv /\ IndInv' /\ WatchedListTold /\ [Next]_vars => WatchedListTold'
    BY StepToldLists
  <1> QED
    BY <1>1, <1>2, Invariance, PTL DEF Spec

-----------------------------------------------------------------------------
(* What a step may never do. *)

\* A viewer's command concerns the subscriptions and the mail of no other viewer.
LEMMA ViewerCommandIsPrivate ==
  ASSUME IndInv, NEW v \in Viewer, ViewerCommand(v), NEW w \in Viewer, w # v
  PROVE  subs'[w] = subs[w] /\ published'[w] = {}
  <1> USE DEF IndInv, TypeOK, Nobody, SendMeUpdate
  <1>1. ASSUME NEW mode \in BOOLEAN, HandleClientUpdateMode(v, mode)
        PROVE  subs'[w] = subs[w] /\ published'[w] = {}
    BY <1>1 DEF HandleClientUpdateMode
  <1>2. CASE HandleMeQueryAll(v)
    BY <1>2 DEF HandleMeQueryAll
  <1>3. ASSUME NEW request \in SUBSET Pair,
               \/ HandleClientRequestList(v, request)
               \/ HandleClientSubscription(v, request)
               \/ HandleClientUnsubscription(v, request)
               \/ HandleMeQuery(v, request)
        PROVE  subs'[w] = subs[w] /\ published'[w] = {}
    BY <1>3 DEF HandleClientRequestList, HandleClientSubscription,
       HandleClientUnsubscription, HandleMeQuery, Unsubscribe
  <1> QED
    BY <1>1, <1>2, <1>3 DEF ViewerCommand

LEMMA ModuleCommandKeepsSubscriptions ==
  ASSUME NEW a \in ModuleApp, ModuleCommand(a), NEW v \in Viewer
  PROVE  UNCHANGED subs /\ (published'[v] # {} => v \in updateMode)
  BY DEF ModuleCommand, HandleAvailableListUpdate, HandleMeCollectUpdate,
         UpdateClients, Nobody

\* A subscription is lost by a command of its own client, with its client or with
\* the record of the module.
THEOREM SubscriptionsOnlyLostByOwner == Spec => SubscriptionsLostByOwner
  <1> DEFINE Lost(v) == subs[v] \ subs'[v]
             Excused(v) == \/ Lost(v) = {} \/ ModulesOf(Lost(v)) \cap known' = {}
                           \/ ViewerCommand(v) \/ DeregisterViewer(v)
  <1>1. ASSUME IndInv, Next PROVE \A v \in Viewer : Excused(v)
    <2> SUFFICES ASSUME NEW v \in Viewer PROVE Excused(v)
      OBVIOUS
    <2>1. CASE Start \/ Stop
      BY <2>1 DEF Start, Stop
    <2>2. ASSUME NEW a \in ModuleApp, ModuleCommand(a) PROVE Excused(v)
      BY <2>2, ModuleCommandKeepsSubscriptions
    <2>3. ASSUME NEW a \in ModuleApp, DeregisterModule(a) PROVE Excused(v)
      <3>1. /\ known' = known \ {moduleOf[a]}
            /\ \A p \in Lost(v) : p[1] = moduleOf[a]
        BY <2>3 DEF DeregisterModule, EraseModule
      <3> QED
        BY <3>1 DEF ModulesOf
    <2>4. ASSUME NEW w \in Viewer, ViewerCommand(w) PROVE Excused(v)
      BY <1>1, <2>4, ViewerCommandIsPrivate
    <2>5. ASSUME NEW w \in Viewer, DeregisterViewer(w) PROVE Excused(v)
      BY <1>1, <2>5 DEF DeregisterViewer, IndInv, TypeOK
    <2> QED
      BY <1>1, <2>1, <2>2, <2>3, <2>4, <2>5 DEF Next
  <1>2. IndInv /\ [Next]_vars =>
          [\A v \in Viewer :
             LET lost == subs[v] \ subs'[v] IN
             \/ lost = {}
             \/ ModulesOf(lost) \cap known' = {}
             \/ ViewerCommand(v)
             \/ DeregisterViewer(v)]_vars
    BY <1>1
  <1> QED
    BY <1>2, Invariance, PTL DEF Spec, SubscriptionsLostByOwner

\* A viewer out of update mode is sent nothing it did not ask for.
THEOREM NothingUnasked == Spec => UnaskedOnlyInUpdateMode
  <1> DEFINE Asked(v) == published'[v] # {} => v \in updateMode \/ ViewerCommand(v)
  <1>1. ASSUME IndInv, Next PROVE \A v \in Viewer : Asked(v)
    <2> SUFFICES ASSUME NEW v \in Viewer PROVE Asked(v)
      OBVIOUS
    <2>1. CASE Start \/ Stop
      BY <2>1 DEF Start, Stop, Nobody
    <2>2. ASSUME NEW a \in ModuleApp, ModuleCommand(a) PROVE Asked(v)
      BY <2>2, ModuleCommandKeepsSubscriptions
    <2>3. ASSUME NEW a \in ModuleApp, DeregisterModule(a) PROVE Asked(v)
      BY <2>3 DEF DeregisterModule, Nobody
    <2>4. ASSUME NEW w \in Viewer, ViewerCommand(w) PROVE Asked(v)
      BY <1>1, <2>4, ViewerCommandIsPrivate
    <2>5. ASSUME NEW w \in Viewer, DeregisterViewer(w) PROVE Asked(v)
      BY <2>5 DEF DeregisterViewer, Nobody
    <2> QED
      BY <1>1, <2>1, <2>2, <2>3, <2>4, <2>5 DEF Next
  <1>2. IndInv /\ [Next]_vars => [\A v \in Viewer : Asked(v)]_vars
    BY <1>1
  <1> QED
    BY <1>2, Invariance, PTL DEF Spec, UnaskedOnlyInUpdateMode

\* What is collected reaches its subscribers in update mode in the same step.
THEOREM CollectedElementsDelivered == Spec => CollectedElementsReachSubscribers
  <1> DEFINE Delivered ==
        \A a \in ModuleApp, els \in (SUBSET Element) \ {{}} :
          HandleMeCollectUpdate(a, els) =>
            \A v \in updateMode :
              subs[v] \cap ({ModuleName[a]} \X els) \subseteq published'[v]
  <1>1. ASSUME IndInv PROVE Delivered
    <2> SUFFICES ASSUME NEW a \in ModuleApp, NEW els \in SUBSET Element,
                        HandleMeCollectUpdate(a, els), NEW v \in updateMode,
                        NEW p \in subs[v] \cap ({ModuleName[a]} \X els)
                 PROVE  p \in published'[v]
      OBVIOUS
    <2>1. v \in Viewer /\ v \in clients
      BY <1>1 DEF IndInv, TypeOK
    <2>2. ModuleName[a] \in known
      BY <1>1, <2>1 DEF IndInv, TypeOK, StorageOfKnownModules
    <2>3. p \in subs'[v] /\ p \in stored'
      BY <2>2 DEF HandleMeCollectUpdate
    <2> QED
      BY <2>1, <2>2, <2>3
      DEF HandleMeCollectUpdate, UpdateClients, GetSubscribedMeList
  <1>2. IndInv /\ [Next]_vars => [Delivered]_vars
    BY <1>1
  <1> QED
    BY <1>2, Invariance, PTL DEF Spec, CollectedElementsReachSubscribers

-----------------------------------------------------------------------------
(* Queues. *)

HIDE DEF Pair, lifeVars, clientVars, storageVars, outputVars

\* A message more at the end of a queue.
LEMMA AppendLast ==
  ASSUME NEW S, NEW q \in Seq(S), NEW m \in S
  PROVE  /\ Append(q, m) \in Seq(S) /\ Len(q) \in Nat /\ Len(Append(q, m)) = Len(q) + 1
         /\ Append(q, m)[Len(q) + 1] = m
         /\ \A i \in 1 .. Len(q) : Append(q, m)[i] = q[i]
OBVIOUS

LEMMA NoneAfterAppend ==
  ASSUME NEW S, NEW q \in Seq(S), NEW m \in S, NEW T, NEW i \in 0 .. Len(q)
  PROVE  NoneAfter(Append(q, m), i, T) <=> NoneAfter(q, i, T) /\ m \notin T
<1>1. /\ Len(q) \in Nat /\ Len(Append(q, m)) = Len(q) + 1
      /\ Append(q, m)[Len(q) + 1] = m
      /\ \A j \in 1 .. Len(q) : Append(q, m)[j] = q[j]
  BY AppendLast
<1> DEFINE r == Append(q, m)
<1> HIDE DEF r
<1> SUFFICES NoneAfter(r, i, T) <=> NoneAfter(q, i, T) /\ m \notin T
  BY DEF r
<1>2. /\ Len(q) \in Nat /\ Len(r) = Len(q) + 1
      /\ r[Len(q) + 1] = m
      /\ \A j \in 1 .. Len(q) : r[j] = q[j]
  BY <1>1 DEF r
<1> QED
  BY <1>2 DEF NoneAfter

\* A fact that prevails still does with a message more that is not against it, and it
\* does with a message that establishes it.
LEMMA PrevailsAppend ==
  ASSUME NEW S, NEW q \in Seq(S), NEW m \in S, NEW for, NEW against,
         NEW fact \in BOOLEAN
  PROVE  /\ Prevails(fact, q, for, against) /\ m \notin against
              => Prevails(fact, Append(q, m), for, against)
         /\ m \in for => Prevails(fact, Append(q, m), for, against)
<1> DEFINE r == Append(q, m)
<1>1. /\ Len(q) \in Nat /\ Len(r) = Len(q) + 1 /\ r[Len(q) + 1] = m
      /\ \A j \in 1 .. Len(q) : r[j] = q[j]
  BY AppendLast
<1>2. \A i \in 0 .. Len(q) : NoneAfter(r, i, against) <=> NoneAfter(q, i, against) /\ m \notin against
  BY NoneAfterAppend
<1> HIDE DEF r
<1>3. NoneAfter(r, Len(q) + 1, against)
  BY <1>1 DEF NoneAfter
<1>4. ASSUME m \in for PROVE Prevails(fact, r, for, against)
  BY <1>1, <1>3, <1>4 DEF Prevails
<1>5. ASSUME Prevails(fact, q, for, against), m \notin against
      PROVE  Prevails(fact, r, for, against)
  <2>1. CASE fact /\ NoneAfter(q, 0, against)
    BY <1>1, <1>2, <1>5, <2>1 DEF Prevails
  <2>2. ASSUME NEW i \in 1 .. Len(q), q[i] \in for, NoneAfter(q, i, against)
        PROVE  Prevails(fact, r, for, against)
    BY <1>1, <1>2, <1>5, <2>2 DEF Prevails
  <2> QED
    BY <1>5, <2>1, <2>2 DEF Prevails
<1> QED
  BY <1>4, <1>5 DEF r

\* The first message of a queue is handled.
LEMMA NoneAfterTail ==
  ASSUME NEW S, NEW q \in Seq(S), q # <<>>, NEW T
  PROVE  /\ \A i \in Nat : NoneAfter(Tail(q), i, T) <=> NoneAfter(q, i + 1, T)
         /\ NoneAfter(q, 0, T) <=> Head(q) \notin T /\ NoneAfter(q, 1, T)
<1> DEFINE r == Tail(q)
<1>1. /\ Len(q) \in Nat \ {0} /\ Len(r) = Len(q) - 1 /\ Head(q) = q[1]
      /\ \A j \in 1 .. Len(r) : r[j] = q[j + 1]
  OBVIOUS
<1> HIDE DEF r
<1>2. ASSUME NEW i \in Nat PROVE NoneAfter(r, i, T) <=> NoneAfter(q, i + 1, T)
  <2>1. ASSUME NoneAfter(r, i, T), NEW j \in (i + 2) .. Len(q) PROVE q[j] \notin T
    <3>1. j - 1 \in (i + 1) .. Len(r) /\ r[j - 1] = q[j]
      BY <1>1
    <3> QED
      BY <2>1, <3>1 DEF NoneAfter
  <2>2. ASSUME NoneAfter(q, i + 1, T), NEW j \in (i + 1) .. Len(r) PROVE r[j] \notin T
    <3>1. j + 1 \in (i + 2) .. Len(q) /\ r[j] = q[j + 1]
      BY <1>1
    <3> QED
      BY <2>2, <3>1 DEF NoneAfter
  <2> QED
    BY <2>1, <2>2 DEF NoneAfter
<1>3. NoneAfter(q, 0, T) <=> Head(q) \notin T /\ NoneAfter(q, 1, T)
  BY <1>1 DEF NoneAfter
<1> QED
  BY <1>2, <1>3 DEF r

\* A fact that prevails does so with one message less, if the handling of that message
\* does what the message is for and ends the fact only if it is against it.
LEMMA PrevailsTail ==
  ASSUME NEW S, NEW q \in Seq(S), q # <<>>, NEW for, NEW against,
         NEW fact \in BOOLEAN, NEW next \in BOOLEAN, Prevails(fact, q, for, against),
         Head(q) \in for => next,
         fact /\ Head(q) \notin against => next
  PROVE  Prevails(next, Tail(q), for, against)
<1> DEFINE r == Tail(q)
<1>1. /\ Len(q) \in Nat \ {0} /\ Len(r) = Len(q) - 1 /\ Head(q) = q[1]
      /\ \A j \in 1 .. Len(r) : r[j] = q[j + 1]
  OBVIOUS
<1>2. /\ \A i \in Nat : NoneAfter(r, i, against) <=> NoneAfter(q, i + 1, against)
      /\ NoneAfter(q, 0, against) <=> Head(q) \notin against /\ NoneAfter(q, 1, against)
  BY NoneAfterTail
<1> HIDE DEF r
<1>3. CASE fact /\ NoneAfter(q, 0, against)
  <2>1. 0 \in Nat /\ 0 + 1 = 1
    OBVIOUS
  <2>2. next /\ NoneAfter(r, 0, against)
    BY <1>2, <1>3, <2>1
  <2> QED
    BY <2>2 DEF Prevails, r
<1>4. ASSUME NEW i \in 1 .. Len(q), q[i] \in for, NoneAfter(q, i, against)
      PROVE  Prevails(next, r, for, against)
  <2>1. CASE i = 1
    BY <1>1, <1>2, <1>4, <2>1 DEF Prevails
  <2>2. CASE i # 1
    <3>1. i - 1 \in 1 .. Len(r) /\ r[i - 1] = q[i] /\ i - 1 \in Nat /\ (i - 1) + 1 = i
      BY <1>1, <2>2
    <3> QED
      BY <1>2, <1>4, <3>1 DEF Prevails
  <2> QED
    BY <2>1, <2>2
<1> QED
  BY <1>3, <1>4 DEF Prevails, r

-----------------------------------------------------------------------------
(* Messages. *)

LEMMA InfosTyped ==
  /\ \A b \in BOOLEAN : StateInfo(b) \in Info
  /\ \A list \in SUBSET Element : [svc |-> "NOTIFY_WATCHED_ME_SVC", list |-> list] \in Info
  /\ \A pairs \in SUBSET Pair :
       /\ [svc |-> "ME_UPDATE_SVC", elements |-> pairs] \in Info
       /\ [svc |-> "NAME_LIST_RPC", elements |-> pairs] \in Info
BY DEF Info, StateInfo

LEMMA CommandsTyped ==
  /\ \A els \in SUBSET Element :
       /\ [cmd |-> "AVAILABLE_ME_CMD", els |-> els] \in Command
       /\ [cmd |-> "COLLECT_ME_CMD", els |-> els] \in Command
  /\ \A mode \in BOOLEAN : [cmd |-> "SET_UPDATE_MODE_CMD", mode |-> mode] \in Command
  /\ \A name \in {"SUBSCRIBE_CMD", "UNSUBSCRIBE_CMD", "SET_SUBSCRIPTION_CMD",
                   "QUERY_ME_CMD", "NAME_LIST_RPC"}, request \in SUBSET Pair :
       [cmd |-> name, request |-> request] \in Command
BY DEF Command

\* What the fields of a command are, by its kind.
LEMMA CommandFields ==
  ASSUME NEW m \in Command
  PROVE  /\ m.cmd \in {"AVAILABLE_ME_CMD", "COLLECT_ME_CMD"} => m.els \in SUBSET Element
         /\ m.cmd = "SET_UPDATE_MODE_CMD" => m.mode \in BOOLEAN
         /\ m.cmd \notin {"AVAILABLE_ME_CMD", "COLLECT_ME_CMD", "SET_UPDATE_MODE_CMD"}
              => m.request \in SUBSET Pair
BY DEF Command

LEMMA InfoFields ==
  ASSUME NEW m \in Info
  PROVE  /\ m.svc = "NOTIFY_WATCHED_ME_SVC" => m.list \in SUBSET Element
         /\ m.svc = "COLLECTOR_STATE_SVC" => m.running \in BOOLEAN /\ m = StateInfo(m.running)
         /\ m.svc \in {"ME_UPDATE_SVC", "NAME_LIST_RPC"} => m.elements \in SUBSET Pair
BY DEF Info, StateInfo

LEMMA ChannelTypes ==
  ASSUME FlowTypeOK, NEW c \in Client
  PROVE  /\ toCollector[c] \in Seq(Command) /\ toClient[c] \in Seq(Info)
         /\ Len(toCollector[c]) \in Nat /\ Len(toClient[c]) \in Nat
BY DEF FlowTypeOK

\* No process is both.
LEMMA ClientsApart ==
  /\ Viewer \subseteq Client /\ ModuleApp \subseteq Client
  /\ \A c \in Client : c \in Viewer <=> c \notin ModuleApp
BY ClientIdAssumption DEF Client

\* A command is added to those under way, if there is a connection.
LEMMA CommandSent ==
  ASSUME FlowTypeOK, CommandKinds, NEW c \in Client, NEW m \in Command, SendCommand(c, m),
         m.cmd \in {"AVAILABLE_ME_CMD", "COLLECT_ME_CMD"} <=> c \in ModuleApp
  PROVE  /\ toCollector' \in [Client -> Seq(Command)] /\ CommandKinds'
         /\ \A d \in Client : d # c => toCollector'[d] = toCollector[d]
         /\ c \in link => toCollector'[c] = Append(toCollector[c], m)
         /\ c \notin link => toCollector' = toCollector
<1>1. toCollector \in [Client -> Seq(Command)] /\ toCollector[c] \in Seq(Command)
  BY DEF FlowTypeOK
<1>2. Append(toCollector[c], m) \in Seq(Command)
  BY <1>1
<1>3. CASE c \notin link
  <2>1. toCollector' = toCollector
    BY <1>3 DEF SendCommand
  <2> QED
    BY <1>1, <1>3, <2>1 DEF CommandKinds
<1>4. CASE c \in link
  <2>1. toCollector' = [toCollector EXCEPT ![c] = Append(toCollector[c], m)]
    BY <1>4 DEF SendCommand
  <2>2. /\ toCollector' \in [Client -> Seq(Command)]
        /\ toCollector'[c] = Append(toCollector[c], m)
        /\ \A d \in Client : d # c => toCollector'[d] = toCollector[d]
    BY <1>1, <1>2, <2>1
  <2>3. ASSUME NEW i \in 1 .. Len(toCollector'[c])
        PROVE  toCollector'[c][i].cmd \in {"AVAILABLE_ME_CMD", "COLLECT_ME_CMD"}
                 <=> c \in ModuleApp
    <3>1. /\ Len(toCollector[c]) \in Nat /\ Len(toCollector'[c]) = Len(toCollector[c]) + 1
          /\ toCollector'[c][Len(toCollector[c]) + 1] = m
          /\ \A j \in 1 .. Len(toCollector[c]) : toCollector'[c][j] = toCollector[c][j]
      BY <1>1, <2>2, AppendLast
    <3>2. CASE i = Len(toCollector[c]) + 1
      BY <3>1, <3>2
    <3>3. CASE i \in 1 .. Len(toCollector[c])
      BY <3>1, <3>3 DEF CommandKinds
    <3> QED
      BY <3>1, <3>2, <3>3
  <2>4. CommandKinds'
    <3> SUFFICES ASSUME NEW d \in Client, NEW i \in 1 .. Len(toCollector'[d])
                 PROVE  toCollector'[d][i].cmd \in {"AVAILABLE_ME_CMD", "COLLECT_ME_CMD"}
                          <=> d \in ModuleApp
      BY DEF CommandKinds
    <3>1. CASE d = c
      BY <2>3, <3>1
    <3>2. CASE d # c
      BY <2>2, <3>2 DEF CommandKinds
    <3> QED
      BY <3>1, <3>2
  <2> QED
    BY <1>4, <2>2, <2>4
<1> QED
  BY <1>3, <1>4

\* One command less under way.
LEMMA CommandTaken ==
  ASSUME FlowTypeOK, CommandKinds, NEW c \in Client, toCollector[c] # <<>>,
         toCollector' = [toCollector EXCEPT ![c] = Tail(@)]
  PROVE  /\ toCollector' \in [Client -> Seq(Command)] /\ CommandKinds'
         /\ Head(toCollector[c]) \in Command
         /\ Head(toCollector[c]).cmd \in {"AVAILABLE_ME_CMD", "COLLECT_ME_CMD"}
              <=> c \in ModuleApp
<1>1. toCollector \in [Client -> Seq(Command)] /\ toCollector[c] \in Seq(Command)
  BY DEF FlowTypeOK
<1>2. /\ Head(toCollector[c]) \in Command /\ Head(toCollector[c]) = toCollector[c][1]
      /\ Len(toCollector[c]) \in Nat \ {0}
      /\ Tail(toCollector[c]) \in Seq(Command)
      /\ Len(Tail(toCollector[c])) = Len(toCollector[c]) - 1
      /\ \A i \in 1 .. Len(Tail(toCollector[c])) : Tail(toCollector[c])[i] = toCollector[c][i + 1]
  BY <1>1
<1>3. \A d \in Client : toCollector'[d] = IF d = c THEN Tail(toCollector[c]) ELSE toCollector[d]
  BY <1>1
<1>4. 1 \in 1 .. Len(toCollector[c])
  BY <1>2
<1>5. \A i \in 1 .. Len(Tail(toCollector[c])) : i + 1 \in 1 .. Len(toCollector[c])
  BY <1>2
<1>6. CommandKinds'
  BY <1>2, <1>3, <1>5 DEF CommandKinds
<1>7. toCollector' \in [Client -> Seq(Command)]
  BY <1>1, <1>2
<1> QED
  BY <1>2, <1>4, <1>6, <1>7 DEF CommandKinds

-----------------------------------------------------------------------------
(* Types of the flow. *)

\* The collector's invariant in a step in which it does nothing.
LEMMA IdleIndInv ==
  ASSUME IndInv, notified' = {}, published' = Nobody, announced' = {}, UNCHANGED collectorVars
  PROVE  IndInv' /\ (WatchedListTold => WatchedListTold')
<1> USE DEF collectorVars, lifeVars, clientVars, storageVars, Nobody, Client
<1>1. IndInv'
  BY DEF IndInv, TypeOK, SubscribersRegistered, KnownModulesServed, PublicationsSubscribed,
         ClientKinds, StorageOfKnownModules, NothingBeforeStart, IsRunning
<1>2. WatchedListTold => WatchedListTold'
  BY DEF WatchedListTold, IsRunning, GetModuleClientID, GetSubscribedList
<1> QED
  BY <1>1, <1>2

\* What a handler does, whichever it is.
LEMMA HandlerIndInv ==
  ASSUME IndInv, NEW c \in Client, NEW m \in Command, HandleCommand(c, m),
         m.cmd \in {"AVAILABLE_ME_CMD", "COLLECT_ME_CMD"} <=> c \in ModuleApp
  PROVE  IndInv' /\ UNCHANGED lifeVars
<1>1. CASE c \in ModuleApp
  <2>1. m.els \in SUBSET Element
    BY <1>1, CommandFields
  <2>2. HandleAvailableListUpdate(c, m.els) \/ HandleMeCollectUpdate(c, m.els)
    BY <1>1 DEF HandleCommand
  <2> QED
    BY <1>1, <2>1, <2>2, AvailableListIndInv, CollectIndInv
       DEF HandleAvailableListUpdate, HandleMeCollectUpdate
<1>2. CASE c \in Viewer
  <2>1. c \notin ModuleApp
    BY <1>2, ClientsApart
  <2>2. CASE HandleClientUpdateMode(c, m.mode) /\ m.cmd = "SET_UPDATE_MODE_CMD"
    BY <1>2, <2>2, CommandFields, UpdateModeIndInv DEF HandleClientUpdateMode
  <2>3. CASE HandleMeQueryAll(c)
    BY <1>2, <2>3, QueryAllIndInv DEF HandleMeQueryAll
  <2>4. CASE /\ m.cmd \notin {"AVAILABLE_ME_CMD", "COLLECT_ME_CMD", "SET_UPDATE_MODE_CMD"}
             /\ \/ HandleClientSubscription(c, m.request)
                \/ HandleClientUnsubscription(c, m.request)
                \/ HandleClientRequestList(c, m.request)
                \/ HandleMeQuery(c, m.request)
    <3>1. m.request \in SUBSET Pair
      BY <2>4, CommandFields
    <3> QED
      BY <1>2, <2>4, <3>1, SubscriptionIndInv, UnsubscriptionIndInv, RequestListIndInv, QueryIndInv
         DEF HandleClientSubscription, HandleClientUnsubscription, HandleClientRequestList,
             HandleMeQuery
  <2> QED
    BY <2>1, <2>2, <2>3, <2>4 DEF HandleCommand
<1> QED
  BY <1>1, <1>2, ClientsApart

\* What leaves for a client in a step of a handler.
LEMMA EmittedIs ==
  ASSUME FlowTypeOK, IndInv', NEW c \in Client
  PROVE  /\ Emitted(c) \in Seq(Info)
         /\ c \in ModuleApp =>
              toClient[c] \o Emitted(c) =
                IF c \in link /\ c \in notified'
                THEN Append(toClient[c], [svc |-> "NOTIFY_WATCHED_ME_SVC", list |-> watched'[c]])
                ELSE toClient[c]
         /\ c \in Viewer =>
              \/ toClient[c] \o Emitted(c) = toClient[c]
              \/ \E pairs \in SUBSET Pair :
                   toClient[c] \o Emitted(c) =
                     Append(toClient[c], [svc |-> "ME_UPDATE_SVC", elements |-> pairs])
<1>1. /\ notified' \subseteq ModuleApp
      /\ \A a \in ModuleApp : watched'[a] \in SUBSET Element
      /\ \A v \in Viewer : published'[v] \in SUBSET Pair
  BY DEF IndInv, TypeOK
<1>2. toClient[c] \in Seq(Info)
  BY ChannelTypes
<1>3. \A m \in Info : <<m>> \in Seq(Info) /\ toClient[c] \o <<m>> = Append(toClient[c], m)
  BY <1>2
<1>4. <<>> \in Seq(Info) /\ toClient[c] \o <<>> = toClient[c]
  BY <1>2
<1>5. CASE c \in ModuleApp
  <2>1. c \notin Viewer
    BY <1>5, ClientsApart
  <2>2. [svc |-> "NOTIFY_WATCHED_ME_SVC", list |-> watched'[c]] \in Info
    BY <1>1, <1>5, InfosTyped
  <2> QED
    BY <1>3, <1>4, <1>5, <2>1, <2>2 DEF Emitted
<1>6. CASE c \in Viewer
  <2>1. c \notin ModuleApp /\ c \notin notified'
    BY <1>1, <1>6, ClientsApart
  <2>2. [svc |-> "ME_UPDATE_SVC", elements |-> published'[c]] \in Info
    BY <1>1, <1>6, InfosTyped
  <2> QED
    BY <1>1, <1>3, <1>4, <1>6, <2>1, <2>2 DEF Emitted
<1> QED
  BY <1>5, <1>6, ClientsApart

LEMMA CollectorExitIndInv ==
  ASSUME IndInv, CollectorExit PROVE IndInv'
<1> USE DEF CollectorExit, Nobody, Client
<1>1. TypeOK'
  BY ModuleNameAssumption, MaxStartsAssumption DEF IndInv, TypeOK
<1>2. /\ SubscribersRegistered' /\ KnownModulesServed' /\ PublicationsSubscribed' /\ ClientKinds'
      /\ StorageOfKnownModules' /\ NothingBeforeStart'
  BY DEF SubscribersRegistered, KnownModulesServed, PublicationsSubscribed,
         ClientKinds, StorageOfKnownModules, NothingBeforeStart, IsRunning
<1> QED
  BY <1>1, <1>2 DEF IndInv

\* The types that change in a step, from those of the channels and the collector's
\* invariant.
LEMMA CollectorStepTypes ==
  ASSUME FlowTypeOK, CommandKinds, CollectorStep
  PROVE  FlowTypeOK' /\ CommandKinds'
<1> USE DEF boundVars, senderVars, viewerVars, NothingReceived
<1>1. IndInv /\ Nobody \in [Viewer -> SUBSET Pair]
  BY DEF FlowTypeOK, Nobody
<1>2. CASE StartCollector
  <2>1. IndInv'
    BY <1>1, <1>2, StartIndInv DEF StartCollector
  <2> QED
    BY <1>1, <1>2, <2>1 DEF StartCollector, FlowTypeOK, CommandKinds
<1>3. CASE AnnounceRunning
  <2>1. IndInv'
    BY <1>1, <1>3, IdleIndInv DEF AnnounceRunning
  <2>2. toClient' \in [Client -> Seq(Info)]
    <3>1. ASSUME NEW c \in Client
          PROVE  toClient[c] \in Seq(Info) /\ Append(toClient[c], StateInfo(TRUE)) \in Seq(Info)
      <4>1. toClient[c] \in Seq(Info) /\ StateInfo(TRUE) \in Info
        BY InfosTyped, ChannelTypes
      <4> QED
        BY <4>1, AppendLast
    <3> QED
      BY <1>3, <3>1 DEF AnnounceRunning
  <2> QED
    BY <1>1, <1>3, <2>1, <2>2 DEF AnnounceRunning, FlowTypeOK, CommandKinds
<1>4. CASE CollectorExit
  <2>1. IndInv'
    BY <1>1, <1>4, CollectorExitIndInv
  <2>2. toClient' \in [Client -> Seq(Info)]
    <3>1. ASSUME NEW c \in Client
          PROVE  toClient[c] \in Seq(Info) /\ Append(toClient[c], StateInfo(FALSE)) \in Seq(Info)
      <4>1. toClient[c] \in Seq(Info) /\ StateInfo(FALSE) \in Info
        BY InfosTyped, ChannelTypes
      <4> QED
        BY <4>1, AppendLast
    <3> QED
      BY <1>4, <3>1 DEF CollectorExit
  <2>3. toCollector' \in [Client -> Seq(Command)] /\ CommandKinds'
    BY <1>4 DEF CollectorExit, CommandKinds
  <2>4. exits' \in 0 .. MaxExits
    BY <1>4, BoundsAssumption DEF CollectorExit, FlowTypeOK
  <2>5. link' \subseteq Client /\ announcing' \in BOOLEAN
    BY <1>4 DEF CollectorExit
  <2>6. received' = Nobody /\ UNCHANGED <<commands, bookings, senderVars, viewerVars>>
    BY <1>4 DEF CollectorExit
  <2> QED
    BY <1>1, <2>1, <2>2, <2>3, <2>4, <2>5, <2>6 DEF FlowTypeOK
<1>5. ASSUME NEW c \in Client, Connect(c) PROVE FlowTypeOK' /\ CommandKinds'
  <2>1. IndInv'
    BY <1>1, <1>5, IdleIndInv DEF Connect, CollectorIdle
  <2>2. toClient' \in [Client -> Seq(Info)]
    <3>1. FirstInfo(c) \in Seq(Info)
      <4>1. StateInfo(TRUE) \in Info
        BY InfosTyped
      <4>2. \A m \in Info : <<m>> \in Seq(Info)
        OBVIOUS
      <4>3. <<StateInfo(TRUE)>> \in Seq(Info)
        BY <4>1, <4>2, Zenon
      <4>4. <<>> \in Seq(Info)
        OBVIOUS
      <4> QED
        BY <4>3, <4>4 DEF FirstInfo
    <3>2. toClient[c] \o FirstInfo(c) \in Seq(Info)
      BY <3>1, ChannelTypes
    <3> QED
      BY <1>5, <3>2 DEF Connect, FlowTypeOK
  <2> QED
    BY <1>1, <1>5, <2>1, <2>2 DEF Connect, CollectorIdle, FlowTypeOK, CommandKinds
<1>6. ASSUME NEW c \in Client, ReceiveCommand(c) PROVE FlowTypeOK' /\ CommandKinds'
  <2>1. /\ toCollector' \in [Client -> Seq(Command)] /\ CommandKinds'
        /\ Head(toCollector[c]) \in Command
        /\ Head(toCollector[c]).cmd \in {"AVAILABLE_ME_CMD", "COLLECT_ME_CMD"}
             <=> c \in ModuleApp
    BY <1>6, CommandTaken DEF ReceiveCommand
  <2>2. IndInv'
    BY <1>1, <1>6, <2>1, HandlerIndInv DEF ReceiveCommand
  <2>3. toClient' \in [Client -> Seq(Info)]
    <3>1. ASSUME NEW d \in Client PROVE toClient[d] \o Emitted(d) \in Seq(Info)
      <4>1. toClient[d] \in Seq(Info) /\ Emitted(d) \in Seq(Info)
        BY <2>2, EmittedIs, ChannelTypes
      <4> QED
        BY <4>1
    <3> QED
      BY <1>6, <3>1 DEF ReceiveCommand
  <2> QED
    BY <1>1, <1>6, <2>1, <2>2, <2>3 DEF ReceiveCommand, FlowTypeOK
<1>7. ASSUME NEW v \in Viewer, AnswerNameList(v) PROVE FlowTypeOK' /\ CommandKinds'
  <2>1. v \in Client
    BY ClientsApart
  <2>2. /\ toCollector' \in [Client -> Seq(Command)] /\ CommandKinds'
        /\ Head(toCollector[v]) \in Command
    BY <1>7, <2>1, CommandTaken DEF AnswerNameList
  <2>3. IndInv'
    BY <1>1, <1>7, IdleIndInv DEF AnswerNameList, CollectorIdle
  <2>4. toClient' \in [Client -> Seq(Info)]
    <3> DEFINE answer == [svc |-> "NAME_LIST_RPC",
                          elements |-> available \cap Head(toCollector[v]).request]
    <3>1. available \cap Head(toCollector[v]).request \in SUBSET Pair
      BY <1>1 DEF IndInv, TypeOK
    <3>2. answer \in Info
      BY <3>1, InfosTyped
    <3>3. Append(toClient[v], answer) \in Seq(Info)
      BY <2>1, <3>2, ChannelTypes
    <3>4. toClient' = [toClient EXCEPT ![v] = Append(toClient[v], answer)]
      BY <1>7 DEF AnswerNameList
    <3> QED
      BY <3>3, <3>4 DEF FlowTypeOK
  <2> QED
    BY <1>1, <1>7, <2>2, <2>3, <2>4 DEF AnswerNameList, CollectorIdle, FlowTypeOK
<1> QED
  BY <1>2, <1>3, <1>4, <1>5, <1>6, <1>7 DEF CollectorStep

\* One message less under way to a client.
LEMMA InfoTaken ==
  ASSUME FlowTypeOK, NEW c \in Client, toClient[c] # <<>>,
         toClient' = [toClient EXCEPT ![c] = Tail(@)]
  PROVE  /\ toClient' \in [Client -> Seq(Info)] /\ Head(toClient[c]) \in Info
         /\ toClient'[c] = Tail(toClient[c])
         /\ \A d \in Client : d # c => toClient'[d] = toClient[d]
<1>1. toClient \in [Client -> Seq(Info)] /\ toClient[c] \in Seq(Info)
  BY DEF FlowTypeOK
<1>2. Head(toClient[c]) \in Info /\ Tail(toClient[c]) \in Seq(Info)
  BY <1>1
<1> QED
  BY <1>1, <1>2

LEMMA SenderStepTypes ==
  ASSUME FlowTypeOK, CommandKinds, NEW a \in ModuleApp, SenderStep(a)
  PROVE  FlowTypeOK' /\ CommandKinds'
<1> USE DEF NothingReceived, CollectorIdle, viewerVars
<1>1. /\ IndInv /\ Nobody \in [Viewer -> SUBSET Pair] /\ a \in Client
      /\ availableMe[a] \in SUBSET Element /\ subscribed[a] \in SUBSET Element
  BY ClientsApart DEF FlowTypeOK, Nobody
<1>2. IndInv' /\ received' = Nobody
  BY <1>1, IdleIndInv
     DEF SenderStep, AddAvailableMonitorElement, RemoveAvailableMonitorElement,
         SendAvailableMonitorElementList, SendMonitorElements, SenderInfoHandler
<1>3. ASSUME NEW e \in Element,
             \/ AddAvailableMonitorElement(a, e) \/ RemoveAvailableMonitorElement(a, e)
      PROVE  FlowTypeOK' /\ CommandKinds'
  <2>1. bookings' \in 0 .. MaxBookings
    BY <1>3, BoundsAssumption
       DEF AddAvailableMonitorElement, RemoveAvailableMonitorElement, FlowTypeOK
  <2>2. /\ availableMe' \in [ModuleApp -> SUBSET Element]
        /\ sendList' \in [ModuleApp -> BOOLEAN]
    <3>1. availableMe[a] \cup {e} \in SUBSET Element /\ availableMe[a] \ {e} \in SUBSET Element
      BY <1>1
    <3>2. CASE AddAvailableMonitorElement(a, e)
      BY <3>1, <3>2 DEF AddAvailableMonitorElement, FlowTypeOK
    <3>3. CASE RemoveAvailableMonitorElement(a, e)
      BY <3>1, <3>3 DEF RemoveAvailableMonitorElement, FlowTypeOK
    <3> QED
      BY <1>3, <3>2, <3>3
  <2>3. UNCHANGED <<link, toCollector, toClient, announcing, exits, commands, subscribed,
                    sending, greeted, wantedMode, serverUp>>
    BY <1>3 DEF AddAvailableMonitorElement, RemoveAvailableMonitorElement
  <2> QED
    BY <1>1, <1>2, <2>1, <2>2, <2>3 DEF FlowTypeOK, CommandKinds
<1>4. ASSUME NEW els \in SUBSET Element, NEW name \in {"AVAILABLE_ME_CMD", "COLLECT_ME_CMD"},
             \/ toCollector' = toCollector \/ SendCommand(a, [cmd |-> name, els |-> els])
      PROVE  toCollector' \in [Client -> Seq(Command)] /\ CommandKinds'
  <2>1. CASE toCollector' = toCollector
    BY <2>1 DEF FlowTypeOK, CommandKinds
  <2>2. CASE SendCommand(a, [cmd |-> name, els |-> els])
    <3>1. [cmd |-> name, els |-> els] \in Command
      BY CommandsTyped
    <3> QED
      BY <1>1, <2>2, <3>1, CommandSent
  <2> QED
    BY <1>4, <2>1, <2>2
<1>5. CASE SendAvailableMonitorElementList(a)
  <2>1. toCollector' \in [Client -> Seq(Command)] /\ CommandKinds'
    BY <1>1, <1>4, <1>5 DEF SendAvailableMonitorElementList, SendList
  <2> QED
    BY <1>1, <1>2, <1>5, <2>1 DEF SendAvailableMonitorElementList, FlowTypeOK
<1>6. CASE SendMonitorElements(a)
  <2>1. toCollector' \in [Client -> Seq(Command)] /\ CommandKinds'
    <3>1. Publication(a) \in SUBSET Element
      BY <1>1 DEF Publication
    <3> QED
      BY <1>4, <1>6, <3>1 DEF SendMonitorElements
  <2> QED
    BY <1>1, <1>2, <1>6, <2>1 DEF SendMonitorElements, FlowTypeOK
<1>7. CASE SenderInfoHandler(a)
  <2>1. toClient' \in [Client -> Seq(Info)] /\ Head(toClient[a]) \in Info
    BY <1>1, <1>7, InfoTaken DEF SenderInfoHandler
  <2>2. subscribed' \in [ModuleApp -> SUBSET Element]
    BY <1>7, <2>1, InfoFields DEF SenderInfoHandler, ServerDown, FlowTypeOK
  <2>3. sendList' \in [ModuleApp -> BOOLEAN] /\ greeted' \subseteq ModuleApp
    BY <1>7 DEF SenderInfoHandler, FlowTypeOK
  <2> QED
    BY <1>1, <1>2, <1>7, <2>1, <2>2, <2>3 DEF SenderInfoHandler, FlowTypeOK, CommandKinds
<1> QED
  BY <1>3, <1>5, <1>6, <1>7 DEF SenderStep

LEMMA ViewerStepTypes ==
  ASSUME FlowTypeOK, CommandKinds, NEW v \in Viewer, ViewerStep(v)
  PROVE  FlowTypeOK' /\ CommandKinds'
<1> USE DEF NothingReceived, CollectorIdle, senderVars, viewerVars
<1>1. /\ IndInv /\ Nobody \in [Viewer -> SUBSET Pair] /\ v \in Client /\ v \notin ModuleApp
      /\ wantedMode[v] \in BOOLEAN
  BY ClientsApart DEF FlowTypeOK, Nobody
<1>2. IndInv'
  BY <1>1, IdleIndInv
     DEF ViewerStep, ViewerRequest, QueryAvailable, ViewerSetUpdateMode, HandleNameList,
         ViewerInfoHandler
<1>3. ASSUME NEW m \in Command, m.cmd \notin {"AVAILABLE_ME_CMD", "COLLECT_ME_CMD"},
             SendCommand(v, m)
      PROVE  toCollector' \in [Client -> Seq(Command)] /\ CommandKinds'
  BY <1>1, <1>3, CommandSent
<1>4. commands < MaxCommands /\ commands' = commands + 1 => commands' \in 0 .. MaxCommands
  BY BoundsAssumption DEF FlowTypeOK
<1>5. CASE ViewerRequest(v) \/ QueryAvailable(v)
  <2>1. PICK name \in {"SUBSCRIBE_CMD", "UNSUBSCRIBE_CMD", "SET_SUBSCRIPTION_CMD",
                      "QUERY_ME_CMD", "NAME_LIST_RPC"}, request \in SUBSET Pair :
          SendCommand(v, [cmd |-> name, request |-> request])
    BY <1>5 DEF ViewerRequest, QueryAvailable
  <2>2. [cmd |-> name, request |-> request] \in Command
    BY CommandsTyped
  <2>3. toCollector' \in [Client -> Seq(Command)] /\ CommandKinds'
    BY <1>3, <2>1, <2>2
  <2> QED
    BY <1>1, <1>2, <1>4, <1>5, <2>3 DEF ViewerRequest, QueryAvailable, FlowTypeOK
<1>6. ASSUME NEW mode \in BOOLEAN, SendUpdateMode(v, mode)
      PROVE  toCollector' \in [Client -> Seq(Command)] /\ CommandKinds'
  <2>1. [cmd |-> "SET_UPDATE_MODE_CMD", mode |-> mode] \in Command
    BY CommandsTyped
  <2> QED
    BY <1>3, <1>6, <2>1 DEF SendUpdateMode
<1>7. ASSUME NEW mode \in BOOLEAN, ViewerSetUpdateMode(v, mode)
      PROVE  FlowTypeOK' /\ CommandKinds'
  BY <1>1, <1>2, <1>4, <1>6, <1>7 DEF ViewerSetUpdateMode, FlowTypeOK
<1>8. CASE HandleNameList(v)
  <2>1. toClient' \in [Client -> Seq(Info)]
    BY <1>1, <1>8, InfoTaken DEF HandleNameList
  <2> QED
    BY <1>1, <1>2, <1>8, <2>1 DEF HandleNameList, FlowTypeOK, CommandKinds
<1>9. CASE ViewerInfoHandler(v)
  <2> DEFINE info == Head(toClient[v])
  <2>1. toClient' \in [Client -> Seq(Info)] /\ info \in Info
    BY <1>1, <1>9, InfoTaken DEF ViewerInfoHandler
  <2>2. toCollector' \in [Client -> Seq(Command)] /\ CommandKinds'
    <3>1. toCollector' = toCollector \/ SendUpdateMode(v, wantedMode[v])
      BY <1>9 DEF ViewerInfoHandler
    <3> QED
      BY <1>1, <1>6, <3>1 DEF FlowTypeOK, CommandKinds
  <2>3. received' \in [Viewer -> SUBSET Pair]
    <3>1. received' = [Nobody EXCEPT ![v] = IF info.svc = "ME_UPDATE_SVC" THEN info.elements
                                                                       ELSE {}]
      BY <1>9 DEF ViewerInfoHandler
    <3> QED
      BY <1>1, <2>1, <3>1, InfoFields
  <2>4. serverUp' \subseteq Viewer
    BY <1>9 DEF ViewerInfoHandler, FlowTypeOK
  <2> QED
    BY <1>1, <1>2, <1>9, <2>1, <2>2, <2>3, <2>4 DEF ViewerInfoHandler, FlowTypeOK
<1> QED
  BY <1>5, <1>7, <1>8, <1>9 DEF ViewerStep

LEMMA FlowStepTypes ==
  FlowTypeOK /\ CommandKinds /\ [FlowNext]_flowVars => FlowTypeOK' /\ CommandKinds'
<1> SUFFICES ASSUME FlowTypeOK, CommandKinds, [FlowNext]_flowVars
             PROVE  FlowTypeOK' /\ CommandKinds'
  OBVIOUS
<1>1. CASE UNCHANGED flowVars
  <2>1. IndInv'
    BY <1>1, StutterIndInv DEF flowVars, FlowTypeOK
  <2> QED
    BY <1>1, <2>1 DEF flowVars, boundVars, senderVars, viewerVars, FlowTypeOK, CommandKinds
<1> QED
  BY <1>1, CollectorStepTypes, SenderStepTypes, ViewerStepTypes DEF FlowNext

LEMMA FlowInitTypes == FlowInit => FlowTypeOK /\ CommandKinds
<1> SUFFICES ASSUME FlowInit PROVE FlowTypeOK /\ CommandKinds
  OBVIOUS
<1>1. IndInv
  BY InitIndInv DEF FlowInit
<1>2. Nobody \in [Viewer -> SUBSET Pair]
  BY DEF Nobody
<1>3. 0 \in 0 .. MaxExits /\ 0 \in 0 .. MaxCommands /\ 0 \in 0 .. MaxBookings
  BY BoundsAssumption
<1>4. /\ toCollector \in [Client -> Seq(Command)] /\ toClient \in [Client -> Seq(Info)]
      /\ CommandKinds
  <2>1. <<>> \in Seq(Command) /\ <<>> \in Seq(Info)
    OBVIOUS
  <2> QED
    BY <2>1 DEF FlowInit, CommandKinds
<1> QED
  BY <1>1, <1>2, <1>3, <1>4 DEF FlowInit, FlowTypeOK

\* Type correctness of the flow, with the collector's whole invariant: the handlers of
\* the collector get the commands they are made for, through any number of exits.
THEOREM FlowTypes == FlowSpec => []FlowTypeOK
<1> QED
  BY FlowInitTypes, FlowStepTypes, PTL DEF FlowSpec

-----------------------------------------------------------------------------
(* What the clients have or will get. *)

\* The messages of the collector, and what they are for.
LEMMA News ==
  /\ StateInfo(TRUE) \notin ListNews /\ StateInfo(FALSE) \in ListNews
  /\ StateInfo(TRUE) # StateInfo(FALSE)
  /\ StateInfo(FALSE) \in Telling({})
  /\ \A list \in SUBSET Element :
       LET m == [svc |-> "NOTIFY_WATCHED_ME_SVC", list |-> list]
       IN m \in Telling(list) /\ m # StateInfo(FALSE) /\ m # StateInfo(TRUE)
  /\ \A pairs \in SUBSET Pair :
       LET m == [svc |-> "ME_UPDATE_SVC", elements |-> pairs]
           n == [svc |-> "NAME_LIST_RPC", elements |-> pairs]
       IN m # StateInfo(FALSE) /\ n # StateInfo(FALSE)
BY InfosTyped DEF ListNews, Telling, StateInfo

\* Whoever is told has registered, and nobody else's list changes.
LEMMA NotifiedAreClients ==
  ASSUME IndInv, NEW modules, NotifyWatchedMe(modules) \/ NotifyNobody
  PROVE  /\ notified' \subseteq clients' /\ notified' \subseteq ModuleApp
         /\ \A a \in ModuleApp : a \notin notified' => watched'[a] = watched[a]
BY DEF NotifyWatchedMe, NotifyNobody, GetModuleClientID

LEMMA ModuleHandlerEffects ==
  ASSUME UniqueNames, IndInv, IndInv', WatchedListTold,
         NEW c \in ModuleApp, NEW els \in SUBSET Element,
         HandleAvailableListUpdate(c, els) \/ HandleMeCollectUpdate(c, els)
  PROVE  /\ WatchedListTold'
         /\ clients \subseteq clients' /\ clients' \subseteq clients \cup {c}
         /\ notified' \subseteq clients'
         /\ \A a \in ModuleApp : a \notin notified' => watched'[a] = watched[a]
         /\ \A a \in ModuleApp : a # c => AvailableOf(a)' = AvailableOf(a)
         /\ AvailableOf(c)' = IF HandleAvailableListUpdate(c, els) THEN els ELSE AvailableOf(c)
<1>1. CASE HandleAvailableListUpdate(c, els)
  <2>1. PICK modules : NotifyWatchedMe(modules)
    BY <1>1 DEF HandleAvailableListUpdate
  <2>2. /\ clients' = clients \cup {c}
        /\ available' = {p \in available : p[1] # ModuleName[c]} \cup ({ModuleName[c]} \X els)
    BY <1>1 DEF HandleAvailableListUpdate
  <2>3. \A a \in ModuleApp : a # c => ModuleName[a] # ModuleName[c]
    BY DEF UniqueNames
  <2>4. \A a \in ModuleApp : a # c => AvailableOf(a)' = AvailableOf(a)
    BY <2>2, <2>3 DEF AvailableOf
  <2>5. AvailableOf(c)' = els
    BY <2>2 DEF AvailableOf
  <2> QED
    BY <1>1, <2>1, <2>2, <2>4, <2>5, NotifiedAreClients, AvailableListToldLists
<1>2. CASE HandleMeCollectUpdate(c, els) /\ ~HandleAvailableListUpdate(c, els)
  <2>1. /\ NotifyNobody /\ UNCHANGED <<clients, available, lifeVars, subs>>
    BY <1>2 DEF HandleMeCollectUpdate, clientVars
  <2> QED
    BY <1>2, <2>1, NotifiedAreClients, SilentToldLists DEF AvailableOf
<1> QED
  BY <1>1, <1>2

LEMMA ViewerHandlerEffects ==
  ASSUME UniqueNames, IndInv, IndInv', WatchedListTold, NEW c \in Viewer,
         \/ \E mode \in BOOLEAN : HandleClientUpdateMode(c, mode)
         \/ HandleMeQueryAll(c)
         \/ \E request \in SUBSET Pair :
              \/ HandleClientRequestList(c, request) \/ HandleClientSubscription(c, request)
              \/ HandleClientUnsubscription(c, request) \/ HandleMeQuery(c, request)
  PROVE  /\ WatchedListTold'
         /\ clients \subseteq clients' /\ clients' \subseteq clients \cup {c}
         /\ notified' \subseteq clients'
         /\ \A a \in ModuleApp : a \notin notified' => watched'[a] = watched[a]
         /\ \A a \in ModuleApp : AvailableOf(a)' = AvailableOf(a)
<1>1. c \notin ModuleApp
  BY ClientsApart
<1>2. CASE \E mode \in BOOLEAN : HandleClientUpdateMode(c, mode)
  <2>1. /\ NotifyNobody /\ UNCHANGED <<clients, available, lifeVars, subs>>
    BY <1>2 DEF HandleClientUpdateMode, storageVars
  <2> QED
    BY <2>1, NotifiedAreClients, SilentToldLists DEF AvailableOf
<1>3. CASE HandleMeQueryAll(c)
  <2>1. /\ NotifyNobody /\ clients' = clients \cup {c} /\ UNCHANGED <<available, lifeVars, subs>>
    BY <1>3 DEF HandleMeQueryAll, RegisterClient, storageVars
  <2> QED
    BY <1>1, <2>1, NotifiedAreClients, SilentToldLists DEF AvailableOf
<1>4. ASSUME NEW request \in SUBSET Pair,
             \/ HandleClientRequestList(c, request) \/ HandleClientSubscription(c, request)
             \/ HandleClientUnsubscription(c, request) \/ HandleMeQuery(c, request)
      PROVE  /\ WatchedListTold'
             /\ (\E modules : NotifyWatchedMe(modules))
             /\ clients' = clients \cup {c} /\ UNCHANGED available
  <2>1. WatchedListTold'
    BY <1>4, RequestListToldLists, SubscriptionToldLists, UnsubscriptionToldLists, QueryToldLists
  <2>2. CASE HandleClientRequestList(c, request)
    BY <2>1, <2>2 DEF HandleClientRequestList, RegisterClient
  <2>3. CASE HandleClientSubscription(c, request)
    BY <2>1, <2>3 DEF HandleClientSubscription, RegisterClient
  <2>4. CASE HandleClientUnsubscription(c, request)
    BY <2>1, <2>4 DEF HandleClientUnsubscription, RegisterClient, storageVars
  <2>5. CASE HandleMeQuery(c, request)
    BY <2>1, <2>5 DEF HandleMeQuery, RegisterClient
  <2> QED
    BY <1>4, <2>2, <2>3, <2>4, <2>5
<1>5. CASE WatchedListTold' /\ clients' = clients \cup {c} /\ UNCHANGED available
           /\ (\E modules : NotifyWatchedMe(modules))
  BY <1>5, NotifiedAreClients DEF AvailableOf
<1> QED
  BY <1>2, <1>3, <1>4, <1>5

LEMMA HandlerEffects ==
  ASSUME UniqueNames, IndInv, WatchedListTold,
         NEW c \in Client, NEW m \in Command, HandleCommand(c, m),
         m.cmd \in {"AVAILABLE_ME_CMD", "COLLECT_ME_CMD"} <=> c \in ModuleApp
  PROVE  /\ WatchedListTold' /\ IndInv' /\ UNCHANGED lifeVars
         /\ clients \subseteq clients' /\ clients' \subseteq clients \cup {c}
         /\ notified' \subseteq clients'
         /\ \A a \in ModuleApp : a \notin notified' => watched'[a] = watched[a]
         /\ \A a \in ModuleApp :
              a # c \/ m.cmd # "AVAILABLE_ME_CMD" => AvailableOf(a)' = AvailableOf(a)
         /\ m.cmd = "AVAILABLE_ME_CMD" => AvailableOf(c)' = m.els
<1>1. IndInv' /\ UNCHANGED lifeVars
  BY HandlerIndInv
<1>2. CASE c \in ModuleApp
  <2>1. m.els \in SUBSET Element
    BY <1>2, CommandFields
  <2>2. CASE m.cmd = "AVAILABLE_ME_CMD" /\ HandleAvailableListUpdate(c, m.els)
    BY <1>1, <1>2, <2>1, <2>2, ModuleHandlerEffects
  <2>3. CASE m.cmd = "COLLECT_ME_CMD" /\ HandleMeCollectUpdate(c, m.els)
    <3>1. HandleAvailableListUpdate(c, m.els) => AvailableOf(c)' = AvailableOf(c)
      BY <2>3 DEF HandleMeCollectUpdate, AvailableOf
    <3> QED
      BY <1>1, <1>2, <2>1, <2>3, <3>1, ModuleHandlerEffects
  <2> QED
    BY <1>2, <2>2, <2>3 DEF HandleCommand
<1>3. CASE c \in Viewer
  <2>1. c \notin ModuleApp
    BY <1>3, ClientsApart
  <2>2. \/ \E mode \in BOOLEAN : HandleClientUpdateMode(c, mode)
        \/ HandleMeQueryAll(c)
        \/ \E request \in SUBSET Pair :
             \/ HandleClientRequestList(c, request) \/ HandleClientSubscription(c, request)
             \/ HandleClientUnsubscription(c, request) \/ HandleMeQuery(c, request)
    BY <2>1, CommandFields DEF HandleCommand
  <2> QED
    BY <1>1, <1>3, <2>1, <2>2, ViewerHandlerEffects
<1> QED
  BY <1>2, <1>3, ClientsApart

\* Nothing new for the list of a sender, or a message that is not about it.
LEMMA ToldUndisturbed ==
  ASSUME FlowTypeOK, NEW a \in ModuleApp, SenderTold(a),
         a \in clients => a \in clients', watched'[a] = watched[a],
         subscribed'[a] = subscribed[a],
         \/ toClient'[a] = toClient[a]
         \/ toClient'[a] = Append(toClient[a], StateInfo(TRUE))
  PROVE  SenderTold(a)'
<1> DEFINE for == Telling(watched[a])
           u == StateInfo(TRUE)
<1>1. /\ toClient[a] \in Seq(Info) /\ u \in Info /\ u \notin ListNews
      /\ toClient'[a] = toClient[a] \/ toClient'[a] = Append(toClient[a], u)
  BY ChannelTypes, ClientsApart, InfosTyped, News
<1>2. ASSUME NEW f \in BOOLEAN, Prevails(f, toClient[a], for, ListNews)
      PROVE  Prevails(f, toClient'[a], for, ListNews)
  <2> HIDE DEF for, u
  <2>1. Prevails(f, Append(toClient[a], u), for, ListNews)
    BY <1>1, <1>2, PrevailsAppend
  <2> QED
    BY <1>1, <1>2, <2>1
<1>3. (subscribed[a] = watched[a]) \in BOOLEAN
  OBVIOUS
<1>4. Prevails(subscribed[a] = watched[a], toClient'[a], for, ListNews)
  BY <1>2, <1>3 DEF SenderTold
<1> QED
  BY <1>4 DEF SenderTold

\* The collector tells a sender its list.
LEMMA ToldByNotification ==
  ASSUME FlowTypeOK, NEW a \in ModuleApp, a \in clients', watched'[a] \in SUBSET Element,
         toClient'[a] = Append(toClient[a],
                               [svc |-> "NOTIFY_WATCHED_ME_SVC", list |-> watched'[a]])
  PROVE  SenderTold(a)'
<1> DEFINE m == [svc |-> "NOTIFY_WATCHED_ME_SVC", list |-> watched'[a]]
           for == Telling(watched'[a])
<1>1. toClient[a] \in Seq(Info) /\ m \in Info /\ m \in for
  BY ChannelTypes, ClientsApart, InfosTyped, News
<1>2. ASSUME NEW f \in BOOLEAN PROVE Prevails(f, toClient'[a], for, ListNews)
  BY <1>1, PrevailsAppend
<1>3. (subscribed'[a] = watched'[a]) \in BOOLEAN
  OBVIOUS
<1>4. Prevails(subscribed'[a] = watched'[a], toClient'[a], for, ListNews)
  BY <1>2, <1>3
<1> QED
  BY <1>4 DEF SenderTold

\* A connection is kept or made, and what is sent over it is not the loss of it.
LEMMA GreetingUndisturbed ==
  ASSUME FlowTypeOK, NEW a \in ModuleApp, GreetedInv(a), NEW u \in Info, u # StateInfo(FALSE),
         a \in greeted' <=> a \in greeted, a \in link => a \in link',
         \/ toClient'[a] = toClient[a]
         \/ toClient'[a] = Append(toClient[a], u) /\ (u = StateInfo(TRUE) => a \in link')
  PROVE  GreetedInv(a)' /\ (Losing(a)' <=> Losing(a))
<1> DEFINE q == toClient[a]
           r == toClient'[a]
<1>1. q \in Seq(Info) /\ Len(q) \in Nat
  BY ChannelTypes, ClientsApart
<1>2. CASE r = q
  BY <1>2 DEF GreetedInv, Losing
<1>3. CASE r = Append(q, u) /\ (u = StateInfo(TRUE) => a \in link')
  <2>1. /\ Len(r) = Len(q) + 1 /\ r[Len(q) + 1] = u /\ \A i \in 1 .. Len(q) : r[i] = q[i]
    BY <1>1, <1>3, AppendLast
  <2>2. ASSUME NEW i \in 0 .. Len(q)
        PROVE  NoneAfter(r, i, {StateInfo(FALSE)}) <=> NoneAfter(q, i, {StateInfo(FALSE)})
    <3> DEFINE loss == {StateInfo(FALSE)}
    <3>1. u \notin loss
      OBVIOUS
    <3> HIDE DEF loss
    <3>2. NoneAfter(Append(q, u), i, loss) <=> NoneAfter(q, i, loss)
      BY <1>1, <3>1, NoneAfterAppend
    <3> QED
      BY <1>3, <3>2 DEF loss
  <2>3. 0 \in 0 .. Len(q) /\ \A i \in 1 .. Len(q) : i \in 0 .. Len(q)
    BY <1>1
  <2>4. Losing(a)' <=> Losing(a)
    BY <2>2, <2>3 DEF Losing
  <2>5. ASSUME NEW i \in 1 .. Len(r), r[i] = StateInfo(TRUE)
        PROVE  a \in link' \/ ~NoneAfter(r, i, {StateInfo(FALSE)})
    <3>1. CASE i = Len(q) + 1
      BY <1>3, <2>1, <2>5, <3>1
    <3>2. CASE i \in 1 .. Len(q)
      BY <2>1, <2>2, <2>3, <2>5, <3>2 DEF GreetedInv
    <3> QED
      BY <1>1, <2>1, <3>1, <3>2
  <2> QED
    BY <2>4, <2>5 DEF GreetedInv
<1> QED
  BY <1>2, <1>3

\* A step that leaves a sender and its module at the collector alone, but for a
\* greeting over its connection.
LEMMA SenderBystander ==
  ASSUME FlowTypeOK, NEW a \in ModuleApp, SenderTold(a), GreetedInv(a), ListInv(a),
         a \in clients => a \in clients', watched'[a] = watched[a],
         a \in link => a \in link', AvailableOf(a)' = AvailableOf(a),
         subscribed'[a] = subscribed[a], availableMe'[a] = availableMe[a],
         sendList'[a] = sendList[a], a \in sending' <=> a \in sending,
         a \in greeted' <=> a \in greeted, toCollector'[a] = toCollector[a],
         \/ toClient'[a] = toClient[a]
         \/ a \in link /\ toClient'[a] = Append(toClient[a], StateInfo(TRUE))
  PROVE  SenderTold(a)' /\ GreetedInv(a)' /\ ListInv(a)'
<1>1. SenderTold(a)'
  BY ToldUndisturbed
<1>2. GreetedInv(a)' /\ (Losing(a)' <=> Losing(a))
  BY GreetingUndisturbed, InfosTyped, News
<1>3. ListInv(a)'
  BY <1>2 DEF ListInv, ListSent
<1> QED
  BY <1>1, <1>2, <1>3

\* A step that leaves a viewer alone, but for a message that is not the loss of its
\* connection.
LEMMA ViewerBystander ==
  ASSUME FlowTypeOK, NEW v \in Viewer, ViewerTold(v), NEW u \in Info, u # StateInfo(FALSE),
         v \in link' => v \in link, v \in serverUp' <=> v \in serverUp,
         toClient'[v] = toClient[v] \/ toClient'[v] = Append(toClient[v], u)
  PROVE  ViewerTold(v)'
<1> SUFFICES ASSUME v \in link' PROVE ViewerTold(v)'
  BY DEF ViewerTold
<1> DEFINE for == {StateInfo(TRUE)}
           against == {StateInfo(FALSE)}
<1>1. toClient[v] \in Seq(Info) /\ u \notin against
  BY ChannelTypes, ClientsApart
<1>2. ASSUME NEW f \in BOOLEAN, Prevails(f, toClient[v], for, against)
      PROVE  Prevails(f, toClient'[v], for, against)
  <2> HIDE DEF for, against
  <2>1. Prevails(f, Append(toClient[v], u), for, against)
    BY <1>1, <1>2, PrevailsAppend
  <2> QED
    BY <1>2, <2>1
<1>3. (v \in serverUp) \in BOOLEAN
  OBVIOUS
<1>4. Prevails(v \in serverUp, toClient'[v], for, against)
  BY <1>2, <1>3 DEF ViewerTold
<1> QED
  BY <1>4 DEF ViewerTold, Prevails

\* The viewer gets the state of the collector with its connection.
LEMMA ViewerGreeted ==
  ASSUME FlowTypeOK, NEW v \in Viewer, toClient'[v] = Append(toClient[v], StateInfo(TRUE))
  PROVE  ViewerTold(v)'
<1> DEFINE for == {StateInfo(TRUE)}
           against == {StateInfo(FALSE)}
           u == StateInfo(TRUE)
<1>1. /\ toClient[v] \in Seq(Info) /\ u \in Info /\ u \in for
      /\ toClient'[v] = Append(toClient[v], u)
  BY ChannelTypes, ClientsApart, InfosTyped
<1>2. ASSUME NEW f \in BOOLEAN PROVE Prevails(f, toClient'[v], for, against)
  <2> HIDE DEF for, against, u
  <2>1. Prevails(f, Append(toClient[v], u), for, against)
    BY <1>1, PrevailsAppend
  <2> QED
    BY <1>1, <2>1
<1>3. (v \in serverUp') \in BOOLEAN
  OBVIOUS
<1>4. Prevails(v \in serverUp', toClient'[v], for, against)
  BY <1>2, <1>3
<1> QED
  BY <1>4 DEF ViewerTold

-----------------------------------------------------------------------------
(* The steps of the flow. *)

\* FlowInv without the types, which are kept already.
FlowParts ==
  /\ LifeInv /\ WatchedListTold
  /\ \A a \in ModuleApp : SenderTold(a) /\ GreetedInv(a) /\ ListInv(a)
  /\ \A v \in Viewer : ViewerTold(v)

LEMMA StartKeeps ==
  ASSUME FlowTypeOK, FlowParts, StartCollector PROVE FlowParts'
<1>1. /\ Start /\ UNCHANGED <<link, toCollector, toClient, clients, watched, subscribed, available,
                             availableMe, sendList, sending, greeted, serverUp>>
  BY DEF StartCollector, Start, NotifyNobody, clientVars, storageVars, senderVars, viewerVars
<1>2. LifeInv'
  BY <1>1, MaxStartsAssumption DEF LifeInv, FlowParts, Start, IsRunning
<1>3. WatchedListTold'
  BY <1>1, StartToldLists DEF FlowTypeOK
<1>4. ASSUME NEW a \in ModuleApp PROVE SenderTold(a)' /\ GreetedInv(a)' /\ ListInv(a)'
  BY <1>1, SenderBystander DEF FlowParts, AvailableOf
<1>5. ASSUME NEW v \in Viewer PROVE ViewerTold(v)'
  BY <1>1 DEF FlowParts, ViewerTold
<1> QED
  BY <1>2, <1>3, <1>4, <1>5 DEF FlowParts

LEMMA AnnounceKeeps ==
  ASSUME FlowTypeOK, FlowParts, AnnounceRunning PROVE FlowParts'
<1>1. /\ UNCHANGED <<starts, collectorState, link, toCollector, clients, watched, subscribed, available,
                     availableMe, sendList, sending, greeted, serverUp>>
      /\ \A c \in Client : toClient'[c] = IF c \in link THEN Append(toClient[c], StateInfo(TRUE))
                                                      ELSE toClient[c]
  BY DEF AnnounceRunning, collectorVars, lifeVars, clientVars, storageVars, senderVars, viewerVars
<1>2. LifeInv'
  BY <1>1 DEF LifeInv, FlowParts, IsRunning
<1>3. WatchedListTold'
  BY IdleIndInv DEF AnnounceRunning, FlowTypeOK, FlowParts
<1>4. ASSUME NEW a \in ModuleApp PROVE SenderTold(a)' /\ GreetedInv(a)' /\ ListInv(a)'
  <2>1. \/ toClient'[a] = toClient[a]
        \/ a \in link /\ toClient'[a] = Append(toClient[a], StateInfo(TRUE))
    BY <1>1, ClientsApart
  <2> QED
    BY <1>1, <2>1, SenderBystander DEF FlowParts, AvailableOf
<1>5. ASSUME NEW v \in Viewer PROVE ViewerTold(v)'
  <2>1. CASE v \in link
    BY <1>1, <2>1, ViewerGreeted, ClientsApart
  <2>2. CASE v \notin link
    BY <1>1, <2>2 DEF ViewerTold
  <2> QED
    BY <2>1, <2>2
<1> QED
  BY <1>2, <1>3, <1>4, <1>5 DEF FlowParts

LEMMA ConnectKeeps ==
  ASSUME FlowTypeOK, FlowParts, NEW c \in Client, Connect(c) PROVE FlowParts'
<1>1. /\ UNCHANGED <<starts, collectorState, toCollector, clients, watched, subscribed, available,
                     availableMe, sendList, sending, greeted, serverUp>>
      /\ link' = link \cup {c} /\ IsRunning
      /\ toClient' = [toClient EXCEPT ![c] = @ \o FirstInfo(c)]
  BY DEF Connect, CollectorIdle, collectorVars, lifeVars, clientVars, storageVars, senderVars,
         viewerVars
<1>2. LifeInv'
  BY <1>1 DEF LifeInv, FlowParts, IsRunning
<1>3. WatchedListTold'
  BY IdleIndInv DEF Connect, CollectorIdle, FlowTypeOK, FlowParts
<1>4. ASSUME NEW a \in ModuleApp PROVE SenderTold(a)' /\ GreetedInv(a)' /\ ListInv(a)'
  <2>1. toClient[a] \in Seq(Info) /\ a \in Client /\ a \notin Viewer
    BY ChannelTypes, ClientsApart
  <2>2. toClient'[a] = toClient[a]
    <3>1. CASE a = c
      <4>1. FirstInfo(c) = <<>>
        BY <2>1, <3>1 DEF FirstInfo
      <4>2. toClient'[a] = toClient[a] \o <<>>
        BY <1>1, <2>1, <3>1, <4>1 DEF FlowTypeOK
      <4> QED
        BY <2>1, <4>2
    <3>2. CASE a # c
      BY <1>1, <2>1, <3>2 DEF FlowTypeOK
    <3> QED
      BY <3>1, <3>2
  <2> QED
    BY <1>1, <2>2, SenderBystander DEF FlowParts, AvailableOf
<1>5. ASSUME NEW v \in Viewer PROVE ViewerTold(v)'
  <2>1. toClient[v] \in Seq(Info) /\ v \in Client
    BY ChannelTypes, ClientsApart
  <2>2. CASE v = c
    <3>1. toClient'[v] = toClient[v] \o <<StateInfo(TRUE)>>
      BY <1>1, <2>1, <2>2 DEF FirstInfo, FlowTypeOK
    <3>2. \A m : toClient[v] \o <<m>> = Append(toClient[v], m)
      BY <2>1
    <3>3. toClient'[v] = Append(toClient[v], StateInfo(TRUE))
      BY <3>1, <3>2
    <3> QED
      BY <3>3, ViewerGreeted
  <2>3. CASE v # c
    <3>1. toClient'[v] = toClient[v] /\ (v \in link' <=> v \in link)
      BY <1>1, <2>1, <2>3 DEF FlowTypeOK
    <3> QED
      BY <1>1, <3>1 DEF FlowParts, ViewerTold
  <2> QED
    BY <2>2, <2>3
<1> QED
  BY <1>2, <1>3, <1>4, <1>5 DEF FlowParts

\* A sender that was connected hears of the exit; who was not had no list.
LEMMA ExitTellsSender ==
  ASSUME FlowTypeOK, FlowParts, NEW a \in ModuleApp, CollectorExit
  PROVE  SenderTold(a)' /\ GreetedInv(a)' /\ ListInv(a)'
<1> DEFINE q == toClient[a]
           r == toClient'[a]
           u == StateInfo(FALSE)
           loss == {StateInfo(FALSE)}
<1>1. /\ q \in Seq(Info) /\ Len(q) \in Nat /\ u \in Info /\ u \in Telling({}) /\ u \in loss
      /\ u # StateInfo(TRUE) /\ a \in Client
  BY ChannelTypes, ClientsApart, InfosTyped, News
<1>2. /\ r = IF a \in link THEN Append(q, u) ELSE q
      /\ watched'[a] = {} /\ a \notin link' /\ clients' = {}
      /\ UNCHANGED <<subscribed, greeted>>
  BY <1>1 DEF CollectorExit, senderVars
<1>3. CASE a \in link
  <2>0. loss = {u}
    OBVIOUS
  <2> HIDE DEF u, q, r, loss
  <2>1. /\ r = Append(q, u) /\ Len(r) = Len(q) + 1 /\ r[Len(q) + 1] = u
        /\ \A i \in 1 .. Len(q) : r[i] = q[i]
    BY <1>1, <1>2, <1>3, AppendLast
  <2>2. ASSUME NEW i \in 0 .. Len(q) PROVE ~NoneAfter(r, i, loss)
    BY <1>1, <2>1 DEF NoneAfter
  <2>3. Losing(a)'
    <3>1. 0 \in 0 .. Len(q)
      BY <1>1
    <3> QED
      BY <2>2, <3>1 DEF Losing, r, loss
  <2>4. GreetedInv(a)'
    <3>1. ASSUME NEW i \in 1 .. Len(r), r[i] = StateInfo(TRUE) PROVE ~NoneAfter(r, i, loss)
      <4>1. i # Len(q) + 1
        BY <1>1, <2>1, <3>1 DEF u
      <4>2. i \in 0 .. Len(q)
        <5>1. Len(r) = Len(q) + 1 /\ Len(q) \in Nat
          BY <1>1, <2>1 DEF q, r
        <5> QED
          BY <4>1, <5>1
      <4> QED
        BY <2>2, <4>2
    <3> QED
      BY <2>3, <3>1 DEF GreetedInv, r, loss
  <2>5. ListInv(a)'
    BY <2>3 DEF ListInv, ListSent
  <2>6. SenderTold(a)'
    <3> DEFINE for == Telling({})
    <3>1. ASSUME NEW f \in BOOLEAN PROVE Prevails(f, Append(q, u), for, ListNews)
      <4>1. u \in for
        BY <1>1
      <4> HIDE DEF for
      <4> QED
        BY <1>1, <4>1, PrevailsAppend
    <3>2. (subscribed'[a] = watched'[a]) \in BOOLEAN
      OBVIOUS
    <3>3. Prevails(subscribed'[a] = watched'[a], Append(q, u), for, ListNews)
      BY <3>1, <3>2
    <3> QED
      BY <1>2, <2>1, <3>3 DEF SenderTold, r
  <2> QED
    BY <2>4, <2>5, <2>6
<1>4. CASE a \notin link
  <2>1. a \notin clients /\ watched[a] = {} /\ r = q
    BY <1>2, <1>4 DEF FlowParts, LifeInv, SenderTold
  <2>2. GreetedInv(a) /\ SenderTold(a)
    BY DEF FlowParts
  <2>3. SenderTold(a)'
    BY <1>2, <2>1, <2>2, ToldUndisturbed
  <2>4. GreetedInv(a)' /\ (Losing(a)' <=> Losing(a))
    BY <1>2, <1>4, <2>1, <2>2 DEF GreetedInv, Losing
  <2>5. a \in greeted => Losing(a)
    BY <1>4, <2>2 DEF GreetedInv
  <2>6. ListInv(a)'
    BY <1>2, <2>4, <2>5 DEF ListInv, ListSent
  <2> QED
    BY <2>3, <2>4, <2>6
<1> QED
  BY <1>3, <1>4

LEMMA ExitKeeps ==
  ASSUME FlowTypeOK, FlowParts, CollectorExit PROVE FlowParts'
<1>1. LifeInv'
  BY DEF CollectorExit, LifeInv, IsRunning
<1>2. WatchedListTold'
  BY DEF CollectorExit, WatchedListTold, IsRunning
<1>3. \A v \in Viewer : ViewerTold(v)'
  BY DEF CollectorExit, ViewerTold
<1> QED
  BY <1>1, <1>2, <1>3, ExitTellsSender DEF FlowParts

\* A step in which the collector process does nothing, or only reads.
LEMMA IdleParts ==
  ASSUME FlowTypeOK, FlowParts, CollectorIdle, UNCHANGED link,
         \A c \in Client : toCollector'[c] = <<>> \/ toCollector'[c] = toCollector[c] \/ c \in link
  PROVE  /\ LifeInv' /\ WatchedListTold' /\ UNCHANGED <<clients, watched>>
         /\ \A a \in ModuleApp : AvailableOf(a)' = AvailableOf(a)
<1>1. UNCHANGED <<collectorState, starts, clients, watched, available>>
  BY DEF CollectorIdle, collectorVars, lifeVars, clientVars, storageVars
<1>2. LifeInv'
  BY <1>1 DEF FlowParts, LifeInv, IsRunning
<1>3. WatchedListTold'
  BY IdleIndInv DEF CollectorIdle, FlowTypeOK, FlowParts
<1> QED
  BY <1>1, <1>2, <1>3 DEF AvailableOf

LEMMA AnswerKeeps ==
  ASSUME FlowTypeOK, FlowParts, NEW v \in Viewer, AnswerNameList(v) PROVE FlowParts'
<1>1. v \in Client /\ IndInv
  BY ClientsApart DEF FlowTypeOK
<1>2. PICK u \in Info :
        u # StateInfo(FALSE) /\ toClient' = [toClient EXCEPT ![v] = Append(@, u)]
  <2> DEFINE pairs == available \cap Head(toCollector[v]).request
  <2>1. pairs \in SUBSET Pair
    BY <1>1 DEF IndInv, TypeOK
  <2>2. /\ [svc |-> "NAME_LIST_RPC", elements |-> pairs] \in Info
        /\ [svc |-> "NAME_LIST_RPC", elements |-> pairs] # StateInfo(FALSE)
    BY <2>1, InfosTyped, News
  <2> QED
    BY <2>2 DEF AnswerNameList
<1>3. /\ CollectorIdle /\ UNCHANGED <<link, senderVars, serverUp>>
      /\ toCollector[v] # <<>> /\ toCollector' = [toCollector EXCEPT ![v] = Tail(@)]
  BY DEF AnswerNameList, viewerVars
<1>4. v \in link /\ \A c \in Client : c # v => toCollector'[c] = toCollector[c] /\ toClient'[c] = toClient[c]
  BY <1>1, <1>2, <1>3 DEF FlowParts, LifeInv, FlowTypeOK
<1>5. /\ LifeInv' /\ WatchedListTold' /\ UNCHANGED <<clients, watched>>
      /\ \A a \in ModuleApp : AvailableOf(a)' = AvailableOf(a)
  BY <1>3, <1>4, IdleParts
<1>6. ASSUME NEW a \in ModuleApp PROVE SenderTold(a)' /\ GreetedInv(a)' /\ ListInv(a)'
  <2>1. a \in Client /\ a # v
    BY ClientsApart
  <2> QED
    BY <1>3, <1>4, <1>5, <2>1, SenderBystander DEF FlowParts, senderVars
<1>7. ASSUME NEW w \in Viewer PROVE ViewerTold(w)'
  <2>1. w \in Client /\ ViewerTold(w)
    BY ClientsApart DEF FlowParts
  <2>2. toClient'[w] = toClient[w] \/ toClient'[w] = Append(toClient[w], u)
    BY <1>2, <1>4, <2>1 DEF FlowTypeOK
  <2> QED
    BY <1>2, <1>3, <2>1, <2>2, ViewerBystander
<1> QED
  BY <1>5, <1>6, <1>7 DEF FlowParts

\* A list that is handled is the list of the module from then on.
LEMMA ListHandled ==
  ASSUME FlowTypeOK, NEW a \in ModuleApp, ListInv(a), toCollector[a] # <<>>,
         toCollector'[a] = Tail(toCollector[a]),
         Losing(a)' <=> Losing(a),
         UNCHANGED <<availableMe, sendList, sending, greeted>>,
         Head(toCollector[a]).cmd = "AVAILABLE_ME_CMD"
           => AvailableOf(a)' = Head(toCollector[a]).els,
         Head(toCollector[a]).cmd # "AVAILABLE_ME_CMD" => AvailableOf(a)' = AvailableOf(a)
  PROVE  ListInv(a)'
<1> SUFFICES ASSUME ListSent(a)' PROVE ListInv(a)'
  BY DEF ListInv
<1> DEFINE q == toCollector[a]
           m == Head(q)
           for == {ListCommand(availableMe[a])}
           against == {ListCommand(list) : list \in SUBSET Element}
<1>1. q \in Seq(Command) /\ q # <<>> /\ m \in Command
  <2>1. q \in Seq(Command)
    BY ChannelTypes, ClientsApart
  <2> HIDE DEF q
  <2> QED
    BY <2>1 DEF q
<1>2. m.cmd = "AVAILABLE_ME_CMD" => m \in against
  BY <1>1 DEF Command, ListCommand
<1>3. m \in for => m.cmd = "AVAILABLE_ME_CMD" /\ m.els = availableMe[a]
  BY DEF ListCommand
<1>4. Prevails(AvailableOf(a) = availableMe[a], q, for, against)
  BY DEF ListInv, ListSent
<1>5. ASSUME NEW f \in BOOLEAN, NEW g \in BOOLEAN, Prevails(f, q, for, against),
             m \in for => g, f /\ m \notin against => g
      PROVE  Prevails(g, Tail(q), for, against)
  <2> HIDE DEF for, against, q
  <2> QED
    BY <1>1, <1>5, PrevailsTail
<1>6. /\ (AvailableOf(a) = availableMe[a]) \in BOOLEAN
      /\ (AvailableOf(a)' = availableMe[a]) \in BOOLEAN
  OBVIOUS
<1>7. /\ m \in for => AvailableOf(a)' = availableMe[a]
      /\ AvailableOf(a) = availableMe[a] /\ m \notin against => AvailableOf(a)' = availableMe[a]
  BY <1>2, <1>3
<1>8. Prevails(AvailableOf(a)' = availableMe[a], Tail(q), for, against)
  <2> HIDE DEF for, against, q
  <2> QED
    BY <1>4, <1>5, <1>6, <1>7
<1> QED
  BY <1>8 DEF ListInv

LEMMA ReceiveKeeps ==
  ASSUME UniqueNames, FlowTypeOK, CommandKinds, FlowParts, NEW c \in Client, ReceiveCommand(c)
  PROVE  FlowParts'
<1> DEFINE m == Head(toCollector[c])
<1>1. /\ toCollector[c] # <<>> /\ HandleCommand(c, m)
      /\ toCollector' = [toCollector EXCEPT ![c] = Tail(@)]
      /\ \A d \in Client : toClient'[d] = toClient[d] \o Emitted(d)
      /\ UNCHANGED <<link, availableMe, sendList, subscribed, sending, greeted, serverUp>>
  BY DEF ReceiveCommand, senderVars, viewerVars
<1>2. /\ m \in Command /\ c \in link
      /\ m.cmd \in {"AVAILABLE_ME_CMD", "COLLECT_ME_CMD"} <=> c \in ModuleApp
  BY <1>1, CommandTaken DEF FlowParts, LifeInv
<1>3. \A d \in Client : toCollector'[d] = IF d = c THEN Tail(toCollector[c]) ELSE toCollector[d]
  BY <1>1 DEF FlowTypeOK
<1>4. IndInv /\ WatchedListTold
  BY DEF FlowTypeOK, FlowParts
<1>5. /\ WatchedListTold' /\ IndInv' /\ UNCHANGED lifeVars
      /\ clients \subseteq clients' /\ clients' \subseteq clients \cup {c}
      /\ notified' \subseteq clients'
      /\ \A a \in ModuleApp : a \notin notified' => watched'[a] = watched[a]
      /\ \A a \in ModuleApp :
           a # c \/ m.cmd # "AVAILABLE_ME_CMD" => AvailableOf(a)' = AvailableOf(a)
      /\ m.cmd = "AVAILABLE_ME_CMD" => AvailableOf(c)' = m.els
  BY <1>1, <1>2, <1>4, HandlerEffects
<1>6. LifeInv'
  BY <1>1, <1>2, <1>3, <1>5 DEF FlowParts, LifeInv, IsRunning, lifeVars
<1>7. ASSUME NEW a \in ModuleApp PROVE SenderTold(a)' /\ GreetedInv(a)' /\ ListInv(a)'
  <2> DEFINE u == [svc |-> "NOTIFY_WATCHED_ME_SVC", list |-> watched'[a]]
  <2>1. a \in Client /\ SenderTold(a) /\ GreetedInv(a) /\ ListInv(a)
    BY ClientsApart DEF FlowParts
  <2>2. watched'[a] \in SUBSET Element
    BY <1>5 DEF IndInv, TypeOK
  <2>3. u \in Info /\ u # StateInfo(FALSE) /\ u # StateInfo(TRUE)
    BY <2>2, InfosTyped, News
  <2>4. toClient'[a] = IF a \in notified' THEN Append(toClient[a], u) ELSE toClient[a]
    <3>1. a \in notified' => a \in link
      BY <1>1, <1>5, <1>6 DEF LifeInv
    <3> QED
      BY <1>1, <1>5, <2>1, <3>1, EmittedIs
  <2>5. SenderTold(a)'
    <3>1. CASE a \in notified'
      BY <1>5, <2>2, <2>4, <3>1, ToldByNotification
    <3>2. CASE a \notin notified'
      BY <1>1, <1>5, <2>1, <2>4, <3>2, ToldUndisturbed
    <3> QED
      BY <3>1, <3>2
  <2>6. GreetedInv(a)' /\ (Losing(a)' <=> Losing(a))
    BY <1>1, <2>1, <2>3, <2>4, GreetingUndisturbed
  <2>7. ListInv(a)'
    <3>1. CASE a = c
      BY <1>1, <1>3, <1>5, <2>1, <2>6, <3>1, ListHandled
    <3>2. CASE a # c
      BY <1>1, <1>3, <1>5, <2>1, <2>6, <3>2 DEF ListInv, ListSent
    <3> QED
      BY <3>1, <3>2
  <2> QED
    BY <2>5, <2>6, <2>7
<1>8. ASSUME NEW v \in Viewer PROVE ViewerTold(v)'
  <2>1. v \in Client /\ ViewerTold(v)
    BY ClientsApart DEF FlowParts
  <2>2. PICK u \in Info : /\ u # StateInfo(FALSE)
                        /\ \/ toClient'[v] = toClient[v]
                           \/ toClient'[v] = Append(toClient[v], u)
    <3>1. \/ toClient'[v] = toClient[v]
          \/ \E pairs \in SUBSET Pair :
               toClient'[v] = Append(toClient[v], [svc |-> "ME_UPDATE_SVC", elements |-> pairs])
      BY <1>1, <1>5, <2>1, EmittedIs
    <3>2. \A pairs \in SUBSET Pair :
            /\ [svc |-> "ME_UPDATE_SVC", elements |-> pairs] \in Info
            /\ [svc |-> "ME_UPDATE_SVC", elements |-> pairs] # StateInfo(FALSE)
      BY InfosTyped, News
    <3>3. StateInfo(TRUE) \in Info /\ StateInfo(TRUE) # StateInfo(FALSE)
      BY InfosTyped, News
    <3> QED
      BY <3>1, <3>2, <3>3
  <2> QED
    BY <1>1, <2>1, <2>2, ViewerBystander
<1> QED
  BY <1>5, <1>6, <1>7, <1>8 DEF FlowParts

-----------------------------------------------------------------------------
(* The steps of a sender. *)

\* What a step of one sender leaves alone.
LEMMA SenderStepFrame ==
  ASSUME FlowTypeOK, CommandKinds, NEW a \in ModuleApp, SenderStep(a)
  PROVE  /\ CollectorIdle /\ UNCHANGED <<link, serverUp>>
         /\ \A c \in Client : toCollector'[c] = toCollector[c] \/ c \in link
         /\ \A c \in Client : c # a => toCollector'[c] = toCollector[c] /\ toClient'[c] = toClient[c]
         /\ \A b \in ModuleApp : b # a =>
              /\ subscribed'[b] = subscribed[b] /\ availableMe'[b] = availableMe[b]
              /\ sendList'[b] = sendList[b] /\ (b \in sending' <=> b \in sending)
              /\ b \in greeted' <=> b \in greeted
<1>1. /\ a \in Client /\ toCollector \in [Client -> Seq(Command)]
      /\ toClient \in [Client -> Seq(Info)]
      /\ subscribed \in [ModuleApp -> SUBSET Element]
      /\ availableMe \in [ModuleApp -> SUBSET Element]
      /\ sendList \in [ModuleApp -> BOOLEAN]
  BY ClientsApart DEF FlowTypeOK
<1>2. ASSUME NEW e \in Element,
             \/ AddAvailableMonitorElement(a, e) \/ RemoveAvailableMonitorElement(a, e)
      PROVE  /\ CollectorIdle
             /\ UNCHANGED <<link, serverUp, toCollector, toClient, subscribed, sending, greeted>>
             /\ \A b \in ModuleApp : b # a => /\ availableMe'[b] = availableMe[b]
                                           /\ sendList'[b] = sendList[b]
  BY <1>1, <1>2 DEF AddAvailableMonitorElement, RemoveAvailableMonitorElement, viewerVars
<1>3. ASSUME NEW m, SendCommand(a, m) \/ toCollector' = toCollector
      PROVE  /\ \A c \in Client : toCollector'[c] = toCollector[c] \/ c \in link
             /\ \A c \in Client : c # a => toCollector'[c] = toCollector[c]
  BY <1>1, <1>3 DEF SendCommand
<1>4. CASE SendAvailableMonitorElementList(a)
  <2>1. /\ SendCommand(a, ListCommand(availableMe[a])) \/ toCollector' = toCollector
        /\ CollectorIdle /\ sending' = sending \cup {a}
        /\ UNCHANGED <<link, serverUp, toClient, subscribed, availableMe, sendList, greeted>>
    BY <1>4 DEF SendAvailableMonitorElementList, SendList, ListCommand, viewerVars
  <2> QED
    BY <1>3, <2>1
<1>5. CASE SendMonitorElements(a)
  <2>1. /\ \/ SendCommand(a, [cmd |-> "COLLECT_ME_CMD", els |-> Publication(a)])
           \/ toCollector' = toCollector
        /\ CollectorIdle /\ sending' = sending \ {a}
        /\ sendList' = [sendList EXCEPT ![a] = FALSE]
        /\ UNCHANGED <<link, serverUp, toClient, subscribed, availableMe, greeted>>
    BY <1>5 DEF SendMonitorElements, viewerVars
  <2> QED
    BY <1>1, <1>3, <2>1
<1>6. CASE SenderInfoHandler(a)
  <2>1. /\ CollectorIdle
        /\ UNCHANGED <<link, serverUp, toCollector, availableMe, sending>>
        /\ toClient' = [toClient EXCEPT ![a] = Tail(@)]
    BY <1>6 DEF SenderInfoHandler, viewerVars
  <2>2. /\ \A b \in ModuleApp : b # a => subscribed'[b] = subscribed[b] /\ sendList'[b] = sendList[b]
        /\ \A b \in ModuleApp : b # a => (b \in greeted' <=> b \in greeted)
    BY <1>1, <1>6 DEF SenderInfoHandler, ServerDown
  <2>3. \A c \in Client : c # a => toClient'[c] = toClient[c]
    BY <1>1, <2>1
  <2>4. \A c \in Client : toCollector'[c] = toCollector[c]
    BY <2>1
  <2>5. ASSUME NEW b \in ModuleApp, b # a
        PROVE  /\ subscribed'[b] = subscribed[b] /\ availableMe'[b] = availableMe[b]
               /\ sendList'[b] = sendList[b] /\ (b \in sending' <=> b \in sending)
               /\ b \in greeted' <=> b \in greeted
    <3>1. /\ subscribed'[b] = subscribed[b] /\ sendList'[b] = sendList[b]
          /\ b \in greeted' <=> b \in greeted
      BY <2>2, <2>5
    <3>2. availableMe'[b] = availableMe[b] /\ (b \in sending' <=> b \in sending)
      BY <2>1
    <3> QED
      BY <3>1, <3>2
  <2> QED
    BY <2>1, <2>3, <2>4, <2>5
<1> QED
  BY <1>2, <1>4, <1>5, <1>6 DEF SenderStep

\* A list that a booking changed is due.
LEMMA BookingKeeps ==
  ASSUME FlowTypeOK, NEW a \in ModuleApp, SenderTold(a), GreetedInv(a), NEW e \in Element,
         UNCHANGED <<clients, watched>>,
         AddAvailableMonitorElement(a, e) \/ RemoveAvailableMonitorElement(a, e)
  PROVE  SenderTold(a)' /\ GreetedInv(a)' /\ ListInv(a)'
<1>1. /\ UNCHANGED <<link, toClient, subscribed, sending, greeted>>
      /\ a \notin sending /\ sendList'[a] = TRUE
  BY DEF AddAvailableMonitorElement, RemoveAvailableMonitorElement, FlowTypeOK
<1>2. SenderTold(a)'
  BY <1>1, ToldUndisturbed
<1>3. GreetedInv(a)'
  BY <1>1 DEF GreetedInv, Losing
<1>4. ListInv(a)'
  BY <1>1 DEF ListInv, ListSent
<1> QED
  BY <1>2, <1>3, <1>4

\* A sender whose list is under way has a connection, or hears that it lost it.
LEMMA SendListKeeps ==
  ASSUME FlowTypeOK, CommandKinds, NEW a \in ModuleApp, SenderTold(a), GreetedInv(a),
         UNCHANGED <<clients, watched>>, SendAvailableMonitorElementList(a)
  PROVE  SenderTold(a)' /\ GreetedInv(a)' /\ ListInv(a)'
<1>1. /\ UNCHANGED <<link, toClient, subscribed, greeted, availableMe>>
      /\ SendList(a)
  BY DEF SendAvailableMonitorElementList
<1>2. SenderTold(a)'
  BY <1>1, ToldUndisturbed
<1>3. GreetedInv(a)' /\ (Losing(a)' <=> Losing(a))
  BY <1>1 DEF GreetedInv, Losing
<1>4. ASSUME ListSent(a)'
      PROVE  Prevails(AvailableOf(a)' = availableMe[a], toCollector'[a],
                      {ListCommand(availableMe[a])}, {ListCommand(list) : list \in SUBSET Element})
  <2> DEFINE m == ListCommand(availableMe[a])
             q == toCollector[a]
             for == {ListCommand(availableMe[a])}
             against == {ListCommand(list) : list \in SUBSET Element}
  <2>1. a \in link /\ availableMe[a] # {}
    BY <1>1, <1>3, <1>4 DEF ListSent, GreetedInv
  <2>2. SendCommand(a, m)
    BY <1>1, <2>1 DEF SendList, ListCommand
  <2>3. m \in Command /\ m.cmd = "AVAILABLE_ME_CMD" /\ m \in for
    BY CommandsTyped DEF ListCommand, FlowTypeOK
  <2>4. toCollector'[a] = Append(q, m) /\ q \in Seq(Command)
    <3> HIDE DEF m
    <3> QED
      BY <2>1, <2>2, <2>3, CommandSent, ChannelTypes, ClientsApart
  <2>5. ASSUME NEW f \in BOOLEAN PROVE Prevails(f, toCollector'[a], for, against)
    <3> HIDE DEF m, q, for, against
    <3>1. Prevails(f, Append(q, m), for, against)
      BY <2>3, <2>4, PrevailsAppend
    <3> QED
      BY <2>4, <3>1
  <2>6. (AvailableOf(a)' = availableMe[a]) \in BOOLEAN
    OBVIOUS
  <2> QED
    BY <2>5, <2>6
<1>5. ListInv(a)'
  BY <1>1, <1>4 DEF ListInv
<1> QED
  BY <1>2, <1>3, <1>5

\* The flag is cleared only behind a list that was sent.
LEMMA SendElementsKeeps ==
  ASSUME FlowTypeOK, CommandKinds, NEW a \in ModuleApp, SenderTold(a), GreetedInv(a), ListInv(a),
         UNCHANGED <<clients, watched>>, AvailableOf(a)' = AvailableOf(a), SendMonitorElements(a)
  PROVE  SenderTold(a)' /\ GreetedInv(a)' /\ ListInv(a)'
<1> DEFINE m == [cmd |-> "COLLECT_ME_CMD", els |-> Publication(a)]
           q == toCollector[a]
           for == {ListCommand(availableMe[a])}
           against == {ListCommand(list) : list \in SUBSET Element}
<1>1. /\ UNCHANGED <<link, toClient, subscribed, greeted, availableMe>>
      /\ a \in sending \/ ~sendList[a]
      /\ toCollector' = toCollector \/ SendCommand(a, m)
  BY DEF SendMonitorElements
<1>2. SenderTold(a)'
  BY <1>1, ToldUndisturbed
<1>3. GreetedInv(a)' /\ (Losing(a)' <=> Losing(a))
  BY <1>1 DEF GreetedInv, Losing
<1>4. m \in Command /\ m.cmd = "COLLECT_ME_CMD" /\ m \notin against
  <2>1. Publication(a) \in SUBSET Element
    BY DEF Publication, FlowTypeOK
  <2> QED
    BY <2>1, CommandsTyped DEF ListCommand
<1>5. q \in Seq(Command) /\ (toCollector'[a] = q \/ toCollector'[a] = Append(q, m))
  <2> HIDE DEF m
  <2> QED
    BY <1>1, <1>4, CommandSent, ChannelTypes, ClientsApart
<1>6. ASSUME NEW f \in BOOLEAN, Prevails(f, q, for, against)
      PROVE  Prevails(f, toCollector'[a], for, against)
  <2> HIDE DEF m, q, for, against
  <2>1. Prevails(f, Append(q, m), for, against)
    BY <1>4, <1>5, <1>6, PrevailsAppend
  <2> QED
    BY <1>5, <1>6, <2>1
<1>7. ASSUME ListSent(a)' PROVE Prevails(AvailableOf(a) = availableMe[a], toCollector'[a], for, against)
  <2>1. ListSent(a)
    BY <1>1, <1>3, <1>7 DEF ListSent
  <2>2. Prevails(AvailableOf(a) = availableMe[a], q, for, against)
    BY <2>1 DEF ListInv
  <2>3. (AvailableOf(a) = availableMe[a]) \in BOOLEAN
    OBVIOUS
  <2> QED
    BY <1>6, <2>2, <2>3
<1>8. ListInv(a)'
  BY <1>1, <1>7 DEF ListInv
<1> QED
  BY <1>2, <1>3, <1>8

\* What a sender makes of what it is told.
LEMMA InfoHandledKeeps ==
  ASSUME FlowTypeOK, NEW a \in ModuleApp, SenderTold(a), GreetedInv(a), ListInv(a),
         UNCHANGED <<clients, watched>>, AvailableOf(a)' = AvailableOf(a), SenderInfoHandler(a)
  PROVE  SenderTold(a)' /\ GreetedInv(a)' /\ ListInv(a)'
<1> DEFINE q == toClient[a]
           h == Head(q)
           r == Tail(q)
           loss == {StateInfo(FALSE)}
           for == Telling(watched[a])
<1>1. /\ q # <<>> /\ toClient' = [toClient EXCEPT ![a] = Tail(@)] /\ a \in Client
      /\ UNCHANGED <<link, toCollector, availableMe, sending>>
  BY ClientsApart DEF SenderInfoHandler
<1>2. q \in Seq(Info) /\ h \in Info /\ toClient'[a] = r
  BY <1>1, InfoTaken, ChannelTypes
<1>3. \/ /\ h.svc = "NOTIFY_WATCHED_ME_SVC" /\ subscribed'[a] = h.list
         /\ UNCHANGED <<sendList, greeted>>
      \/ /\ h = StateInfo(TRUE) /\ sendList'[a] = TRUE /\ UNCHANGED subscribed
         /\ greeted' = IF a \in sending THEN greeted \ {a} ELSE greeted \cup {a}
      \/ /\ h = StateInfo(FALSE) /\ subscribed'[a] = {} /\ greeted' = greeted \ {a}
  <2>1. h.svc = "COLLECTOR_STATE_SVC" => h = StateInfo(h.running) /\ h.running \in BOOLEAN
    BY <1>2, InfoFields
  <2> HIDE DEF q
  <2> QED
    BY <1>2, <2>1 DEF SenderInfoHandler, ServerDown, FlowTypeOK, q
<1>4. SenderTold(a)'
  <2>1. h \in for => subscribed'[a] = watched[a]
    BY <1>3, News DEF Telling, StateInfo
  <2>2. subscribed[a] = watched[a] /\ h \notin ListNews => subscribed'[a] = watched[a]
    BY <1>2, <1>3 DEF ListNews
  <2>3. ASSUME NEW f \in BOOLEAN, NEW g \in BOOLEAN, Prevails(f, q, for, ListNews),
               h \in for => g, f /\ h \notin ListNews => g
        PROVE  Prevails(g, r, for, ListNews)
    <3> HIDE DEF for, q
    <3> QED
      BY <1>1, <1>2, <2>3, PrevailsTail DEF q
  <2>4. /\ (subscribed[a] = watched[a]) \in BOOLEAN /\ (subscribed'[a] = watched[a]) \in BOOLEAN
        /\ Prevails(subscribed[a] = watched[a], q, for, ListNews)
    BY DEF SenderTold
  <2>5. Prevails(subscribed'[a] = watched[a], r, for, ListNews)
    <3> HIDE DEF for, q, r, h
    <3> QED
      BY <2>1, <2>2, <2>3, <2>4
  <2> QED
    BY <1>2, <2>5 DEF SenderTold
<1>5. /\ \A i \in Nat : NoneAfter(r, i, loss) <=> NoneAfter(q, i + 1, loss)
      /\ NoneAfter(q, 0, loss) <=> h \notin loss /\ NoneAfter(q, 1, loss)
  <2> HIDE DEF q, loss
  <2> QED
    BY <1>1, <1>2, NoneAfterTail DEF q
<1>6. /\ h = q[1] /\ Len(q) \in Nat \ {0} /\ Len(r) = Len(q) - 1
      /\ \A i \in 1 .. Len(r) : r[i] = q[i + 1]
  BY <1>1, <1>2
<1>7. /\ Losing(a)' <=> ~NoneAfter(q, 1, loss)
      /\ Losing(a) <=> h = StateInfo(FALSE) \/ ~NoneAfter(q, 1, loss)
  <2>1. 0 \in Nat /\ 0 + 1 = 1
    OBVIOUS
  <2>2. NoneAfter(r, 0, loss) <=> NoneAfter(q, 1, loss)
    BY <1>5, <2>1
  <2> QED
    BY <1>2, <1>5, <2>2 DEF Losing
<1>8. a \in greeted' => a \in link \/ Losing(a)'
  <2>1. CASE h = StateInfo(TRUE)
    <3>1. 1 \in 1 .. Len(q)
      BY <1>6
    <3> QED
      BY <1>6, <1>7, <2>1, <3>1 DEF GreetedInv
  <2>2. CASE h = StateInfo(FALSE)
    BY <1>3, <2>2, News DEF StateInfo
  <2>3. CASE h # StateInfo(TRUE) /\ h # StateInfo(FALSE)
    BY <1>3, <1>7, <2>3 DEF GreetedInv
  <2> QED
    BY <2>1, <2>2, <2>3
<1>9. ASSUME NEW i \in 1 .. Len(r), r[i] = StateInfo(TRUE)
      PROVE  a \in link \/ ~NoneAfter(r, i, loss)
  <2>1. i + 1 \in 1 .. Len(q) /\ q[i + 1] = StateInfo(TRUE) /\ i \in Nat
    <3>1. Len(q) \in Nat /\ Len(r) = Len(q) - 1 /\ i \in 1 .. Len(r)
      BY <1>6
    <3>2. q[i + 1] = StateInfo(TRUE)
      BY <1>6, <1>9
    <3> HIDE DEF q, r
    <3> QED
      BY <3>1, <3>2
  <2> QED
    BY <1>5, <2>1 DEF GreetedInv
<1>10. GreetedInv(a)'
  BY <1>1, <1>2, <1>8, <1>9 DEF GreetedInv
<1>11. ListInv(a)'
  <2>1. CASE h = StateInfo(TRUE)
    <3>1. a \in greeted' => a \notin sending /\ sendList'[a] = TRUE
      BY <1>3, <2>1, News DEF StateInfo
    <3> QED
      BY <1>1, <3>1 DEF ListInv, ListSent
  <2>2. CASE h = StateInfo(FALSE)
    <3>1. a \notin greeted'
      BY <1>3, <2>2, News DEF StateInfo
    <3> QED
      BY <3>1 DEF ListInv, ListSent
  <2>3. CASE h # StateInfo(TRUE) /\ h # StateInfo(FALSE)
    <3>1. UNCHANGED <<sendList, greeted>> /\ (Losing(a)' <=> Losing(a))
      BY <1>3, <1>7, <2>3
    <3> QED
      BY <1>1, <3>1 DEF ListInv, ListSent
  <2> QED
    BY <2>1, <2>2, <2>3
<1> QED
  BY <1>4, <1>10, <1>11

LEMMA SenderKeeps ==
  ASSUME FlowTypeOK, CommandKinds, FlowParts, NEW a \in ModuleApp, SenderStep(a)
  PROVE  FlowParts'
<1>1. /\ CollectorIdle /\ UNCHANGED <<link, serverUp>>
      /\ \A c \in Client : toCollector'[c] = toCollector[c] \/ c \in link
      /\ \A c \in Client : c # a => toCollector'[c] = toCollector[c] /\ toClient'[c] = toClient[c]
      /\ \A b \in ModuleApp : b # a =>
           /\ subscribed'[b] = subscribed[b] /\ availableMe'[b] = availableMe[b]
           /\ sendList'[b] = sendList[b] /\ (b \in sending' <=> b \in sending)
           /\ b \in greeted' <=> b \in greeted
  BY SenderStepFrame
<1>2. /\ LifeInv' /\ WatchedListTold' /\ UNCHANGED <<clients, watched>>
      /\ \A b \in ModuleApp : AvailableOf(b)' = AvailableOf(b)
  BY <1>1, IdleParts
<1>3. SenderTold(a)' /\ GreetedInv(a)' /\ ListInv(a)'
  BY <1>2, BookingKeeps, SendListKeeps, SendElementsKeeps, InfoHandledKeeps
     DEF SenderStep, FlowParts
<1>4. ASSUME NEW b \in ModuleApp, b # a PROVE SenderTold(b)' /\ GreetedInv(b)' /\ ListInv(b)'
  BY <1>1, <1>2, <1>4, SenderBystander, ClientsApart DEF FlowParts
<1>5. ASSUME NEW v \in Viewer PROVE ViewerTold(v)'
  <2>1. v \in Client /\ v # a
    BY ClientsApart
  <2> QED
    BY <1>1, <2>1 DEF FlowParts, ViewerTold
<1> QED
  BY <1>2, <1>3, <1>4, <1>5 DEF FlowParts

-----------------------------------------------------------------------------
(* The steps of a viewer. *)

\* What a step of one viewer leaves alone.
LEMMA ViewerStepFrame ==
  ASSUME FlowTypeOK, NEW v \in Viewer, ViewerStep(v)
  PROVE  /\ CollectorIdle /\ UNCHANGED <<link, senderVars>>
         /\ \A c \in Client : toCollector'[c] = toCollector[c] \/ c \in link
         /\ \A c \in Client : c # v => toCollector'[c] = toCollector[c] /\ toClient'[c] = toClient[c]
         /\ \A w \in Viewer : w # v => (w \in serverUp' <=> w \in serverUp)
<1>1. /\ v \in Client /\ toCollector \in [Client -> Seq(Command)]
      /\ toClient \in [Client -> Seq(Info)]
  BY ClientsApart DEF FlowTypeOK
<1>2. ASSUME NEW m, SendCommand(v, m) \/ toCollector' = toCollector
      PROVE  /\ \A c \in Client : toCollector'[c] = toCollector[c] \/ c \in link
             /\ \A c \in Client : c # v => toCollector'[c] = toCollector[c]
  BY <1>1, <1>2 DEF SendCommand
<1>3. CollectorIdle /\ UNCHANGED <<link, senderVars>>
  BY DEF ViewerStep, ViewerRequest, QueryAvailable, HandleNameList, ViewerSetUpdateMode,
         ViewerInfoHandler
<1>4. \E m : SendCommand(v, m) \/ toCollector' = toCollector
  BY DEF ViewerStep, ViewerRequest, QueryAvailable, HandleNameList, ViewerSetUpdateMode,
         ViewerInfoHandler, SendUpdateMode
<1>5. toClient' = toClient \/ toClient' = [toClient EXCEPT ![v] = Tail(@)]
  BY DEF ViewerStep, ViewerRequest, QueryAvailable, HandleNameList, ViewerSetUpdateMode,
         ViewerInfoHandler
<1>6. \A c \in Client : c # v => toClient'[c] = toClient[c]
  BY <1>1, <1>5
<1>7. serverUp' = serverUp \/ serverUp' = serverUp \cup {v} \/ serverUp' = serverUp \ {v}
  BY DEF ViewerStep, ViewerRequest, QueryAvailable, HandleNameList, ViewerSetUpdateMode,
         ViewerInfoHandler, viewerVars
<1> QED
  BY <1>2, <1>3, <1>4, <1>6, <1>7

\* A viewer that takes a message knows of the collector what the message says, or what
\* it knew already.
LEMMA ViewerTakes ==
  ASSUME FlowTypeOK, NEW v \in Viewer, ViewerTold(v), UNCHANGED link,
         toClient[v] # <<>>, toClient'[v] = Tail(toClient[v]),
         Head(toClient[v]) = StateInfo(TRUE) => v \in serverUp',
         v \in serverUp /\ Head(toClient[v]) # StateInfo(FALSE) => v \in serverUp'
  PROVE  ViewerTold(v)'
<1> SUFFICES ASSUME v \in link PROVE ViewerTold(v)'
  BY DEF ViewerTold
<1> DEFINE q == toClient[v]
           for == {StateInfo(TRUE)}
           against == {StateInfo(FALSE)}
<1>1. q \in Seq(Info) /\ q # <<>> /\ toClient'[v] = Tail(q)
  BY ChannelTypes, ClientsApart
<1>2. ASSUME NEW f \in BOOLEAN, NEW g \in BOOLEAN, Prevails(f, q, for, against),
             Head(q) \in for => g, f /\ Head(q) \notin against => g
      PROVE  Prevails(g, Tail(q), for, against)
  <2> HIDE DEF q, for, against
  <2> QED
    BY <1>1, <1>2, PrevailsTail
<1>3. /\ (v \in serverUp) \in BOOLEAN /\ (v \in serverUp') \in BOOLEAN
      /\ Prevails(v \in serverUp, q, for, against)
  BY DEF ViewerTold
<1>4. /\ Head(q) \in for => v \in serverUp'
      /\ v \in serverUp /\ Head(q) \notin against => v \in serverUp'
  OBVIOUS
<1>5. Prevails(v \in serverUp', Tail(q), for, against)
  <2> HIDE DEF q, for, against
  <2> QED
    BY <1>2, <1>3, <1>4
<1> QED
  BY <1>1, <1>5 DEF ViewerTold

LEMMA ViewerKeeps ==
  ASSUME FlowTypeOK, FlowParts, NEW v \in Viewer, ViewerStep(v) PROVE FlowParts'
<1>1. /\ CollectorIdle /\ UNCHANGED <<link, senderVars>>
      /\ \A c \in Client : toCollector'[c] = toCollector[c] \/ c \in link
      /\ \A c \in Client : c # v => toCollector'[c] = toCollector[c] /\ toClient'[c] = toClient[c]
      /\ \A w \in Viewer : w # v => (w \in serverUp' <=> w \in serverUp)
  BY ViewerStepFrame
<1>2. /\ LifeInv' /\ WatchedListTold' /\ UNCHANGED <<clients, watched>>
      /\ \A a \in ModuleApp : AvailableOf(a)' = AvailableOf(a)
  BY <1>1, IdleParts
<1>3. ASSUME NEW a \in ModuleApp PROVE SenderTold(a)' /\ GreetedInv(a)' /\ ListInv(a)'
  <2>1. /\ a \in Client /\ a # v
        /\ SenderTold(a) /\ GreetedInv(a) /\ ListInv(a)
    BY ClientsApart DEF FlowParts
  <2>2. toCollector'[a] = toCollector[a] /\ toClient'[a] = toClient[a]
    BY <1>1, <2>1
  <2>3. UNCHANGED <<link, availableMe, sendList, subscribed, sending, greeted>>
    BY <1>1 DEF senderVars
  <2> QED
    BY <1>2, <2>1, <2>2, <2>3, SenderBystander
<1>4. ASSUME NEW w \in Viewer, w # v PROVE ViewerTold(w)'
  <2>1. /\ w \in Client /\ ViewerTold(w) /\ toClient'[w] = toClient[w] /\ UNCHANGED link
        /\ w \in serverUp' <=> w \in serverUp
    BY <1>1, <1>4, ClientsApart DEF FlowParts
  <2> QED
    BY <2>1, InfosTyped, News, ViewerBystander
<1>5. ViewerTold(v)'
  <2>1. v \in Client /\ ViewerTold(v) /\ link' = link
    BY <1>1, ClientsApart DEF FlowParts
  <2>2. CASE UNCHANGED <<toClient, serverUp>>
    BY <2>1, <2>2 DEF ViewerTold
  <2>3. CASE HandleNameList(v)
    <3>1. /\ toClient[v] # <<>> /\ Head(toClient[v]).svc = "NAME_LIST_RPC" /\ serverUp' = serverUp
          /\ toClient' = [toClient EXCEPT ![v] = Tail(@)]
      BY <2>3 DEF HandleNameList, viewerVars
    <3>2. toClient'[v] = Tail(toClient[v])
      BY <2>1, <3>1, InfoTaken
    <3>3. Head(toClient[v]) # StateInfo(TRUE)
      BY <3>1 DEF StateInfo
    <3> QED
      BY <2>1, <3>1, <3>2, <3>3, ViewerTakes
  <2>4. CASE ViewerInfoHandler(v)
    <3> DEFINE info == Head(toClient[v])
    <3>1. /\ toClient[v] # <<>> /\ toClient' = [toClient EXCEPT ![v] = Tail(@)]
          /\ serverUp' = IF info.svc # "COLLECTOR_STATE_SVC" THEN serverUp
                         ELSE IF info.running THEN serverUp \cup {v} ELSE serverUp \ {v}
      BY <2>4 DEF ViewerInfoHandler
    <3>2. toClient'[v] = Tail(toClient[v]) /\ info \in Info
      BY <2>1, <3>1, InfoTaken
    <3>3. info = StateInfo(TRUE) => v \in serverUp'
      BY <3>1 DEF StateInfo
    <3>4. v \in serverUp /\ info # StateInfo(FALSE) => v \in serverUp'
      BY <3>1, <3>2, InfoFields
    <3> QED
      BY <2>1, <3>1, <3>2, <3>3, <3>4, ViewerTakes
  <2>5. ViewerStep(v) => UNCHANGED <<toClient, serverUp>> \/ HandleNameList(v) \/ ViewerInfoHandler(v)
    BY DEF ViewerStep, ViewerRequest, QueryAvailable, ViewerSetUpdateMode, viewerVars
  <2> QED
    BY <2>2, <2>3, <2>4, <2>5
<1> QED
  BY <1>2, <1>3, <1>4, <1>5 DEF FlowParts

-----------------------------------------------------------------------------
(* The inductive invariant of the flow. *)

LEMMA FlowPartsStep ==
  ASSUME UniqueNames
  PROVE  FlowTypeOK /\ CommandKinds /\ FlowParts /\ [FlowNext]_flowVars => FlowParts'
<1> SUFFICES ASSUME FlowTypeOK, CommandKinds, FlowParts, [FlowNext]_flowVars PROVE FlowParts'
  OBVIOUS
<1>1. CASE CollectorStep
  BY <1>1, StartKeeps, AnnounceKeeps, ExitKeeps, ConnectKeeps, ReceiveKeeps, AnswerKeeps
     DEF CollectorStep
<1>2. CASE UNCHANGED flowVars
  <2>1. UNCHANGED <<collectorState, starts, clients, moduleOf, subs, available, watched, link,
                    toCollector, toClient, availableMe, sendList, subscribed, sending,
                    greeted, serverUp>>
    BY <1>2 DEF flowVars, vars, lifeVars, clientVars, storageVars, senderVars, viewerVars
  <2>2. LifeInv'
    BY <2>1 DEF FlowParts, LifeInv, IsRunning
  <2>3. WatchedListTold'
    BY <2>1 DEF FlowParts, WatchedListTold, IsRunning, GetModuleClientID, GetSubscribedList
  <2>4. \A a \in ModuleApp : SenderTold(a)' /\ GreetedInv(a)' /\ ListInv(a)'
    BY <2>1, SenderBystander DEF FlowParts, AvailableOf
  <2>5. \A v \in Viewer : ViewerTold(v)'
    BY <2>1 DEF FlowParts, ViewerTold
  <2> QED
    BY <2>2, <2>3, <2>4, <2>5 DEF FlowParts
<1> QED
  BY <1>1, <1>2, SenderKeeps, ViewerKeeps DEF FlowNext

LEMMA FlowInitParts == FlowInit => FlowParts
<1> SUFFICES ASSUME FlowInit PROVE FlowParts
  OBVIOUS
<1>1. LifeInv /\ WatchedListTold
  BY DEF FlowInit, Init, LifeInv, WatchedListTold, IsRunning
<1>2. ASSUME NEW a \in ModuleApp PROVE SenderTold(a) /\ GreetedInv(a) /\ ListInv(a)
  <2>1. /\ a \in Client /\ toClient[a] = <<>> /\ greeted = {}
        /\ subscribed[a] = {} /\ watched[a] = {}
    BY ClientsApart DEF FlowInit, Init
  <2>2. SenderTold(a)
    BY <2>1 DEF SenderTold, Prevails, NoneAfter
  <2>3. GreetedInv(a) /\ ListInv(a)
    BY <2>1 DEF GreetedInv, ListInv, ListSent
  <2> QED
    BY <2>2, <2>3
<1>3. \A v \in Viewer : ViewerTold(v)
  BY DEF FlowInit, ViewerTold
<1> QED
  BY <1>1, <1>2, <1>3 DEF FlowParts

LEMMA FlowInvariance ==
  ASSUME UniqueNames PROVE FlowSpec => []FlowInv
<1>1. FlowInit => FlowTypeOK /\ CommandKinds /\ FlowParts
  BY FlowInitTypes, FlowInitParts
<1>2. FlowTypeOK /\ CommandKinds /\ FlowParts /\ [FlowNext]_flowVars
        => FlowTypeOK' /\ CommandKinds' /\ FlowParts'
  BY FlowStepTypes, FlowPartsStep
<1>3. FlowTypeOK /\ CommandKinds /\ FlowParts => FlowInv
  BY DEF FlowInv, FlowParts
<1> QED
  BY <1>1, <1>2, <1>3, PTL DEF FlowSpec

\* What prevails holds when nothing is under way.
LEMMA NothingUnderWay ==
  ASSUME NEW fact \in BOOLEAN, NEW for, NEW against, Prevails(fact, <<>>, for, against)
  PROVE  fact
BY DEF Prevails

\* The list the collector computes for a module is the one it told its client last.
LEMMA SubscriptionsAreWatched ==
  ASSUME UniqueNames, FlowInv, NEW a \in ModuleApp, a \in link
  PROVE  GetSubscribedList(ModuleName[a]) = watched[a]
<1>1. IndInv /\ WatchedListTold /\ IsRunning /\ starts = 1
  BY DEF FlowInv, FlowTypeOK, LifeInv
<1>2. ModuleName[a] \in Module
  BY ModuleNameAssumption
<1>3. CASE a \in clients
  <2>1. a \in GetModuleClientID(ModuleName[a])
    BY <1>1, <1>2, <1>3, OnlyClientOfItsModule
  <2> QED
    BY <1>1, <1>2, <2>1 DEF WatchedListTold
<1>4. CASE a \notin clients
  <2>1. ASSUME ModuleName[a] \in known PROVE FALSE
    <3>1. PICK b \in clients : moduleOf[b] = ModuleName[a]
      BY <1>1, <2>1 DEF IndInv, KnownModulesServed
    <3>2. b \in ModuleApp /\ ModuleName[b] = ModuleName[a]
      BY <1>1, <1>2, <3>1, ModuleNameAssumption DEF IndInv, TypeOK, ClientKinds
    <3> QED
      BY <1>4, <3>1, <3>2 DEF UniqueNames
  <2>2. GetSubscribedList(ModuleName[a]) = {}
    BY <1>1, <1>2, <2>1 DEF IndInv, StorageOfKnownModules, GetSubscribedList
  <2> QED
    BY <1>4, <2>2 DEF FlowInv, SenderTold
<1> QED
  BY <1>3, <1>4

\* Senders and viewers agree with the collector that is there.  A sender that has
\* handled what it was sent publishes exactly what is subscribed to, and a viewer knows
\* that the collector runs, through any number of exits, restarts and reconnections
\* between which the messages under way are lost.
THEOREM ClientsAgreeWithCollector ==
  ASSUME UniqueNames PROVE FlowSpec => []ClientsFollowCollector
<1>1. FlowInv => ClientsFollowCollector
  <2> SUFFICES ASSUME FlowInv PROVE ClientsFollowCollector
    OBVIOUS
  <2>1. ASSUME NEW a \in ModuleApp, a \in link, toClient[a] = <<>>
        PROVE  subscribed[a] = GetSubscribedList(ModuleName[a])
    <3>1. Prevails(subscribed[a] = watched[a], <<>>, Telling(watched[a]), ListNews)
      BY <2>1 DEF FlowInv, SenderTold
    <3>2. (subscribed[a] = watched[a]) \in BOOLEAN
      OBVIOUS
    <3> QED
      BY <2>1, <3>1, <3>2, NothingUnderWay, SubscriptionsAreWatched
  <2>2. ASSUME NEW v \in Viewer, v \in link, toClient[v] = <<>> PROVE v \in serverUp
    <3>1. Prevails(v \in serverUp, <<>>, {StateInfo(TRUE)}, {StateInfo(FALSE)})
      BY <2>2 DEF FlowInv, ViewerTold
    <3>2. (v \in serverUp) \in BOOLEAN
      OBVIOUS
    <3> QED
      BY <3>1, <3>2, NothingUnderWay
  <2> QED
    BY <2>1, <2>2 DEF ClientsFollowCollector, SendersFollowSubscriptions, ViewersSeeCollector
<1> QED
  BY <1>1, FlowInvariance, PTL

\* A sender that the collector greeted, and whose flag says that no list is due, has its
\* list at the collector: what the flag was cleared for was not lost with a process that
\* is gone.  Only a greeting between the sending of the list and the clearing of the
\* flag, which the code does outside of the mutex, is left out.
THEOREM AnnouncedListsAreKnown ==
  ASSUME UniqueNames PROVE FlowSpec => []AnnouncedListKnown
<1>1. FlowInv => AnnouncedListKnown
  <2> SUFFICES ASSUME FlowInv, NEW a \in greeted, Settled(a), a \notin sending, ~sendList[a],
                      availableMe[a] # {}, NEW e \in availableMe[a]
               PROVE  <<ModuleName[a], e>> \in available
    BY DEF AnnouncedListKnown
  <2>1. a \in ModuleApp /\ e \in Element
    BY DEF FlowInv, FlowTypeOK
  <2>2. ~Losing(a)
    BY DEF Settled, Losing, NoneAfter
  <2>3. AvailableOf(a) = availableMe[a]
    <3>1. Prevails(AvailableOf(a) = availableMe[a], <<>>, {ListCommand(availableMe[a])},
                   {ListCommand(list) : list \in SUBSET Element})
      BY <2>1, <2>2 DEF FlowInv, ListInv, ListSent, Settled
    <3>2. (AvailableOf(a) = availableMe[a]) \in BOOLEAN
      OBVIOUS
    <3> QED
      BY <3>1, <3>2, NothingUnderWay
  <2> QED
    BY <2>1, <2>3 DEF AvailableOf
<1> QED
  BY <1>1, FlowInvariance, PTL

=============================================================================
