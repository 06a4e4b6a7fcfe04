# Formal models of dqm4hep-online

dqm4hep-online is the online part of a data quality monitoring framework for
high-energy physics. Processes exchange events, runs, histograms ("monitor
elements") and logs. This directory holds TLA+ models of its components, the TLC
configurations that check them on small instances, and proofs checked by TLAPS.
`PROJECT.json` maps every definition to the lines of source it models, and lists
the runs, the theorems and the hazards.

The repository is in the middle of a migration. Its `CMakeLists.txt` builds the
run control, the event source, the online manager and the remote logger, in the
namespace `dqm4hep::online` on top of `dqm4hep::net`. The collectors, the
applications that run modules and the DIM run control, in `dqm4hep::core` on top
of DIM, are in the tree but not in the build. Both are modelled from their source.

## The system

| Component | State | Operations | Talks to |
|---|---|---|---|
| `MonitorElementCollector` | clients, module of each, update modes; per module: available list, stored elements, subscribers | start, stop, eight commands, client exit | senders and viewers, DIM |
| `MonitorElementSender` | available elements, subscribed list, flag "list must be sent" | add, remove, `sendMonitorElements`, `infoHandler` | collector; main loop of a module application |
| `MonitorElementClient` | update mode, state of the collector, listeners | subscribe, unsubscribe, replace, query, `setUpdateMode`, `infoHandler` | collector; a GUI |
| `RunControl` | current run, flag, name, password, two signals | `setName`, `setPassword`, two `startNewRun`, `endCurrentRun` | its listeners |
| `RunControlServer`, `RunControlInterface`, `HttpRunControl` | run control, services, plugin, stop flags | `run`, `stop`, posts, status request | Mongoose (HTTP), `dqm4hep::net` |
| `RunControlService`, `DimRunControlClient` | run, run number, password; local copy of the run | RPCs and web forms; services and the answer of a request | each other, DIM |
| `DimEventCollector`, `DimEventClient`, `EventClient` | registered clients with mode and sub-event, current event; bounded queue | registration, modes, collect, update, query | event sources, modules, DIM |
| `EventSource` | collectors with "registered", streamer | `addCollector`, `start`, `sendEvent` | event collectors |
| `AnalysisModuleApplication`, `StandaloneModuleApplication`, cycles | run loop, current run, cycle counters, archive | `readSettings`, `run`, exit | run control, event collector, monitor element collector; the module |
| `ModuleApi` | directories and elements of a module | make, change, remove directories; book, delete | element manager, sender |
| `AlertSystem` | emitters, infos, timer, last alert | notify, connect, disconnect, timer handler | DIM |
| `LogCollector`, `RemoteLogger`, `OnlineManagerServer` | bounded list of log entries | receive, clean, answer | loggers |
| `StatisticsService`, `StatisticsClient` | window of a thousand values | update | DIM |

What makes them correct, and what makes it hard:

* **Monitor element flow.** Modules must be told exactly which elements are
  watched, viewers must be sent what they subscribe to and nothing else, and
  nothing of a process that is gone may stay behind. Six handlers change
  subscriptions; a module application has two threads; DIM loses commands that
  find no server; the collector may exit and come back with nothing.
* **Runs.** Starts and ends of runs alternate and match, every application sees
  them, and only holders of the password cause them. The run control has no lock,
  its server has three threads, the destructor ends a run, and clients keep a copy
  that both requests and services write.
* **Module loop.** Each run gets one start and one end, events of one run are not
  processed in another, an error must not skip the end of run. The run is changed
  by DIM's thread while the loop uses it.
* **Event flow.** Clients and collector must agree on who is registered and in update
  mode while either exits; queues are bounded; sources follow collectors that restart,
  and one collector must not cost the others an event.
* **Offers and alerts.** What a module offers must be what it has; an interface must
  follow the emitters that are there, with a timer on another thread.

## Modules

### MonitorElementCollector

One DIM server. DIM runs the handlers of a server on one thread, one after the
other, so each handler is one action, named after its method: the `Handle...`
actions, `DeregisterModule` and `DeregisterViewer` (the two halves of
`deregisterClient`, called by `clientExitHandler`), `Start` and `Stop`.

The nested maps `module -> element -> {element, client ids}` become relations on
pairs `<<module, element>>`: `available`, `entries`, `stored` and `subs[viewer]`.
This is the same information, and "delete a `ModuleMeInfo`" becomes "drop all pairs
of the module". Contents of elements, serialisation and logging are left out. The
sends of a handler are the variables `notified`, `published`, `announced`, which
hold what the last step sent.

`MaxStarts` bounds the calls of `start()` on one object. A second start is legal
and finds the maps of the first life; no program of the repository does it.

### MonitorElementFlow

Extends the collector with the processes around it. A connection is a pair of
queues (`toCollector`, `toClient`) that keeps its order and is emptied when the
collector exits; commands without a connection are lost (`sendCommandNB`). When
the collector exits its clients get the value they asked DIM for, `STOPPED`.
`Connect` and `AnnounceRunning` are apart because `start()` sleeps a second before
it updates the state: a sender (`DimUpdatedInfo`) that connects later never hears
that the collector runs, a viewer (`DimInfo`) does.

The sender's `sendMonitorElements` is two actions, `SendAvailableMonitorElementList`
and `SendMonitorElements`, because it reads and clears `m_sendAvailableMeList`
outside of the mutex while `infoHandler` runs on DIM's thread. `greeted` is a
history variable. External: DIM's queues and connections.

`Channels` holds the words in which this module and `EventFlow` speak of queues:
`NoneAfter` and `Prevails` (see Theorems). They look at positions, without recursion.

### RunLifecycle, RunControl, RunControlServer

`RunLifecycle` is the abstract specification: a sequence of announcements in which
a start finds no run open and an end closes the run that is open.

`RunControl` models the class. It has no lock and other threads read it, so every
assignment and signal is an action, and `pc` says where the ongoing call stands.
A run is its number. `ImplementsLifecycle` is the instance of `RunLifecycle` with
the run control's `messages`.

`RunControlServer` extends it with the server of `dqm4hep-start-rc-server` and the
HTTP plugin. The HTTP thread executes the calls; the network server's thread
answers status requests in two reads; the main thread starts, waits and shuts
down, interrupted by the Ctrl+C handler. External assumptions: Mongoose has one
thread (the default of its constructor), its `stop()` waits for the post that is
handled, and `dqm4hep::net::Server::stop` waits for the status request. A process
that sends through the null service pointer dies; the model lets it end without
the announcement. Without the interface's plugin `run` throws and the program ends.
`MCRunControlServer` adds a program of one thread that has a run control and no server, so that
one run checks the class under every call as well.

### DimRunControl

The older run control over DIM: `RunControlService` and one application with a
`DimRunControlClient`. Handlers are actions; `connectToService` is four steps, because
DIM links and delivers between them: the infos exist, `m_isConnected` is set, the
request is sent after a sleep, the application follows. `Stop` keeps the run, `Die`
loses it; both break the link, lose what is under way from some point on and end in
`NO_LINK`, the call of the infos without data, on which the client ends its run.
Run numbers are integers: the service starts any, the client refuses negative ones from
START_OF_RUN (`DimRunControlClient.cc:287`) and whatever is not positive from an answer
(`:352`); `Takes` says so. `informed` is a history variable: in which ways the service's run
was, or is being, told over the present link. External: the core library's `RunControl` (its class of the same name under
`src/` is a later one) and DIM. Web posts are not overlapped with commands.

### ModuleProtocol, ModuleApplication, AnalysisModuleApplication, StandaloneModuleApplication, ModuleApplications

`ModuleProtocol` is the abstract specification: the order of calls that `Module.h` and
`AnalysisModule.h` describe. `ModuleApplication` holds what both applications share:
the stages of `readSettings`, the signal handler, the archive, the cycle. The two
applications extend it with their `run()`; `ModuleApplications` composes them with
their `main` and states the properties. `pc` says where the main thread is: every call
of `run()` that can fail is a step of its own, because between any two of them DIM's
thread starts and ends runs and pushes events, and SIGINT comes.

`moduleRun` is the run the module was given, `runNumber` the one the application noted,
`number` the run control client's: they are three, as in the code. `run()` keeps the pointer
`pRun` to a `Run` that DIM's thread deletes when the run ends or is replaced: `held` says
that it is still there, and what is read through it afterwards (the number that is noted,
the archive's name, the run that the module is given) is any number. `stale` remembers that it was
gone when the module was given it. Each event carries the run the module was in when it came, and
whether `clearQueue` had been called for that run: one that comes behind it, before the end
of the run, belongs to the run and stays. A call of the queue is one step here; `EventQueue`
has its steps. Time is a choice: a cycle may end by its timer or timeout at any look. External: the module, the
archiver, and the clients seen from the loop.

### EventFlow

`DimEventCollector` and `DimEventClient` over connections that keep their order, with the
application's thread of the client between the steps of its DIM thread. `HandleClientId`
and `SendParameters` are apart because `infoHandler` reads the update mode without the lock
and sends it later; `raced` remembers that `setUpdateMode` came in between.
`performServiceConnection` is three: `CreateInfos`, after which DIM links and
delivers, `AskServerState` and `RegisterAtOnce`, which sends a registration of its own beside
the one of the announced state. An event is counted, not kept. `UpdateEventService` sends to the updated clients and to
*any* others: the array of ids has no terminating zero (see below). External: DIM.

### EventQueue

The queue of an `EventClient` between DIM's thread (`eventReception`, `pushEvent`) and the
application's (`takeEvent`, `clearQueue`, `setMaximumQueueSize`). Only `pushEvent` names its
lock; the other three write `scoped_lock( & this->m_mutex);`, an object without a name that
gives the mutex back at the semicolon. So `pushEvent` keeps the application out of nothing but
that line (`PassLock`), and the comparison, the pops, the read of the front and the push are
steps of their own. `broken` is the undefined behaviour of `front` or `pop` on an empty
queue; races inside `std::queue` are left out. `overtaken` is a history variable: a
`pushEvent` that compared before a change of the maximum pushed after it.

### EventSource

The random event source's `main` around an `EventSource`. Each visit of a collector in the
loop of `sendEvent` is its own steps: ask DIM, register (request and answer), send. The
servers are external: the repository has only their client side. `steady`, `served`,
`refused`, `unseen` are history variables.

### AlertSystem

Notifiers, and an interface whose `timerHandler` (DIM's thread: remove, add, start the
timer) interleaves with `connectToService` and `disconnectFromService` (the application's
thread). The map of infos has no lock: two loops over it at once may kill the process
(`CorruptMap`). `overlapped` remembers that a disconnection began inside the handler.

### ModuleApi

The directories and elements of one module and the list its sender offers. An element is
its full name with its directory (`DirectoryOf`); those whose path is given without the
leading `/` are `Rootless`. `orphans` is a history variable: elements that went
without the sender being told. The collector comes (`Link`), announces itself (`CollectorRuns`,
or not, when it did so before the link) and goes; `sendMonitorElements` is two steps with DIM's
thread in between, and what it sends without a link is lost. `greeted`, a history variable
as in `MonitorElementFlow`, remembers an announcement over the present link. The element manager is of the core library (external).

## Runs

TLC explores every reachable state of each instance, and every run passes:

| Run | Instance | Shows |
|---|---|---|
| `collector_two_viewers` | 2 viewers, 3 applications of which 2 share a name, 1 element, 2 starts | registration, no orphan record, subscriptions lost only by their owner, updates only to whom they are for |
| `collector_two_elements` | 1 viewer, 2 modules, 2 elements | requests over several modules and elements: modules told the exact list, publications subscribed |
| `flow_restart` | 1 viewer, 1 module, collector restarts once | the inductive invariant of the collector among its clients; senders and viewers agree with the collector when nothing is under way; a list that is not due is known |
| `flow_delivery` | 1 viewer, 1 module, no restart | liveness: lists and watched elements arrive |
| `server_threads` | 2 runs, 1 password; 4 posts, 2 Ctrl+C, 2 status requests at a server, or 4 calls of a run control without one | announcements agree with the state, need the password and are a run lifecycle; granted starts succeed; signals find their services; Ctrl+C ends the server |
| `dim_run_following` | run numbers -2, 0, 1, 2; 3 commands, 2 outages | a client follows the service's run, or was told of it only in ways it does not take; runs that are over end at the client |
| `module_applications` | both applications, 2 run numbers, 2 starts of run, 3 events, a queue of 2, 2 SIGINTs | the module is called as documented; no event from before a `clearQueue` is processed behind it; the archive is that of a run that existed; runs and stops are noticed |
| `event_flow` | 1 client, 3 calls, 2 events, 1 exit of the collector | a confirmed client is known with its mode, through double registrations; clients linked in time register |
| `event_queue` | a queue of up to 2, 5 arrivals, 3 calls | only a `pushEvent` that crosses `setMaximumQueueSize` leaves the queue above its maximum |
| `event_source` | 2 collectors, 2 exits | registrations are real, nobody is left out of a send, restarted collectors are asked again |
| `alerts` | 2 emitters | the timer is never lost, disconnection leaves nothing, emitters are followed and dropped |
| `module_api` | 1 directory and the root, 3 elements (1 without the leading `/`), 2 kinds | the offer agrees with what is booked, and gets to every collector that announces itself over a link |

Every property has a mutant: a definition of the model changed the way a plausible bug
would change the code (the operators marked "Mutant"), under which TLC finds the property
violated in the same instance.

**Bounds.** Two viewers are enough for one to disturb the other, two applications
for names to collide, two elements and two modules for a request to be accepted in
part. Collector runs have no other bound than `MaxStarts`: commands may come in any
number. In the flow, `MaxCommands`, `MaxBookings`, `MaxExits` and `MaxQueue` cap the
user's commands, bookings, exits and queue lengths; two bookings are an addition
and a deletion, one exit is a restart, and two messages in a queue overtake none but
leave one behind when the collector goes away. In `server_threads` one run control is the
server's, which uses one overload of `startNewRun`, and another one stands alone and gets
every call of the class (`MCRunControlServer`); four calls are a password, two starts and an
end; the proofs do not depend on any bound.
In `dim_run_following` the numbers are one of each kind that the client tells apart and a
second positive one, so that an answer can start one run over another; three commands are a start, an end and another start or a new
run over a run, with a client that connects before, between or after them; two outages
are one in each state of the client's request and a second one while it recovers.

In `module_applications` two starts of run are a run replaced by another or by itself; three
events overflow a queue of two; `CycleValue` 2 lets a counter cycle end and another begin;
two SIGINTs are one that is lost during the configuration and one that is not. In
`event_flow` one client suffices because clients act on one another only through the id
array, and the model sends to any others whoever is updated; three calls are a
connection, a mode and a disconnection or exit. In `event_queue` a queue of two is the shortest
that can be shrunk and have something left; five arrivals fill it, and go
through every step while each of three calls (a resizing, a take, a clear) is under way. In `event_source` two
collectors are the one that fails and the one that must not suffer; `MaxPending` stops sends
while a server lags two commands behind. `alerts` and `module_api` have no bounds
but their sets, and never stop: deadlock is checked there.

`CHECK_DEADLOCK FALSE` stands where users may stop giving commands, a bound is used
up, or the program ends.

**Fairness.** `FlowFairness`: DIM delivers what a connection holds, a `start()`
that was entered ends, and the main loop of a module application comes to the end
of its cycles. Users, bookings, connections and exits owe nothing. Run control: a
call that was entered returns. DIM run control: DIM delivers what was sent; nobody has
to link, ask or come back. Server: each thread goes on with what it began;
posts, requests and Ctrl+C may never come. Module applications: the main thread goes on,
and a cycle is ended by its counter, timer or timeout, whatever comes; runs, events and
SIGINT owe nothing. Event flow: DIM delivers, the collector finishes
its start. Event
source: the thread goes on, servers handle what they get, and the main loop sends to all
collectors again and again (strong, because a send waits until the servers have caught up
to the bound). Alerts: a step that was begun is finished and a timer that is set goes off. `ModuleApi`: the application
comes to the end of a cycle and publishes, again and again; collectors come, announce
themselves and go as they like. The queue has no fairness: nothing is claimed of what it must do.

## Theorems

All hold for any values of the constants: viewers, applications, elements, runs,
passwords, collectors, emitters, directories and bounds. The assumptions are the named ones
of the modules (bounds are naturals, "no run" is not a run; the run numbers of `DimRunControl`
are integers, negative ones and 0 included). The theorems that state
the inductive invariants and the types have no run of their own: they are proved here, and
`FlowTypeOK` checks the collector's on an instance as well.

`MonitorElementFlowProofs`, the collector. The inductive invariant `IndInv` joins the types
with: subscribers are registered; known modules have a living client; publications
are subscribed; clients are what their first command made them (`ClientKinds`);
stored elements and subscriptions belong to known modules
(`StorageOfKnownModules`). `ClientKinds` is needed because the exit of a module
finds its record through the name its first command gave it, and
`StorageOfKnownModules` because deleting the record must leave nothing behind. There
is one lemma per action. `WatchedListExact` also assumes `UniqueNames`, which the
applications test before they start. It is needed: when two applications share a
name, the exit of one deletes the record of the other (`MonitorElementCollector.cc:1199`),
which is not told that nothing of it is watched any more. The action properties
`SubscriptionsOnlyLostByOwner`, `NothingUnasked` and `CollectedElementsDelivered` follow
from `IndInv`.

`MonitorElementFlowProofs`, the flow. `FlowTypes` shows that the handlers of the collector
only get commands they are made for: it carries `IndInv` through every interleaving,
with `CommandKinds` (senders and viewers send commands of their own).
`ClientsFollowCollector` and `AnnouncedListKnown` speak of empty queues, so neither is
inductive; `FlowInv` says what will hold once the messages under way are handled. Its
word is `Prevails` of `Channels`: a fact holds and no message that ends it is under way, or a
message that establishes it is, and none that ends it comes behind. Two lemmas on it
(a message more, a message less) replace all induction over queues. `SenderTold` says so of
the subscribed list, which a notification sets and the loss of the connection clears;
`ViewerTold` of a viewer's knowledge of the collector; `ListInv` of a list that was sent for a
greeting that is still good, which `GreetedInv` ties to the connection; `LifeInv` says
that what the collector knows came through the present connection. There is one lemma for each
action, with `HandlerEffects` for what all command handlers have in common. `UniqueNames` is
assumed as above: `WatchedListTold` is a part of `FlowInv`.

`EventFlowProofs`. `QueueInv` adds to `QueueWithinMaximum` that a `pushEvent` about to push has
room for what it pushes, unless it crosses a change of the maximum; the application's thread
only pops, so it cannot take that room away. `EventInv` has, for each client, `ConnectionInv` (a confirmed client is connected or hears of the loss) and
`SettingsInv`, which follows the mode from the confirmation through the read that the handler
made to the command under way, again with `Prevails`. It needs no assumption but
`BoundAssumption`: clients of the same collector do not meet in it.

`RunControlProofs`, the class. `RunInv` says for each point of a call what was announced and
what is left to do (`CallProgress`), because the flag, the run and the announcements
agree only between calls. From it: `StateIsAnnounced`, `LifecycleImplemented` (each
step is a step of `RunLifecycle` or a stutter) and `AnnouncementsAreAuthorised`.

`RunControlProofs`, the server. A step of the server does to the run control what a call,
an effect, or nothing does (`ServerStepOnRunControl`), so the lemmas of the class
serve again. `PostsWhileServing` gives `SignalsFindServices`; the refinement is
`ServerLifecycleImplemented`.

`DimRunControlProofs`. `StaleRunsEnd` is not inductive: a message under way may tell of
a run that ends before it arrives. `RunsAreEnded` says the same of every message that is
under way; it needs `ConnectionKept`, which ties the link to a service that is up and
the client's run to its connection. The lemmas on messages (`EndLast`, `EndAfterAppend`,
`ToldWhileLinked`, `EndAfterTail`) come first, then one lemma per action.
`ClientFollowsService` needs the converse too: `InformedInv` says that the run which goes on, if
the client takes its number in a way it was told of it (`Takes`), is
the client's or is told by a message under way with no end behind it. With no message
left, it gives the run during a run, and `RunsAreEnded` gives none between runs.

`ModuleApplicationsProofs`. The properties of the loop hold at some points of it only;
`ApplicationInv` says for every point which call of the module came last, whether it has a
run and which, whether the `Run` it is to be given is still held (`held`, `stale`), what the
archive is named for, and what the queue may hold. The number noted, the archive's and the
module's are tied together only as long as the `Run` is there. It is proved
for the steps both applications share, then for each application, for DIM's thread and for
SIGINT. `ProtocolImplemented` uses it to show that each call the code makes is one
`ModuleProtocol` allows.

`EventSourceProofs`. A registration that is believed can only become wrong by a command
that takes it away at the server. `Registrations` says that no such command is under way
before the program leaves, and follows the acceptance of a server through the answer;
`Serving` follows each steady collector from "to be visited" through the visit to "served".

`AlertSystemProofs`. `InterfaceInv` ties timer, handler and the step of the application:
outside a disconnection one of them keeps the search alive; after one that did not
overlap the handler, all are quiet.

`ModuleApiProofs`. `OfferInv` joins the properties with the types and with what makes
`FlagKeepsListTold` inductive: the sender of a greeted collector is linked, and between the sending
of the list and the clearing of the flag the list that was sent is the one on offer, because
the thread that sends is the thread that books.

Every invariant and action property of the runs is stated by a theorem. Only model-checked is
liveness, which is out of the prover's reach: `DueListArrives`, `WatchedElementsArrive`,
`GrantedStartsSucceed`, `InterruptStops`, `EndOfRunReachesClient`, `RunOverIsNoticed`,
`StopIsHonoured`, `AnnouncedClientsRegister`, `RestartedCollectorsRegister`,
`EmittersAreFollowed` and `BookedGetsTold`. The inductive invariants of the flows (`FlowInv`,
`EventInv`, `InformedInv`) are stated next to the models, and TLC found them to hold on the
instances of the runs before they were proved.

## Where code and words disagree

None of these has a run. Where one of them touches a property, the property excepts it by a
name of its own (`greeted`, `informed`, `stale`, `cleared`, `overtaken`, `raced`, `unseen`,
`overlapped`, `orphans`), and says that nothing else goes wrong. The models do what the code does.

* A viewer's update mode that is set before its first request is dropped by the collector,
  which does not know the client yet (`MonitorElementCollector.cc:772`); after a restart it
  is always so. The doc says "If set to true, subscribed monitor elements will be received
  when an update is performed on the collector server side" (`MonitorElementClient.h:185`).
* `sendMonitorElements` clears the flag without a lock (`MonitorElementSender.cc:90`): when
  DIM's thread sets it in between for a collector that just started, the list is never sent. The flag
  is "Whether the list of available me has to be re-sent to the collector"
  (`MonitorElementSender.h:109`). `AnnouncedListKnown` excludes that moment by `greeted`.
* It also clears the flag when the list was lost without a connection (`sendCommandNB`,
  `MonitorElementSender.cc:346`): a sender that is linked after the collector's announcement has told it
  nothing of what was booked before, until something else is booked, although the flag is
  set "for future update on the collector side" (`:297`). `FlagKeepsListTold` and
  `BookedGetsTold` speak of greeted collectors.
* `replaceSubscription` replaces within the modules that the request names only
  (`MonitorElementCollector.cc:836`); the doc says "Unsubscribe to all monitor elements the
  client has already subscribed and subscribe to monitor elements" (`MonitorElementClient.h:170`).
* A refused start is answered with SUCCESS: `RunControlInterface.cc:52` drops the status, so
  that "ERROR: Couldn't start new run ! What :" (`HttpRunControlPlugin.cc:195`) is never sent.
* Stopping the server during a run never announces its end: the destructor of `RunControl`
  ends it after the services are gone (`RunControlServer.cc:137`), against "One can use the
  SOR and EOR signals to be notified on start of run or end of run" (`RunControl.h:49`).
* `ModuleMeInfo::unsubscribe` (`MonitorElementCollector.cc:243`) reports a client as
  erased from the list of an element that has no entry, so that the module is told
  again of a list that did not change.
* The list of a sender without elements is never sent (`MonitorElementSender.cc:321`)
  while the flag is cleared, so the deletion of the last element stays unknown.
* `RunControl::setPassword` (`RunControl.cc:166`) has no guard; its doc says "Throw
  exception if a run has already been started".
* One `startNewRun` signals before it raises the flag (`RunControl.cc:117`), the
  other after.
* `RunControlServer::stop` before the interface exists (`RunControlServer.cc:142`)
  sets a flag that `run` does not look at again: that Ctrl+C is lost.
* `sendCurrentRun` (`RunControlServer.cc:173`) reads the run, then the flag, while
  another thread writes them: a status may say "running" with the empty run.
* `RunControlService` clears and sets its run number before the password is checked
  (`RunControlService.cc:207`, `:252`): a refused web post leaves a wrong number.
* The service starts runs of any number (`RunControlService.cc:430`, `:723`). The client
  refuses negative ones from START_OF_RUN (`DimRunControlClient.cc:287`), which lets 0 pass, and
  0 and negative ones from the answer of CURRENT_RUN (`:352`), for which "run number is
  invalid, meaning not running": during such runs it depends on the moment of its
  connection whether a client has the run.
* A `DimRunControlClient` asks for the current run once; one that is linked later,
  for the first time or again, during a run does not have the run.

Event flow and event source:

* A `DimEventClient` that disconnects keeps its id (`DimEventClient.cc:124`), and does not
  register again when it connects to a collector that announces itself later
  (`:312`, the id is taken for a registration). A client that is linked after the announcement never registers at all.
* The array of client ids (`DimEventCollector.cc:413`) is cleared by bytes and has no
  terminating zero: other clients may get events. Its size is that of the map, so that it is
  also read behind its end.
* `scoped_lock( & this->m_mutex);` (`EventClient.cc:103`, `:121`, `:145`) is an object without a name
  and gives the mutex back at once. A `pushEvent` that compared with `==` (`:187`) before
  `setMaximumQueueSize` had dropped enough pushes after it, and a queue above its maximum is never found
  full again, against "shrink the queue to fit the new max queue size" (`:105`). One that drops the
  oldest event between `front` and `pop` of `takeEvent` makes that remove an event which
  nobody gets, against "The event is removed from the queue" (`EventClient.h:135`). A pop
  of a queue that was emptied in between is undefined.
* `stopCollector` of a collector that got no event uses a null buffer (`:183`). The client asks
  for events in the background at EVENT_RAW_BUFFER_UPDATE (`DimEventClient.cc:40`), which the collector
  does not have (EVENT_RAW_REQUEST, `DimEventCollector.cc:42`).
* `EventSource::start` registers into copies of the infos (`EventSource.cc:123`), so the first
  event registers everywhere a second time. A collector that restarts between two events is never noticed (`:195`).

Module applications and `ModuleApi`:

* SIGINT while the settings are read, or during `startCollector` of the event collector, is lost.
* Two applications of one name that start together both find the name free.
* The analysis application never calls `endModule`, "Called at termination of the process."
  (`Module.h:104`).
* The loop keeps a `Run` pointer (`AnalysisModuleApplication.cc:230`) that DIM's thread deletes when the run ends or is
  replaced, and uses it for the number it notes (`:235`), the archive's name (`:249`), `startOfRun`
  (`:256`) and the end of run. The module may be given another run than the one that
  `getCurrentRunNumber` returns, "the current run number that was started (not from run control)"
  (`AnalysisModuleApplication.h:144`). A run that is replaced by one of the same number goes
  unnoticed, and the archive of the second is written over the first's ("RECREATE").
* `setUpdateMode(false)` and `clearQueue` are to "stop receive data and clear contents" (`:334`), but
  the collector goes on sending until it is told: an event that comes behind `clearQueue` stays,
  and is processed in the next run. `EventsOfThisRun` excepts these (`cleared`).
* `rmdir` leaves the elements of the directory on offer (`ModuleApi.cc:91`), and booking one
  again as another kind keeps the old kind on offer. `deleteMonitorElement` (`:563`) removes
  under the name without the `/` that the booking had put in front.
* `getTimeSinceStartOfRun` and `getTimeSinceStartOfCycle` always fail.

Alerts:

* `AlertNotifier::notify` calls itself (`AlertSystem.cc:198`): with an interval it returns
  UNCHANGED and sends nothing, without one it never returns. `userNotify` refuses when the
  service runs (`:267`), and nothing in the repository calls `startService`.
* `DimAlertInterface::infoHandler` reads through a buffer that is never configured (`:529`).
* A disconnection that comes inside the timer handler leaves infos and a running timer behind.

## Not modelled

Contents and serialisation of events, elements, alerts and settings; logging, statistics and
command lines. Components without a module: `LogCollector` (a list filled and read on one thread),
`RemoteLogger` and `OnlineManagerServer` (relays without state), `StatisticsService` and
`StatisticsClient` (arithmetic on a window), `NetworkTool` (queries of the name server),
`CartesianVector` (floating point), programs around one object, web forms and the
build. Within the modelled ones: queries that answer and keep nothing, listeners,
`DimAlertHandler`, several DIM run control clients (they do not meet: each has its own
connection), overlaps of web posts with commands, races inside `std::queue` (a call of it is one
step), and what a write of the end time into a deleted `Run` destroys (the application goes on
or dies, nothing in between).

## What remains

1. The safety half of the liveness properties of the flows as theorems: that a message a `~>`
   waits for stays under way until it is handled or its connection is lost.
2. The composition of the module applications with `MonitorElementFlow` and `DimRunControl`
   in one instance: each is modelled with the other's promises as its environment.
