------------------------------ MODULE AlertSystem ------------------------------
(***************************************************************************)
(* Alerts: each emitter has a DimAlertNotifier with a DIM service, and one *)
(* process has a DimAlertInterface that follows all of them.  It looks for *)
(* emitters when it connects and then whenever its timer goes off.         *)
(*                                                                         *)
(* The timer handler runs on DIM's thread and shares the map of infos with *)
(* the application's thread without a lock: a connection or disconnection  *)
(* may come between any two steps of it.                                   *)
(*                                                                         *)
(* External: the timer and the name server of DIM.  The timer goes off     *)
(* once for every start, and start of a timer that runs does nothing.      *)
(*                                                                         *)
(* Left out: the listeners, the length of the update time, and             *)
(* DimAlertHandler, which follows one emitter that is given to it.         *)
(***************************************************************************)

CONSTANT Emitter    \* names of emitters

VARIABLES
  running,      \* emitters whose notifier has m_isRunning: the name server knows them
  limited,      \*   those with a m_minAlertInterval
  stuck,        \*   those in a call of notify that does not return
  alive,        \* the process of the interface is
  isConnected,  \* its m_isConnected
  infos,        \* the keys of its m_emitterInfoMap
  armed,        \* its timer is started
  app,          \* what its application is doing
  appFound,     \*   the emitters it found
  handler,      \* what its timer handler is doing
  found,        \*   the emitters it found
  overlapped    \* history: the last disconnection began while the handler was at work

notifierVars == <<running, limited, stuck>>
mapVars == <<infos, armed>>
appVars == <<isConnected, app, appFound, overlapped>>
handlerVars == <<handler, found>>
vars == <<notifierVars, alive, mapVars, appVars, handlerVars>>

Init ==
  /\ running = {} /\ limited = {} /\ stuck = {}
  /\ alive = TRUE /\ isConnected = FALSE /\ infos = {} /\ armed = FALSE
  /\ app = "idle" /\ appFound = {} /\ handler = "idle" /\ found = {} /\ overlapped = FALSE

-----------------------------------------------------------------------------
(* The notifiers. *)

\* startService.  No program of the repository calls it: an application of its own may.
StartService(e) ==
  /\ e \notin running
  /\ running' = running \cup {e}
  /\ UNCHANGED <<limited, stuck, alive, mapVars, appVars, handlerVars>>

\* stopService, or the end of the process, the only one for a process that is stuck.
StopService(e) ==
  /\ e \in running
  /\ running' = running \ {e} /\ stuck' = stuck \ {e}
  /\ UNCHANGED <<limited, alive, mapVars, appVars, handlerVars>>

SetMinAlertInterval(e) ==
  /\ e \notin stuck
  /\ \/ e \notin limited /\ limited' = limited \cup {e}
     \/ e \in limited /\ limited' = limited \ {e}
  /\ UNCHANGED <<running, stuck, alive, mapVars, appVars, handlerVars>>

\* notify calls itself.  With an interval the second call comes too early and returns
\* UNCHANGED; without one there is no end to it: the stack overflows, or, where the
\* compiler made it a loop, the caller stays in it.
Notify(e) ==
  /\ e \in running \ (stuck \cup limited)
  /\ \/ running' = running \ {e} /\ UNCHANGED stuck
     \/ stuck' = stuck \cup {e} /\ UNCHANGED running
  /\ UNCHANGED <<limited, alive, mapVars, appVars, handlerVars>>

-----------------------------------------------------------------------------
(* The interface: its application. *)

\* connectToService, in three steps: look, follow what was found, start the timer.
ConnectToService ==
  /\ alive /\ app = "idle" /\ ~isConnected
  /\ app' = "following" /\ appFound' = running
  /\ UNCHANGED <<notifierVars, alive, mapVars, isConnected, overlapped, handlerVars>>

FollowFound ==
  /\ alive /\ app = "following"
  /\ app' = "connecting" /\ infos' = infos \cup appFound
  /\ UNCHANGED <<notifierVars, alive, armed, isConnected, appFound, overlapped, handlerVars>>

Connected ==
  /\ alive /\ app = "connecting"
  /\ app' = "idle" /\ isConnected' = TRUE /\ armed' = TRUE
  /\ UNCHANGED <<notifierVars, alive, infos, appFound, overlapped, handlerVars>>

\* setUpdateTime, with a time above zero.
SetUpdateTime ==
  /\ alive /\ app = "idle" /\ isConnected
  /\ armed' = TRUE
  /\ UNCHANGED <<notifierVars, alive, infos, appVars, handlerVars>>

\* Mutant: the timer is not stopped.
DisconnectFromService_Running ==
  /\ alive /\ app = "idle" /\ isConnected
  /\ app' = "deleting" /\ overlapped' = (handler # "idle")
  /\ UNCHANGED <<notifierVars, alive, mapVars, isConnected, appFound, handlerVars>>

\* disconnectFromService, of the application or of the destructor, in three steps.
DisconnectFromService ==
  /\ alive /\ app = "idle" /\ isConnected
  /\ app' = "deleting" /\ armed' = FALSE /\ overlapped' = (handler # "idle")
  /\ UNCHANGED <<notifierVars, alive, infos, isConnected, appFound, handlerVars>>

DeleteInfos ==
  /\ alive /\ app = "deleting"
  /\ app' = "disconnecting" /\ infos' = {}
  /\ UNCHANGED <<notifierVars, alive, armed, isConnected, appFound, overlapped, handlerVars>>

Disconnected ==
  /\ alive /\ app = "disconnecting"
  /\ app' = "idle" /\ isConnected' = FALSE
  /\ UNCHANGED <<notifierVars, alive, mapVars, appFound, overlapped, handlerVars>>

-----------------------------------------------------------------------------
(* The interface: timerHandler and infoHandler, on DIM's thread. *)

\* The timer goes off, and the name server is asked for the emitters.
TimerHandler ==
  /\ alive /\ armed /\ handler = "idle"
  /\ armed' = FALSE
  /\ handler' = "removing" /\ found' = running
  /\ UNCHANGED <<notifierVars, alive, infos, appVars>>

RemoveGone ==
  /\ alive /\ handler = "removing"
  /\ handler' = "adding" /\ infos' = infos \cap found
  /\ UNCHANGED <<notifierVars, alive, armed, appVars, found>>

\* Mutant: only the emitters that were there at the connection are followed.
AddNew_Never ==
  /\ alive /\ handler = "adding"
  /\ handler' = "restarting"
  /\ UNCHANGED <<notifierVars, alive, mapVars, appVars, found>>

\* m_isConnected is not looked at.
AddNew ==
  /\ alive /\ handler = "adding"
  /\ handler' = "restarting" /\ infos' = infos \cup found
  /\ UNCHANGED <<notifierVars, alive, armed, appVars, found>>

\* Mutant: the timer goes off once.
RestartTimer_Once ==
  /\ alive /\ handler = "restarting"
  /\ handler' = "idle"
  /\ UNCHANGED <<notifierVars, alive, mapVars, appVars, found>>

RestartTimer ==
  /\ alive /\ handler = "restarting"
  /\ handler' = "idle" /\ armed' = TRUE
  /\ UNCHANGED <<notifierVars, alive, infos, appVars, found>>

\* An alert, from an emitter whose program updates the service: the interface never
\* configures the buffer that it reads it from.
InfoHandler(e) ==
  /\ alive /\ e \in infos \cap running
  /\ alive' = FALSE
  /\ UNCHANGED <<notifierVars, mapVars, appVars, handlerVars>>

\* Both threads are in their loops over the map.
CorruptMap ==
  /\ alive /\ handler \in {"removing", "adding"} /\ app \in {"following", "deleting"}
  /\ alive' = FALSE
  /\ UNCHANGED <<notifierVars, mapVars, appVars, handlerVars>>

-----------------------------------------------------------------------------
(* Specification. *)

Notifier(e) == StartService(e) \/ StopService(e) \/ SetMinAlertInterval(e) \/ Notify(e)

AppWork == FollowFound \/ Connected \/ DeleteInfos \/ Disconnected

HandlerWork == TimerHandler \/ RemoveGone \/ AddNew \/ RestartTimer

Next ==
  \/ \E e \in Emitter : Notifier(e) \/ InfoHandler(e)
  \/ ConnectToService \/ DisconnectFromService \/ SetUpdateTime
  \/ AppWork \/ HandlerWork \/ CorruptMap

Spec == Init /\ [][Next]_vars

\* The application goes on with what it began, the timer goes off in the end.
Fairness == WF_vars(AppWork) /\ WF_vars(HandlerWork)

FairSpec == Spec /\ Fairness

-----------------------------------------------------------------------------
(* Properties. *)

TypeOK ==
  /\ running \subseteq Emitter /\ limited \subseteq Emitter /\ stuck \subseteq running
  /\ alive \in BOOLEAN /\ isConnected \in BOOLEAN /\ infos \subseteq Emitter
  /\ armed \in BOOLEAN /\ overlapped \in BOOLEAN
  /\ app \in {"idle", "following", "connecting", "deleting", "disconnecting"}
  /\ appFound \subseteq Emitter /\ found \subseteq Emitter
  /\ handler \in {"idle", "removing", "adding", "restarting"}

\* An interface that is connected will look again: whatever order connections,
\* disconnections and timer handlers came in, the timer is on or its handler is at work.
ConnectedKeepsLooking == isConnected /\ app = "idle" => armed \/ handler # "idle"

\* A disconnection that did not begin in the middle of the timer handler leaves no
\* info, no timer and no handler behind: one that did may leave all of them.
DisconnectedIsQuiet ==
  ~isConnected /\ app = "idle" /\ ~overlapped => infos = {} /\ ~armed /\ handler = "idle"

\* A connected interface gets to follow every emitter that stays, and stops following
\* an emitter that went away, one that died in notify included.
EmittersAreFollowed ==
  \A e \in Emitter :
    /\ (isConnected /\ e \in running)
         ~> (e \in infos \/ e \notin running \/ ~isConnected \/ ~alive)
    /\ (isConnected /\ e \in infos \ running)
         ~> (e \notin infos \ running \/ ~isConnected \/ ~alive)

=============================================================================
