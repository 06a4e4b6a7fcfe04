---------------------------- MODULE AlertSystemProofs ----------------------------
(***************************************************************************)
(* Proofs about the alerts, for any number of emitters: whatever steps of  *)
(* the timer handler and of the application come between each other, an    *)
(* interface that is connected looks for emitters again, and one whose     *)
(* disconnection did not cross the handler leaves nothing behind.          *)
(***************************************************************************)
EXTENDS AlertSystem, TLAPS

\* On its way out, the interface is as quiet as it will be: the timer stops first and
\* nothing that runs starts it again, then the infos go.
QuietOnTheWay ==
  /\ app = "deleting" /\ ~overlapped => ~armed /\ handler = "idle"
  /\ app = "disconnecting" /\ ~overlapped => infos = {} /\ ~armed /\ handler = "idle"

\* The inductive invariant.
InterfaceInv == TypeOK /\ ConnectedKeepsLooking /\ DisconnectedIsQuiet /\ QuietOnTheWay

LEMMA InterfaceInit == Init => InterfaceInv
BY DEF Init, InterfaceInv, TypeOK, ConnectedKeepsLooking, DisconnectedIsQuiet, QuietOnTheWay

\* The emitters come and go without the interface, and a process that dies goes as it is.
LEMMA NotifierKeeps ==
  ASSUME InterfaceInv, NEW e \in Emitter, Notifier(e) \/ InfoHandler(e)
  PROVE  InterfaceInv'
<1>1. UNCHANGED <<mapVars, appVars, handlerVars>>
  BY DEF Notifier, StartService, StopService, SetMinAlertInterval, Notify, InfoHandler
<1>2. TypeOK'
  BY <1>1
  DEF Notifier, StartService, StopService, SetMinAlertInterval, Notify, InfoHandler,
      InterfaceInv, TypeOK, notifierVars, mapVars, appVars, handlerVars
<1> QED
  BY <1>1, <1>2
  DEF InterfaceInv, mapVars, appVars, handlerVars, ConnectedKeepsLooking,
      DisconnectedIsQuiet, QuietOnTheWay

LEMMA ApplicationKeeps ==
  ASSUME InterfaceInv,
         ConnectToService \/ DisconnectFromService \/ SetUpdateTime \/ AppWork \/ CorruptMap
  PROVE  InterfaceInv'
<1> USE DEF InterfaceInv, TypeOK, ConnectedKeepsLooking, DisconnectedIsQuiet, QuietOnTheWay,
            notifierVars, mapVars, appVars, handlerVars
<1>1. CASE ConnectToService
  BY <1>1 DEF ConnectToService
<1>2. CASE FollowFound
  BY <1>2 DEF FollowFound
<1>3. CASE Connected
  BY <1>3 DEF Connected
<1>4. CASE SetUpdateTime
  BY <1>4 DEF SetUpdateTime
<1>5. CASE DisconnectFromService
  BY <1>5 DEF DisconnectFromService
<1>6. CASE DeleteInfos
  BY <1>6 DEF DeleteInfos
<1>7. CASE Disconnected
  BY <1>7 DEF Disconnected
<1>8. CASE CorruptMap
  BY <1>8 DEF CorruptMap
<1> QED
  BY <1>1, <1>2, <1>3, <1>4, <1>5, <1>6, <1>7, <1>8 DEF AppWork

\* A handler at work is what the two quiet states exclude.
LEMMA HandlerKeeps ==
  ASSUME InterfaceInv, HandlerWork
  PROVE  InterfaceInv'
<1> USE DEF InterfaceInv, TypeOK, ConnectedKeepsLooking, DisconnectedIsQuiet, QuietOnTheWay,
            notifierVars, mapVars, appVars, handlerVars
<1>1. CASE TimerHandler
  BY <1>1 DEF TimerHandler
<1>2. CASE RemoveGone
  BY <1>2 DEF RemoveGone
<1>3. CASE AddNew
  BY <1>3 DEF AddNew
<1>4. CASE RestartTimer
  BY <1>4 DEF RestartTimer
<1> QED
  BY <1>1, <1>2, <1>3, <1>4 DEF HandlerWork

\* The invariant holds in every order of the two threads and of the emitters.
THEOREM InterfaceInvariance == Spec => []InterfaceInv
<1>1. InterfaceInv /\ UNCHANGED vars => InterfaceInv'
  BY DEF InterfaceInv, TypeOK, ConnectedKeepsLooking, DisconnectedIsQuiet, QuietOnTheWay,
         vars, notifierVars, mapVars, appVars, handlerVars
<1>2. InterfaceInv /\ [Next]_vars => InterfaceInv'
  BY <1>1, NotifierKeeps, ApplicationKeeps, HandlerKeeps DEF Next
<1> QED
  BY InterfaceInit, <1>2, PTL DEF Spec

\* Types; a caller of notify that is stuck has a service that runs.
THEOREM AlertTypes == Spec => []TypeOK
<1>1. InterfaceInv => TypeOK
  BY DEF InterfaceInv
<1> QED
  BY InterfaceInvariance, <1>1, PTL

\* A connected interface will look for emitters again.
THEOREM TimerIsNeverLost == Spec => []ConnectedKeepsLooking
<1>1. InterfaceInv => ConnectedKeepsLooking
  BY DEF InterfaceInv
<1> QED
  BY InterfaceInvariance, <1>1, PTL

\* A disconnection that did not cross the timer handler leaves nothing behind.
THEOREM QuietAfterDisconnection == Spec => []DisconnectedIsQuiet
<1>1. InterfaceInv => DisconnectedIsQuiet
  BY DEF InterfaceInv
<1> QED
  BY InterfaceInvariance, <1>1, PTL

=============================================================================
