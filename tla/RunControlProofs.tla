--------------------------- MODULE RunControlProofs ---------------------------
(***************************************************************************)
(* Proofs about the run control object and about the server it lives in.   *)
(*                                                                         *)
(* First the object: the inductive invariant RunInv, the password rule,    *)
(* and that the announcements are those of RunLifecycle.  The effects of a *)
(* call are proved apart from the calls, so that the server's proofs,      *)
(* where posts take the place of the calls, use the same lemmas.  Then the *)
(* server: posts, status requests, Ctrl+C and the shutdown keep RunInv,    *)
(* the services exist whenever a signal goes through them, and what is     *)
(* published is a run lifecycle.                                           *)
(***************************************************************************)
EXTENDS RunControlServer, TLAPS

\* The last announcement decides which run is open.
LEMMA OpenAfter ==
  ASSUME messages \in Seq(Announcements),
         NEW k \in {"SOR", "EOR"}, NEW r \in Run,
         Announce(k, r)
  PROVE  /\ messages' \in Seq(Announcements)
         /\ Lifecycle!OpenRun' = IF k = "SOR" THEN {r} ELSE {}
<1> DEFINE last == [kind |-> k, run |-> r]
<1>1. messages' = Append(messages, last)
  BY DEF Announce
<1>2. last \in Announcements
  BY DEF Announcements
<1>3. /\ messages' \in Seq(Announcements)
      /\ Len(messages') = Len(messages) + 1 /\ Len(messages) \in Nat
      /\ messages'[Len(messages')] = last
      /\ messages' # <<>>
  BY <1>1, <1>2
<1> QED
  BY <1>3 DEF Lifecycle!OpenRun

\* What is announced stays open as long as nothing is announced.
LEMMA OpenUnchanged ==
  ASSUME UNCHANGED messages
  PROVE  Lifecycle!OpenRun' = Lifecycle!OpenRun
BY DEF Lifecycle!OpenRun

\* Only runs are announced, so that an open run is one.
LEMMA OpenIsRun ==
  ASSUME messages \in Seq(Announcements)
  PROVE  Lifecycle!OpenRun \subseteq Run
<1>1. ASSUME messages # <<>> PROVE messages[Len(messages)] \in Announcements
  BY <1>1
<1>2. ASSUME messages # <<>> PROVE messages[Len(messages)].run \in Run
  BY <1>1, <1>2 DEF Announcements
<1> QED
  BY <1>2 DEF Lifecycle!OpenRun

\* Nothing is open before the first announcement.
LEMMA OpenInitially ==
  ASSUME messages = <<>>
  PROVE  /\ Lifecycle!OpenRun = {}
         /\ messages \in Seq(Announcements)
BY DEF Lifecycle!OpenRun

\* Init establishes the invariant.
LEMMA RunInit == Init => RunInv
<1> SUFFICES ASSUME Init PROVE RunInv
  OBVIOUS
<1>1. messages = <<>>
  BY DEF Init
<1>2. Lifecycle!OpenRun = {} /\ messages \in Seq(Announcements)
  BY <1>1, OpenInitially
<1>3. TypeOK
  <2>1. calls \in 0 .. MaxCalls
    BY MaxCallsAssumption DEF Init
  <2>2. password \in AnyPassword /\ given \in AnyPassword /\ name \in Name
    BY DEF Init, AnyPassword
  <2>3. pc \in PC /\ result \in {"SUCCESS", "NOT_ALLOWED"}
    BY DEF Init, PC
  <2>4. /\ running \in BOOLEAN /\ early \in BOOLEAN
        /\ run \in Run \cup {NoRun} /\ next \in Run \cup {NoRun}
    BY DEF Init
  <2> QED
    BY <1>2, <2>1, <2>2, <2>3, <2>4 DEF TypeOK
<1>4. StateMatchesAnnouncements
  BY <1>2 DEF Init, StateMatchesAnnouncements
<1>5. CallProgress /\ CallAuthorised
  BY DEF Init, CallProgress, CallAuthorised
<1> QED
  BY <1>3, <1>4, <1>5 DEF RunInv

\* Between calls, the run that goes on is the open one.
LEMMA RunningIsOpen ==
  ASSUME StateMatchesAnnouncements, pc = "idle", running
  PROVE  Lifecycle!OpenRun = {run}
<1>1. Lifecycle!OpenRun # {} /\ Lifecycle!OpenRun = {run} \ {NoRun}
  BY DEF StateMatchesAnnouncements
<1> QED
  BY <1>1

\* The calls preserve the invariant.
LEMMA CallStep == RunInv /\ Calls => RunInv'
<1> SUFFICES ASSUME RunInv, Calls PROVE RunInv'
  OBVIOUS
<1> USE RunAssumption, MaxCallsAssumption DEF RunInv
<1>0. pc = "idle" /\ running => Lifecycle!OpenRun = {run}
  BY RunningIsOpen
<1>1. ASSUME NEW n \in Name, SetName(n) PROVE RunInv'
  BY <1>1, OpenUnchanged
     DEF SetName, Call, Return, TypeOK, PC, StateMatchesAnnouncements, CallProgress,
         CallAuthorised
<1>2. ASSUME NEW pwd \in AnyPassword, SetPassword(pwd) PROVE RunInv'
  BY <1>2, OpenUnchanged
     DEF SetPassword, Call, Return, TypeOK, PC, StateMatchesAnnouncements,
         CallProgress, CallAuthorised
<1>3. ASSUME NEW pwd \in AnyPassword, EndCurrentRun(pwd) PROVE RunInv'
  <2>1. pc = "idle" /\ UNCHANGED <<running, run, name, password, messages>>
    BY <1>3 DEF EndCurrentRun, Call, settings
  <2>2. Lifecycle!OpenRun' = Lifecycle!OpenRun
    BY <2>1, OpenUnchanged
  <2>3. TypeOK'
    BY <1>3 DEF EndCurrentRun, Call, Return, settings, TypeOK, PC
  <2>4. CASE Granted(pwd) /\ running
    BY <1>0, <1>3, <2>1, <2>2, <2>3, <2>4
       DEF EndCurrentRun, Granted, CheckPassword, StateMatchesAnnouncements,
           CallProgress, CallAuthorised
  <2>5. CASE ~(Granted(pwd) /\ running)
    <3>1. pc' = "idle"
      BY <1>3, <2>5 DEF EndCurrentRun, Return
    <3> QED
      BY <2>1, <2>2, <2>3, <3>1
         DEF StateMatchesAnnouncements, CallProgress, CallAuthorised
  <2> QED
    BY <2>4, <2>5
<1>4. ASSUME NEW pwd \in AnyPassword, NEW r \in Run, NEW isRun \in BOOLEAN,
             StartNewRun(r, pwd, isRun)
      PROVE RunInv'
  <2>1. pc = "idle" /\ UNCHANGED <<running, run, name, password, messages>>
    BY <1>4 DEF StartNewRun, Call, settings
  <2>2. Lifecycle!OpenRun' = Lifecycle!OpenRun
    BY <2>1, OpenUnchanged
  <2>3. TypeOK'
    BY <1>4 DEF StartNewRun, FirstStep, Call, Return, settings, TypeOK, PC
  <2>4. CASE Granted(pwd)
    <3>1. next' = r /\ given' = pwd /\ pc' = IF running THEN "ending" ELSE "assigning"
      BY <1>4, <2>4 DEF StartNewRun, FirstStep
    <3>2. ~running => Lifecycle!OpenRun = {}
      BY <2>1 DEF StateMatchesAnnouncements
    <3>3. CallAuthorised'
      BY <2>1, <2>4, <3>1 DEF CallAuthorised, Granted, CheckPassword
    <3>4. CallProgress' /\ StateMatchesAnnouncements'
      BY <1>0, <2>1, <2>2, <3>1, <3>2 DEF CallProgress, StateMatchesAnnouncements
    <3> QED
      BY <2>3, <3>3, <3>4
  <2>5. CASE ~Granted(pwd)
    <3>1. pc' = "idle"
      BY <1>4, <2>5 DEF StartNewRun, Return
    <3> QED
      BY <2>1, <2>2, <2>3, <3>1
         DEF StateMatchesAnnouncements, CallProgress, CallAuthorised
  <2> QED
    BY <2>4, <2>5
<1> QED
  BY <1>1, <1>2, <1>3, <1>4 DEF Calls

\* The effects of the ongoing call preserve the invariant.
LEMMA EffectStep == RunInv /\ Effect => RunInv'
<1> SUFFICES ASSUME RunInv, Effect PROVE RunInv'
  OBVIOUS
<1> USE RunAssumption DEF RunInv, call, settings, CheckPassword
<1>1. CASE SignalEndOfRun
  <2>1. run \in Run /\ Announce("EOR", run)
    BY <1>1, OpenIsRun DEF SignalEndOfRun, CallProgress, TypeOK
  <2>2. /\ messages' \in Seq(Announcements)
        /\ Lifecycle!OpenRun' = {}
    BY <2>1, OpenAfter DEF TypeOK
  <2> QED
    BY <1>1, <2>2
       DEF SignalEndOfRun, TypeOK, PC, StateMatchesAnnouncements, CallProgress,
           CallAuthorised
<1>2. CASE ClearRunning
  BY <1>2, OpenUnchanged
     DEF ClearRunning, TypeOK, PC, StateMatchesAnnouncements, CallProgress,
         CallAuthorised
<1>3. CASE FinishEnd
  BY <1>3, OpenUnchanged
     DEF FinishEnd, ResetRun, Return, TypeOK, PC, StateMatchesAnnouncements,
         CallProgress, CallAuthorised
<1>4. CASE AssignRun
  BY <1>4, OpenUnchanged
     DEF AssignRun, TypeOK, PC, StateMatchesAnnouncements, CallProgress, CallAuthorised
<1>5. CASE SetRunning
  BY <1>5, OpenUnchanged
     DEF SetRunning, RaiseFlag, Return, TypeOK, PC, StateMatchesAnnouncements,
         CallProgress, CallAuthorised
<1>6. CASE SignalStartOfRun
  <2>1. run \in Run /\ Announce("SOR", run)
    BY <1>6 DEF SignalStartOfRun, CallProgress
  <2>2. /\ messages' \in Seq(Announcements)
        /\ Lifecycle!OpenRun' = {run}
    BY <2>1, OpenAfter DEF TypeOK
  <2> QED
    BY <1>6, <2>2
       DEF SignalStartOfRun, Return, TypeOK, PC, StateMatchesAnnouncements,
           CallProgress, CallAuthorised
<1> QED
  BY <1>1, <1>2, <1>3, <1>4, <1>5, <1>6 DEF Effect

\* A step that changes nothing preserves the invariant.
LEMMA RunStutter == RunInv /\ UNCHANGED vars => RunInv'
BY OpenUnchanged
   DEF RunInv, vars, settings, call, TypeOK, StateMatchesAnnouncements, CallProgress,
       CallAuthorised, CheckPassword

\* The invariant holds of every behaviour of the run control, for any sets of runs,
\* names and passwords: types, the state of the ongoing call and of the announcements.
THEOREM Invariance == Spec => []RunInv
<1>1. RunInv /\ [Next]_vars => RunInv'
  BY CallStep, EffectStep, RunStutter DEF Next
<1> QED
  BY RunInit, <1>1, PTL DEF Spec

\* Between calls, the flag and the run agree with what was announced.
THEOREM StateIsAnnounced == Spec => []StateMatchesAnnouncements
<1>1. RunInv => StateMatchesAnnouncements
  BY DEF RunInv
<1> QED
  BY Invariance, <1>1, PTL

\* The calls announce nothing.
LEMMA CallsAnnounceNothing == Calls => UNCHANGED messages
BY DEF Calls, SetName, SetPassword, EndCurrentRun, StartNewRun

\* An effect announces what the abstract lifecycle allows, or nothing.
LEMMA EffectAnnounces ==
  RunInv /\ Effect => Lifecycle!LifecycleNext \/ UNCHANGED messages
<1> SUFFICES ASSUME RunInv, Effect
             PROVE  Lifecycle!LifecycleNext \/ UNCHANGED messages
  OBVIOUS
<1>1. CASE SignalEndOfRun
  <2>1. run \in Run /\ Lifecycle!OpenRun = {run}
    BY <1>1, OpenIsRun DEF RunInv, SignalEndOfRun, CallProgress, TypeOK
  <2>2. Lifecycle!EndOfRun(run)
    BY <1>1, <2>1 DEF SignalEndOfRun, Announce, Lifecycle!EndOfRun, Lifecycle!Announcement
  <2> QED
    BY <2>1, <2>2 DEF Lifecycle!LifecycleNext
<1>2. CASE SignalStartOfRun
  <2>1. run \in Run /\ Lifecycle!OpenRun = {}
    BY <1>2 DEF RunInv, SignalStartOfRun, CallProgress
  <2>2. Lifecycle!StartOfRun(run)
    BY <1>2, <2>1
       DEF SignalStartOfRun, Announce, Lifecycle!StartOfRun, Lifecycle!Announcement
  <2> QED
    BY <2>1, <2>2 DEF Lifecycle!LifecycleNext
<1>3. CASE ClearRunning \/ FinishEnd \/ AssignRun \/ SetRunning
  BY <1>3 DEF ClearRunning, FinishEnd, AssignRun, SetRunning
<1> QED
  BY <1>1, <1>2, <1>3 DEF Effect

\* The run control implements the abstract lifecycle: every start of run finds no
\* run open, and every end of run closes the run announced last.
THEOREM LifecycleImplemented == Spec => ImplementsLifecycle
<1>1. Init => Lifecycle!LifecycleInit
  BY DEF Init, Lifecycle!LifecycleInit
<1>2. RunInv /\ [Next]_vars => [Lifecycle!LifecycleNext]_messages
  BY CallsAnnounceNothing, EffectAnnounces DEF Next, vars
<1> QED
  BY Invariance, <1>1, <1>2, PTL DEF Spec, ImplementsLifecycle, Lifecycle!LifecycleSpec

\* Nothing is announced without the password.
THEOREM AnnouncementsAreAuthorised == Spec => AnnouncedWithPassword
<1>1. RunInv /\ [Next]_vars => [messages' # messages => password \in {NoPassword, given}]_vars
  <2> SUFFICES ASSUME RunInv, Next, messages' # messages
               PROVE  password \in {NoPassword, given}
    OBVIOUS
  <2>1. Effect
    BY CallsAnnounceNothing DEF Next
  <2>2. pc # "idle"
    BY <2>1 DEF Effect, SignalEndOfRun, ClearRunning, FinishEnd, AssignRun, SetRunning,
                SignalStartOfRun
  <2> QED
    BY <2>2 DEF RunInv, CallAuthorised, CheckPassword
<1> QED
  BY Invariance, <1>1, PTL DEF Spec, AnnouncedWithPassword

-----------------------------------------------------------------------------
(* The server. *)

\* Only the bookkeeping of the posts changes.
LEMMA UncountedCall ==
  ASSUME RunInv, calls < MaxCalls, calls' = calls + 1,
         UNCHANGED <<running, run, settings, pc, next, early, given, result, messages>>
  PROVE  RunInv'
<1>1. calls' \in 0 .. MaxCalls
  BY MaxCallsAssumption DEF RunInv, TypeOK
<1>2. UNCHANGED <<running, run, name, password, pc, next, early, given, result, messages>>
  BY DEF settings
<1>3. Lifecycle!OpenRun' = Lifecycle!OpenRun
  BY <1>2, OpenUnchanged
<1> QED
  BY <1>1, <1>2, <1>3
     DEF RunInv, TypeOK, StateMatchesAnnouncements, CallProgress, CallAuthorised,
         CheckPassword

\* What a step of the server does to the run control: a call, an effect, a counted
\* post, or nothing.
LEMMA ServerStepOnRunControl ==
  ServerNext =>
    \/ Calls
    \/ Effect
    \/ /\ calls < MaxCalls /\ calls' = calls + 1
       /\ UNCHANGED <<running, run, settings, pc, next, early, given, result, messages>>
    \/ UNCHANGED vars
<1> SUFFICES ASSUME ServerNext
             PROVE  \/ Calls
                    \/ Effect
                    \/ /\ calls < MaxCalls /\ calls' = calls + 1
                       /\ UNCHANGED <<running, run, settings, pc, next, early, given,
                                      result, messages>>
                    \/ UNCHANGED vars
  OBVIOUS
<1>1. ASSUME NEW pwd \in AnyPassword, PostEnd(pwd) PROVE Calls
  BY <1>1 DEF PostEnd, Calls
<1>2. ASSUME NEW pwd \in AnyPassword, NEW r \in Run, PostStart(r, pwd) PROVE Calls
  BY <1>2 DEF PostStart, Calls
<1>3. CASE PostStartWithoutNumber \/ PostEndNotRunning
  BY <1>3 DEF PostStartWithoutNumber, PostEndNotRunning
<1>4. CASE HttpEffect
  BY <1>4 DEF HttpEffect
<1>5. CASE FinishPost \/ StatusStep \/ MainStep \/ Interrupt
  BY <1>5 DEF FinishPost, StatusStep, StatusReadRun, StatusAnswer, MainStep,
              CreateInterface, StartServing, LeaveInterface, CloseServer, Destroy,
              Interrupt
<1> QED
  BY <1>1, <1>2, <1>3, <1>4, <1>5 DEF ServerNext, HttpStep

\* The run control's invariant holds of the server too.
LEMMA RunInvStep == RunInv /\ [ServerNext]_serverVars => RunInv'
<1>1. RunInv /\ ServerNext => RunInv'
  BY ServerStepOnRunControl, CallStep, EffectStep, RunStutter, UncountedCall
<1>2. RunInv /\ UNCHANGED serverVars => RunInv'
  BY RunStutter DEF serverVars
<1> QED
  BY <1>1, <1>2

\* The server starts with a run control that has its password already.
LEMMA ServerInitialState == ServerInit => ServerInv
<1> SUFFICES ASSUME ServerInit PROVE ServerInv
  OBVIOUS
<1>1. messages = <<>>
  BY DEF ServerInit
<1>2. Lifecycle!OpenRun = {} /\ messages \in Seq(Announcements)
  BY <1>1, OpenInitially
<1>3. TypeOK
  <2>1. calls \in 0 .. MaxCalls
    BY MaxCallsAssumption DEF ServerInit
  <2>2. password \in AnyPassword /\ given \in AnyPassword /\ name \in Name
    BY DEF ServerInit, AnyPassword
  <2>3. pc \in PC /\ result \in {"SUCCESS", "NOT_ALLOWED"}
    BY DEF ServerInit, PC
  <2>4. /\ running \in BOOLEAN /\ early \in BOOLEAN
        /\ run \in Run \cup {NoRun} /\ next \in Run \cup {NoRun}
    BY DEF ServerInit
  <2> QED
    BY <1>2, <2>1, <2>2, <2>3, <2>4 DEF TypeOK
<1>4. StateMatchesAnnouncements
  BY <1>2 DEF ServerInit, StateMatchesAnnouncements
<1>5. CallProgress /\ CallAuthorised
  BY DEF ServerInit, CallProgress, CallAuthorised
<1>6. ServerTypeOK
  <2>1. interrupts \in 0 .. MaxInterrupts /\ requests \in 0 .. MaxStatus
    BY ServerBoundsAssumption DEF ServerInit
  <2>2. status \in [running : BOOLEAN, run : Run \cup {NoRun}]
    BY DEF ServerInit
  <2> QED
    BY <1>3, <2>1, <2>2 DEF ServerInit, ServerTypeOK
<1>7. PostsWhileServing
  BY DEF ServerInit, PostsWhileServing
<1> QED
  BY <1>3, <1>4, <1>5, <1>6, <1>7 DEF RunInv, ServerInv

\* The types of the server's own variables.
LEMMA ServerTypeStep ==
  ASSUME ServerInv, ServerNext, TypeOK'
  PROVE  ServerTypeOK'
<1> USE DEF ServerInv, ServerTypeOK
<1>1. CASE HttpStep
  BY <1>1
     DEF HttpStep, PostStartWithoutNumber, PostEndNotRunning, PostEnd, PostStart,
         HttpEffect, FinishPost, Answer, statusVars, lifeVars, httpVars
<1>2. CASE StatusReadRun
  <2>1. requests' \in 0 .. MaxStatus
    BY <1>2, ServerBoundsAssumption DEF StatusReadRun
  <2>2. statusRun' \in Run \cup {NoRun}
    BY <1>2 DEF StatusReadRun, TypeOK
  <2> QED
    BY <1>2, <2>1, <2>2 DEF StatusReadRun, lifeVars, httpVars
<1>3. CASE StatusAnswer
  <2>1. status' \in [running : BOOLEAN, run : Run \cup {NoRun}]
    BY <1>3 DEF StatusAnswer, TypeOK
  <2> QED
    BY <1>3, <2>1 DEF StatusAnswer, lifeVars, httpVars
<1>4. CASE MainStep
  BY <1>4
     DEF MainStep, CreateInterface, StartServing, LeaveInterface, CloseServer, Destroy,
         statusVars, httpVars
<1>5. CASE Interrupt
  <2>1. interrupts' \in 0 .. MaxInterrupts
    BY <1>5, ServerBoundsAssumption DEF Interrupt
  <2> QED
    BY <1>5, <2>1 DEF Interrupt, StopInterface, statusVars, httpVars
<1> QED
  BY <1>1, <1>2, <1>3, <1>4, <1>5 DEF ServerNext, StatusStep

\* Mongoose waits for the post, so the services outlive it.
LEMMA PostsStep ==
  ASSUME ServerInv, ServerNext
  PROVE  PostsWhileServing'
<1> USE DEF ServerInv, PostsWhileServing
<1>1. CASE HttpStep
  <2>1. main = "serving"
    BY <1>1
       DEF HttpStep, PostStartWithoutNumber, PostEndNotRunning, PostEnd, PostStart,
           HttpIdle, HttpEffect, Effect, SignalEndOfRun, ClearRunning, FinishEnd,
           AssignRun, SetRunning, SignalStartOfRun, FinishPost
  <2>2. UNCHANGED <<main, services>>
    BY <1>1
       DEF HttpStep, PostStartWithoutNumber, PostEndNotRunning, PostEnd, PostStart,
           HttpEffect, FinishPost, lifeVars
  <2> QED
    BY <2>1, <2>2
<1>2. CASE StatusStep
  BY <1>2 DEF StatusStep, StatusReadRun, StatusAnswer, vars, httpVars, lifeVars
<1>3. CASE MainStep
  BY <1>3
     DEF MainStep, CreateInterface, StartServing, LeaveInterface, HttpStopped,
         CloseServer, Destroy, vars, httpVars
<1>4. CASE Interrupt
  BY <1>4 DEF Interrupt, vars, httpVars
<1> QED
  BY <1>1, <1>2, <1>3, <1>4 DEF ServerNext

\* The invariant holds of every behaviour of the server, with the run control's.
THEOREM ServerInvariance == ServerSpec => []ServerInv
<1>1. ServerInv /\ [ServerNext]_serverVars => ServerInv'
  <2> SUFFICES ASSUME ServerInv, [ServerNext]_serverVars PROVE ServerInv'
    OBVIOUS
  <2>1. RunInv'
    BY RunInvStep DEF ServerInv
  <2>2. CASE ServerNext
    BY <2>1, <2>2, ServerTypeStep, PostsStep DEF ServerInv, RunInv
  <2>3. CASE UNCHANGED serverVars
    BY <2>1, <2>3
       DEF ServerInv, RunInv, ServerTypeOK, PostsWhileServing, serverVars, vars,
           httpVars, statusVars, lifeVars
  <2> QED
    BY <2>2, <2>3
<1> QED
  BY ServerInitialState, <1>1, PTL DEF ServerSpec

\* No signal of the run control finds the services gone, whenever Ctrl+C comes.
THEOREM SignalsFindServices == ServerSpec => []ServicesAliveAtSignals
<1>1. ServerInv => ServicesAliveAtSignals
  BY DEF ServerInv, PostsWhileServing, ServicesAliveAtSignals
<1> QED
  BY ServerInvariance, <1>1, PTL

\* What the server publishes is a run lifecycle, whatever is posted and however
\* status requests and the shutdown interleave with it.
THEOREM ServerLifecycleImplemented == ServerSpec => ImplementsLifecycle
<1>1. ServerInit => Lifecycle!LifecycleInit
  BY DEF ServerInit, Lifecycle!LifecycleInit
<1>2. ServerInv /\ [ServerNext]_serverVars => [Lifecycle!LifecycleNext]_messages
  <2> SUFFICES ASSUME ServerInv, [ServerNext]_serverVars
               PROVE  Lifecycle!LifecycleNext \/ UNCHANGED messages
    OBVIOUS
  <2>1. CASE ServerNext
    BY <2>1, ServerStepOnRunControl, CallsAnnounceNothing, EffectAnnounces
       DEF ServerInv, vars
  <2>2. CASE UNCHANGED serverVars
    BY <2>2 DEF serverVars, vars
  <2> QED
    BY <2>1, <2>2
<1> QED
  BY ServerInvariance, <1>1, <1>2, PTL
     DEF ServerSpec, ImplementsLifecycle, Lifecycle!LifecycleSpec

=============================================================================
