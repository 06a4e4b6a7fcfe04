------------------------------ MODULE RunControl ------------------------------
(***************************************************************************)
(* The run control: the object that holds the current run, guards it with  *)
(* an optional password, and signals the start and the end of runs.        *)
(*                                                                         *)
(* The class has no lock.  One thread calls its methods, one call at a     *)
(* time, but other threads may read the object meanwhile: every assignment *)
(* of a member, and every signal, is an action of its own.  "pc" says      *)
(* where the ongoing call stands.                                          *)
(*                                                                         *)
(* A run is its number; description, detector and parameters go with it.   *)
(***************************************************************************)
EXTENDS Naturals, Sequences

CONSTANTS
  Run,         \* run numbers
  NoRun,       \* the number of a Run object that was reset
  Name,        \* names of the run control
  Password,    \* passwords that are not empty
  NoPassword,  \* the empty password: everybody may start and end runs
  MaxCalls     \* bound: calls of the methods

ASSUME RunAssumption == NoRun \notin Run
ASSUME PasswordAssumption == NoPassword \notin Password
ASSUME MaxCallsAssumption == MaxCalls \in Nat

Announcements == [kind : {"SOR", "EOR"}, run : Run]

AnyPassword == Password \cup {NoPassword}

VARIABLES
  running,   \* m_running
  run,       \* m_run
  name,      \* m_name
  password,  \* m_password
  pc,        \* where the ongoing call stands; "idle" between calls
  next,      \* the run to start when the ongoing call is startNewRun, or NoRun
  early,     \* the ongoing startNewRun sets m_running before the signal
  given,     \* the password given to the ongoing call
  result,    \* status code of the last call
  messages,  \* what m_sorSignal and m_eorSignal announced so far
  calls      \* what the bound counts

settings == <<name, password>>
call == <<next, early, given, result, calls>>
vars == <<running, run, settings, pc, call, messages>>

-----------------------------------------------------------------------------

Lifecycle == INSTANCE RunLifecycle WITH Run <- Run, messages <- messages

\* checkPassword: an empty m_password lets every call through.
CheckPassword(pwd) == password \in {NoPassword, pwd}

Announce(kind, r) == messages' = Append(messages, [kind |-> kind, run |-> r])

Return(code) == pc' = "idle" /\ result' = code

Init ==
  /\ running = FALSE /\ run = NoRun
  /\ name \in Name /\ password = NoPassword
  /\ pc = "idle" /\ next = NoRun /\ early = FALSE /\ given = NoPassword
  /\ result = "SUCCESS"
  /\ messages = <<>>
  /\ calls = 0

-----------------------------------------------------------------------------
(* The calls.  A call that is refused returns at once. *)

Call ==
  /\ pc = "idle" /\ calls < MaxCalls
  /\ calls' = calls + 1

\* setName: refused while a run goes on, unless the name is the same.
SetName(n) ==
  /\ Call
  /\ IF n # name /\ running THEN name' = name /\ Return("NOT_ALLOWED")
                            ELSE name' = n /\ Return("SUCCESS")
  /\ UNCHANGED <<running, run, password, next, early, given, messages>>

\* setPassword: at any time, no password asked.
SetPassword(pwd) ==
  /\ Call
  /\ password' = pwd /\ Return("SUCCESS")
  /\ UNCHANGED <<running, run, name, next, early, given, messages>>

\* Mutant: the calls do not ask for the password.
Granted_Always(pwd) == TRUE

\* The password check at the top of startNewRun and of endCurrentRun.
Granted(pwd) == CheckPassword(pwd)

\* Mutant: startNewRun does not end the run that goes on.
FirstStep_NoEnd(r) == "assigning"

\* startNewRun ends the current run first, if there is one.
FirstStep(r) == IF running THEN "ending" ELSE "assigning"

\* Both overloads of startNewRun up to their first effect.  The one that is given
\* a Run sets m_running before the signal, the other one after it.
StartNewRun(r, pwd, isRun) ==
  /\ Call
  /\ IF ~Granted(pwd)
     THEN Return("NOT_ALLOWED") /\ UNCHANGED <<next, early, given>>
     ELSE /\ pc' = FirstStep(r)
          /\ next' = r /\ early' = isRun /\ given' = pwd
          /\ UNCHANGED result
  /\ UNCHANGED <<running, run, settings, messages>>

\* endCurrentRun up to its first effect; without a run there is nothing to end.
EndCurrentRun(pwd) ==
  /\ Call
  /\ next' = NoRun /\ given' = pwd
  /\ IF ~Granted(pwd) THEN Return("NOT_ALLOWED")
     ELSE IF ~running THEN Return("SUCCESS")
     ELSE pc' = "ending" /\ UNCHANGED result
  /\ UNCHANGED <<running, run, settings, early, messages>>

-----------------------------------------------------------------------------
(* The effects of endCurrentRun, then those of startNewRun. *)

\* m_eorSignal.process(m_run)
SignalEndOfRun ==
  /\ pc = "ending"
  /\ Announce("EOR", run)
  /\ pc' = "clearing"
  /\ UNCHANGED <<running, run, settings, call>>

\* m_running = false
ClearRunning ==
  /\ pc = "clearing"
  /\ running' = FALSE
  /\ pc' = "resetting"
  /\ UNCHANGED <<run, settings, call, messages>>

\* Mutant: the run is not reset.
ResetRun_Not == run' = run

\* m_run.reset()
ResetRun == run' = NoRun

\* The end of endCurrentRun: back to startNewRun if that one called it.
FinishEnd ==
  /\ pc = "resetting"
  /\ ResetRun
  /\ IF next = NoRun THEN Return("SUCCESS")
                     ELSE pc' = "assigning" /\ UNCHANGED result
  /\ UNCHANGED <<running, settings, next, early, given, messages, calls>>

\* m_run = run
AssignRun ==
  /\ pc = "assigning"
  /\ run' = next
  /\ pc' = IF early THEN "setting" ELSE "signalling"
  /\ UNCHANGED <<running, settings, call, messages>>

\* Mutant: m_running keeps its value.
RaiseFlag_Not == running' = running

RaiseFlag == running' = TRUE

\* m_running = true, before or after the signal.
SetRunning ==
  /\ pc = "setting"
  /\ RaiseFlag
  /\ IF early THEN pc' = "signalling" /\ UNCHANGED result ELSE Return("SUCCESS")
  /\ UNCHANGED <<run, settings, next, early, given, messages, calls>>

\* m_sorSignal.process(m_run)
SignalStartOfRun ==
  /\ pc = "signalling"
  /\ Announce("SOR", run)
  /\ IF early THEN Return("SUCCESS") ELSE pc' = "setting" /\ UNCHANGED result
  /\ UNCHANGED <<running, run, settings, next, early, given, calls>>

Effect ==
  \/ SignalEndOfRun \/ ClearRunning \/ FinishEnd
  \/ AssignRun \/ SetRunning \/ SignalStartOfRun

-----------------------------------------------------------------------------

Calls ==
  \/ \E n \in Name : SetName(n)
  \/ \E pwd \in AnyPassword :
       \/ SetPassword(pwd)
       \/ EndCurrentRun(pwd)
       \/ \E r \in Run, isRun \in BOOLEAN : StartNewRun(r, pwd, isRun)

Next == Calls \/ Effect

\* A call that was entered returns.
Spec == Init /\ [][Next]_vars /\ WF_vars(Effect)

-----------------------------------------------------------------------------
(* Properties *)

PC == {"idle", "ending", "clearing", "resetting", "assigning", "setting", "signalling"}

TypeOK ==
  /\ running \in BOOLEAN /\ early \in BOOLEAN
  /\ run \in Run \cup {NoRun} /\ next \in Run \cup {NoRun}
  /\ name \in Name
  /\ password \in AnyPassword /\ given \in AnyPassword
  /\ pc \in PC
  /\ result \in {"SUCCESS", "NOT_ALLOWED"}
  /\ messages \in Seq(Announcements)
  /\ calls \in 0 .. MaxCalls

\* Between two calls the flag, the run and the announcements tell one story: a run
\* goes on exactly when a start was announced last, and it is the one announced.
StateMatchesAnnouncements ==
  pc = "idle" =>
    /\ running <=> Lifecycle!OpenRun # {}
    /\ Lifecycle!OpenRun = {run} \ {NoRun}

\* Where the ongoing call stands, in terms of what was announced.
CallProgress ==
  /\ pc \in {"assigning", "setting", "signalling"} => next \in Run
  /\ pc \in {"ending"} => running /\ Lifecycle!OpenRun = {run}
  /\ pc \in {"clearing", "resetting", "assigning"} => Lifecycle!OpenRun = {}
  /\ pc \in {"resetting", "assigning"} => ~running
  /\ pc = "setting" =>
       run = next /\ ~running /\ Lifecycle!OpenRun = IF early THEN {} ELSE {run}
  /\ pc = "signalling" =>
       run = next /\ Lifecycle!OpenRun = {} /\ (running <=> early)

\* A call that was let through goes on under the password it was let through with.
CallAuthorised == pc # "idle" => CheckPassword(given)

\* The inductive invariant of the proofs.
RunInv == TypeOK /\ StateMatchesAnnouncements /\ CallProgress /\ CallAuthorised

\* Nothing is announced by a call that gave another password than the one asked
\* for, also when ending a run is only the first half of a start.
AnnouncedWithPassword ==
  [][messages' # messages => password \in {NoPassword, given}]_vars

\* A start that was let through ends with its run going on, the previous run ended
\* and announced as ended.
GrantedStartsSucceed ==
  \A r \in Run :
    pc # "idle" /\ next = r ~> pc = "idle" /\ running /\ run = r

\* The announcements are those of the abstract run lifecycle.
ImplementsLifecycle == Lifecycle!LifecycleSpec

=============================================================================
