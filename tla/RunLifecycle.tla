----------------------------- MODULE RunLifecycle -----------------------------
(***************************************************************************)
(* What an application that listens to a run control may count on: runs    *)
(* follow one another.  A start of run is announced when no run is open,   *)
(* an end of run closes the run that was announced last.  The same number  *)
(* may be given to several runs.                                           *)
(***************************************************************************)
EXTENDS Sequences

CONSTANT Run  \* run numbers

VARIABLE messages  \* announcements so far: kind "SOR" or "EOR", and the run

Announcement(kind, r) == [kind |-> kind, run |-> r]

\* The run that was announced and not ended, as a set of at most one element.
OpenRun ==
  IF messages = <<>> THEN {}
  ELSE LET last == messages[Len(messages)]
       IN IF last.kind = "SOR" THEN {last.run} ELSE {}

LifecycleInit == messages = <<>>

StartOfRun(r) ==
  /\ OpenRun = {}
  /\ messages' = Append(messages, Announcement("SOR", r))

EndOfRun(r) ==
  /\ r \in OpenRun
  /\ messages' = Append(messages, Announcement("EOR", r))

LifecycleNext == \E r \in Run : StartOfRun(r) \/ EndOfRun(r)

LifecycleSpec == LifecycleInit /\ [][LifecycleNext]_messages

=============================================================================
