------------------------------ MODULE EventQueue ------------------------------
(***************************************************************************)
(* The event queue of an EventClient.  DIM's thread pushes what it         *)
(* receives, the application's thread takes, clears and sets the maximum.  *)
(*                                                                         *)
(* pushEvent locks and unlocks the mutex itself.  The other calls write    *)
(* scoped_lock( & m_mutex), an object without a name: it waits for the     *)
(* mutex and gives it back at the semicolon, so that what these calls do   *)
(* with the queue is done without it.  A call of std::queue is one step    *)
(* here; what two of them at once do inside of it is not modelled, and     *)
(* front and pop of an empty queue are where a behaviour ends.             *)
(***************************************************************************)
EXTENDS Naturals, Sequences

CONSTANTS
  MaxLimit,      \* largest maximum size, and the one of a new client
  MaxArrivals,   \* bound: events received
  MaxQueueCalls  \* bound: calls of the application

ASSUME QueueAssumption ==
  MaxLimit \in Nat \ {0} /\ MaxArrivals \in Nat /\ MaxQueueCalls \in Nat

VARIABLES
  queue,      \* m_eventQueue: of each event, as which it arrived
  limit,      \* m_maximumQueueSize
  dim,        \* where DIM's thread is: it has the mutex unless it is idle
  user,       \* where the application's thread is
  taken,      \* the event that front gave to takeEvent
  arrived, queueCalls,  \* what the bounds count
  broken,     \* front or pop was called on an empty queue
  overtaken   \* history: a pushEvent that compared before the queue was shrunk to the
              \* present maximum pushes after it

queueVars == <<queue, limit, dim, user, taken, arrived, queueCalls, broken, overtaken>>

QueueInit ==
  /\ queue = <<>> /\ limit = MaxLimit
  /\ dim = "idle" /\ user = "idle" /\ taken = 0
  /\ arrived = 0 /\ queueCalls = 0
  /\ broken = FALSE /\ overtaken = FALSE

\* std::queue::pop.
Pop ==
  IF queue = <<>> THEN broken' = TRUE /\ UNCHANGED queue
                  ELSE queue' = Tail(queue) /\ UNCHANGED broken

-----------------------------------------------------------------------------
(* DIM's thread: eventReception and pushEvent. *)

\* What is EMPTY or unreadable does not come to pushEvent.
EventReception ==
  /\ ~broken /\ dim = "idle" /\ arrived < MaxArrivals
  /\ arrived' = arrived + 1
  /\ dim' \in {"idle", "comparing"}
  /\ UNCHANGED <<queue, limit, user, taken, queueCalls, broken, overtaken>>

\* Mutant: no event is given up for the new one.
CompareSize_NeverFull ==
  /\ ~broken /\ dim = "comparing"
  /\ dim' = "pushing"
  /\ UNCHANGED <<queue, limit, user, taken, arrived, queueCalls, broken, overtaken>>

\* It compares for equality: a queue that is longer than its maximum is not full.
CompareSize ==
  /\ ~broken /\ dim = "comparing"
  /\ dim' = IF Len(queue) = limit THEN "popping" ELSE "pushing"
  /\ UNCHANGED <<queue, limit, user, taken, arrived, queueCalls, broken, overtaken>>

PopOldest ==
  /\ ~broken /\ dim = "popping"
  /\ Pop /\ dim' = "pushing"
  /\ UNCHANGED <<limit, user, taken, arrived, queueCalls, overtaken>>

PushEvent ==
  /\ ~broken /\ dim = "pushing"
  /\ queue' = Append(queue, arrived) /\ dim' = "idle"
  /\ UNCHANGED <<limit, user, taken, arrived, queueCalls, broken, overtaken>>

ReceiverThread == EventReception \/ CompareSize \/ PopOldest \/ PushEvent

-----------------------------------------------------------------------------
(* The application's thread. *)

Begin == user = "idle" /\ queueCalls < MaxQueueCalls /\ queueCalls' = queueCalls + 1

\* scoped_lock( & m_mutex): nobody has the mutex, and nobody has it afterwards.
PassLock == dim = "idle"

\* The maximum is set before the lock.
SetMaximumQueueSize(size) ==
  /\ ~broken /\ Begin
  /\ limit' = size /\ user' = "resizing"
  /\ overtaken' = FALSE
  /\ UNCHANGED <<queue, dim, taken, arrived, broken>>

BeginToShrink ==
  /\ ~broken /\ user = "resizing" /\ PassLock
  /\ user' = "shrinking"
  /\ UNCHANGED <<queue, limit, dim, taken, arrived, queueCalls, broken, overtaken>>

ShrinkQueue ==
  /\ ~broken /\ user = "shrinking"
  /\ IF Len(queue) > limit
     THEN user' = "dropping" /\ UNCHANGED overtaken
     ELSE user' = "idle" /\ overtaken' = (dim = "pushing" /\ Len(queue) >= limit)
  /\ UNCHANGED <<queue, limit, dim, taken, arrived, queueCalls, broken>>

DropOldest ==
  /\ ~broken /\ user = "dropping"
  /\ Pop /\ user' = "shrinking"
  /\ UNCHANGED <<limit, dim, taken, arrived, queueCalls, overtaken>>

ClearQueue ==
  /\ ~broken /\ Begin /\ PassLock
  /\ user' = "clearing"
  /\ UNCHANGED <<queue, limit, dim, taken, arrived, broken, overtaken>>

ClearNext ==
  /\ ~broken /\ user = "clearing"
  /\ user' = IF queue = <<>> THEN "idle" ELSE "removing"
  /\ UNCHANGED <<queue, limit, dim, taken, arrived, queueCalls, broken, overtaken>>

RemoveNext ==
  /\ ~broken /\ user = "removing"
  /\ Pop /\ user' = "clearing"
  /\ UNCHANGED <<limit, dim, taken, arrived, queueCalls, overtaken>>

TakeEvent ==
  /\ ~broken /\ Begin /\ PassLock
  /\ user' = "taking"
  /\ UNCHANGED <<queue, limit, dim, taken, arrived, broken, overtaken>>

\* An empty queue leaves the caller's pointer alone.
LookForEvent ==
  /\ ~broken /\ user = "taking"
  /\ user' = IF queue = <<>> THEN "idle" ELSE "reading"
  /\ UNCHANGED <<queue, limit, dim, taken, arrived, queueCalls, broken, overtaken>>

ReadFront ==
  /\ ~broken /\ user = "reading"
  /\ user' = "returning"
  /\ IF queue = <<>> THEN broken' = TRUE /\ UNCHANGED taken
                     ELSE taken' = Head(queue) /\ UNCHANGED broken
  /\ UNCHANGED <<queue, limit, dim, arrived, queueCalls, overtaken>>

RemoveTaken ==
  /\ ~broken /\ user = "returning"
  /\ Pop /\ user' = "idle"
  /\ UNCHANGED <<limit, dim, taken, arrived, queueCalls, overtaken>>

UserThread ==
  \/ \E size \in 1 .. MaxLimit : SetMaximumQueueSize(size)
  \/ BeginToShrink \/ ShrinkQueue \/ DropOldest
  \/ ClearQueue \/ ClearNext \/ RemoveNext
  \/ TakeEvent \/ LookForEvent \/ ReadFront \/ RemoveTaken

QueueNext == ReceiverThread \/ UserThread

QueueSpec == QueueInit /\ [][QueueNext]_queueVars

-----------------------------------------------------------------------------
(* Properties. *)

QueueTypeOK ==
  /\ queue \in Seq(Nat) /\ limit \in 1 .. MaxLimit
  /\ dim \in {"idle", "comparing", "popping", "pushing"}
  /\ user \in {"idle", "resizing", "shrinking", "dropping", "clearing", "removing", "taking",
               "reading", "returning"}
  /\ taken \in Nat /\ arrived \in 0 .. MaxArrivals /\ queueCalls \in 0 .. MaxQueueCalls
  /\ broken \in BOOLEAN /\ overtaken \in BOOLEAN

\* setMaximumQueueSize has not come to its end.
Resizing == user \in {"resizing", "shrinking", "dropping"}

\* A queue is longer than its maximum only until setMaximumQueueSize returns, or when
\* a pushEvent that had compared before pushed after that.
QueueWithinMaximum == Resizing \/ overtaken \/ Len(queue) <= limit

\* The inductive invariant of the proof: who is about to push has room for it.
QueueInv ==
  /\ QueueTypeOK /\ QueueWithinMaximum
  /\ dim = "pushing" => Resizing \/ overtaken \/ Len(queue) < limit

=============================================================================
