-------------------------------- MODULE Channels --------------------------------
(***************************************************************************)
(* What the messages under way will have done once they are all handled:   *)
(* the words the inductive invariants of the flows are put in.  They look  *)
(* at the positions of a queue and need no recursion over it.              *)
(***************************************************************************)
EXTENDS Naturals, Sequences

\* No message of the set stands behind the first i of the queue.
NoneAfter(q, i, messages) == \A j \in (i + 1) .. Len(q) : q[j] \notin messages

\* A fact that the messages of "against" may end holds when the queue is handled:
\* because it holds and none of them is under way, or because a message of "for"
\* establishes it and none of them comes behind that one.
Prevails(fact, q, for, against) ==
  \/ fact /\ NoneAfter(q, 0, against)
  \/ \E i \in 1 .. Len(q) : q[i] \in for /\ NoneAfter(q, i, against)

=============================================================================
