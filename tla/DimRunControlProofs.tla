-------------------------- MODULE DimRunControlProofs --------------------------
(***************************************************************************)
(* Proofs about the run control over DIM: the inductive invariant          *)
(* FollowingInv, and from it that a client does not stay in a run that is  *)
(* over; then InformedInv, and from it that a client that was told of the  *)
(* run that goes on has it.  First how the messages under way change, then *)
(* one lemma per action.                                                   *)
(***************************************************************************)
EXTENDS DimRunControl, TLAPS

(* Messages under way. *)

\* With an end as the last message, every run is ended, whatever the service does.
LEMMA EndLast ==
  ASSUME NEW q \in Seq(Message), NEW u \in Message, Ends(u),
         toClient' = Append(q, u)
  PROVE  toClient' \in Seq(Message) /\ RunsAreEnded'
<1>1. /\ toClient' \in Seq(Message)
      /\ Len(q) \in Nat /\ Len(toClient') = Len(q) + 1
      /\ toClient'[Len(q) + 1] = u
      /\ \A i \in 1 .. Len(q) : toClient'[i] = q[i]
  OBVIOUS
<1>2. \A i \in 0 .. Len(q) : EndAfter(i)'
  BY <1>1 DEF EndAfter, Ends
<1>3. EndAfter(0)'
  BY <1>1, <1>2
<1>4. \A i \in 1 .. Len(toClient') : Ends(toClient'[i]) \/ EndAfter(i)'
  <2> TAKE i \in 1 .. Len(toClient')
  <2>1. CASE i = Len(q) + 1
    BY <1>1, <2>1
  <2>2. CASE i \in 0 .. Len(q)
    BY <1>2, <2>2
  <2> QED
    BY <1>1, <2>1, <2>2
<1> QED
  BY <1>1, <1>3, <1>4 DEF RunsAreEnded, Ends

\* A message more leaves the ends where they are.
LEMMA EndAfterAppend ==
  ASSUME toClient \in Seq(Message), NEW u \in Message,
         toClient' = Append(toClient, u)
  PROVE  /\ toClient' \in Seq(Message)
         /\ Len(toClient) \in Nat /\ Len(toClient') = Len(toClient) + 1
         /\ toClient'[Len(toClient')] = u
         /\ \A i \in 1 .. Len(toClient) : toClient'[i] = toClient[i]
         /\ \A i \in Nat : EndAfter(i) => EndAfter(i)'
<1>1. /\ toClient' \in Seq(Message)
      /\ Len(toClient) \in Nat /\ Len(toClient') = Len(toClient) + 1
      /\ toClient'[Len(toClient')] = u
      /\ \A i \in 1 .. Len(toClient) : toClient'[i] = toClient[i]
  OBVIOUS
<1>2. ASSUME NEW i \in Nat, EndAfter(i) PROVE EndAfter(i)'
  <2>1. PICK j \in (i + 1) .. Len(toClient) : Ends(toClient[j])
    BY <1>2 DEF EndAfter
  <2>2. j \in (i + 1) .. Len(toClient') /\ toClient'[j] = toClient[j]
    BY <1>1, <2>1
  <2> QED
    BY <2>1, <2>2 DEF EndAfter, Ends
<1> QED
  BY <1>1, <1>2

\* A message that tells of the run that goes on, while the client is linked and
\* nothing else goes on.
LEMMA ToldWhileLinked ==
  ASSUME toClient \in Seq(Message), NEW u \in Message, link',
         u.run \in {NoRun, serviceRun'},
         toClient' = Append(toClient, u),
         UNCHANGED <<connected, clientRun>>,
         RunsAreEnded, clientRun \in AnyRun,
         \A r \in Run : GoesOn(r) => GoesOn(r)'
  PROVE  toClient' \in Seq(Message) /\ RunsAreEnded'
<1>1. /\ toClient' \in Seq(Message)
      /\ Len(toClient) \in Nat /\ Len(toClient') = Len(toClient) + 1
      /\ toClient'[Len(toClient')] = u
      /\ \A i \in 1 .. Len(toClient) : toClient'[i] = toClient[i]
      /\ \A i \in Nat : EndAfter(i) => EndAfter(i)'
  BY EndAfterAppend
<1>2. ASSUME connected', clientRun' # NoRun PROVE GoesOn(clientRun)' \/ EndAfter(0)'
  <2>1. clientRun' = clientRun /\ clientRun \in Run
    BY <1>2 DEF AnyRun
  <2>2. GoesOn(clientRun) \/ EndAfter(0)
    BY <1>2, <2>1 DEF RunsAreEnded
  <2> QED
    BY <1>1, <2>1, <2>2 DEF GoesOn
<1>3. ASSUME NEW i \in 1 .. Len(toClient'), ~Ends(toClient'[i]), toClient'[i].run # NoRun
      PROVE  GoesOn(toClient[i].run)' \/ EndAfter(i)'
  <2>1. CASE i = Len(toClient')
    <3>1. toClient'[i] = u
      BY <1>1, <2>1
    <3>2. u.run = serviceRun'
      BY <1>3, <3>1
    <3> QED
      BY <3>1, <3>2 DEF GoesOn
  <2>2. CASE i # Len(toClient')
    <3>1. i \in 1 .. Len(toClient) /\ toClient'[i] = toClient[i]
      BY <1>1, <2>2
    <3>2. GoesOn(toClient[i].run) \/ EndAfter(i)
      BY <1>3, <3>1 DEF RunsAreEnded, Ends
    <3>3. toClient[i].run \in Run
      <4>1. toClient[i] \in Message
        BY <3>1
      <4> QED
        BY <1>3, <3>1, <4>1 DEF Message, AnyRun
    <3> QED
      BY <1>1, <3>1, <3>2, <3>3 DEF GoesOn
  <2> QED
    BY <2>1, <2>2
<1> QED
  BY <1>1, <1>2, <1>3 DEF RunsAreEnded, Ends

\* The end of one run and the start of the next.
LEMMA StartOverRun ==
  ASSUME toClient \in Seq(Message), NEW e \in Message, Ends(e),
         NEW u \in Message, link', u.run = serviceRun',
         toClient' = toClient \o (<<e>> \o <<u>>)
  PROVE  toClient' \in Seq(Message) /\ RunsAreEnded'
<1>1. /\ toClient' \in Seq(Message)
      /\ Len(toClient) \in Nat /\ Len(toClient') = Len(toClient) + 2
      /\ toClient'[Len(toClient) + 1] = e /\ toClient'[Len(toClient) + 2] = u
  OBVIOUS
<1>2. \A i \in 0 .. Len(toClient) : EndAfter(i)'
  BY <1>1 DEF EndAfter, Ends
<1>3. EndAfter(0)'
  BY <1>1, <1>2
<1>4. ASSUME NEW i \in 1 .. Len(toClient')
      PROVE  Ends(toClient'[i]) \/ GoesOn(toClient[i].run)' \/ EndAfter(i)'
  <2>1. CASE i \in 0 .. Len(toClient)
    BY <1>2, <2>1
  <2>2. CASE i = Len(toClient) + 1
    BY <1>1, <2>2
  <2>3. CASE i = Len(toClient) + 2
    BY <1>1, <2>3 DEF GoesOn
  <2> QED
    BY <1>1, <2>1, <2>2, <2>3
<1> QED
  BY <1>1, <1>3, <1>4 DEF RunsAreEnded, Ends

\* Nothing is sent and what goes on still does.
LEMMA NothingSent ==
  ASSUME toClient \in Seq(Message), UNCHANGED <<toClient, connected, clientRun>>,
         RunsAreEnded, clientRun \in AnyRun,
         \A r \in Run : GoesOn(r) => GoesOn(r)'
  PROVE  toClient' \in Seq(Message) /\ RunsAreEnded'
<1>1. \A i \in Nat : EndAfter(i)' <=> EndAfter(i)
  BY DEF EndAfter, Ends
<1>2. connected' /\ clientRun' # NoRun => GoesOn(clientRun)' \/ EndAfter(0)'
  BY <1>1 DEF RunsAreEnded, AnyRun, GoesOn
<1>3. ASSUME NEW i \in 1 .. Len(toClient), ~Ends(toClient[i]), toClient[i].run # NoRun
      PROVE  GoesOn(toClient[i].run)' \/ EndAfter(i)'
  <2>1. GoesOn(toClient[i].run) \/ EndAfter(i)
    BY <1>3 DEF RunsAreEnded
  <2>2. toClient[i] \in Message
    OBVIOUS
  <2>3. toClient[i].run \in Run
    BY <1>3, <2>2 DEF Message, AnyRun
  <2> QED
    BY <1>1, <2>1, <2>3 DEF GoesOn
<1> QED
  BY <1>2, <1>3 DEF RunsAreEnded, Ends, GoesOn

\* What is published while the service has no link reaches nobody.
LEMMA NotLinked ==
  ASSUME FollowingInv, ~link, UNCHANGED <<toClient, connected, clientRun>>
  PROVE  toClient' \in Seq(Message) /\ RunsAreEnded'
<1>1. \A r \in Run : GoesOn(r) => GoesOn(r)'
  BY DEF GoesOn
<1> QED
  BY <1>1, NothingSent DEF FollowingInv, TypeOK

-----------------------------------------------------------------------------
(* The service. *)

\* What the service publishes when it ends the run that goes on.
LEMMA EndIsPublished ==
  ASSUME FollowingInv, serviceRun # NoRun
  PROVE  /\ EndUpdate = <<Update("END_OF_RUN", serviceRun)>>
         /\ Update("END_OF_RUN", serviceRun) \in Message
         /\ Ends(Update("END_OF_RUN", serviceRun))
BY DEF FollowingInv, TypeOK, AnyRun, EndUpdate, Update, Message, Ends

\* The part of the type invariant that every publication sets anew.
InformedOK == informed \subseteq {"START_OF_RUN", "CURRENT_RUN"}

\* startNewRun, with or without a run to end.
LEMMA StartKeeps ==
  ASSUME FollowingInv, NEW r \in Run, NEW granted \in BOOLEAN,
         ServiceStartNewRun(r, granted), UNCHANGED clientVars
  PROVE  /\ toClient' \in Seq(Message) /\ RunsAreEnded'
         /\ serviceRun' \in AnyRun /\ runNumber' \in AnyRun
         /\ UNCHANGED <<link, request>> /\ InformedOK'
<1> DEFINE u == Update("START_OF_RUN", r)
<1> USE DEF clientVars
<1>1. u \in Message /\ u.run = r
  BY DEF Update, Message
<1>2. toClient \in Seq(Message) /\ RunsAreEnded /\ clientRun \in AnyRun
  BY DEF FollowingInv, TypeOK
<1>3. /\ serviceRun' \in AnyRun /\ runNumber' \in AnyRun
      /\ UNCHANGED <<link, request>> /\ InformedOK'
  BY DEF ServiceStartNewRun, FollowingInv, TypeOK, AnyRun, Publish, PublishNothing, wireVars,
         StartTold, InformedOK
<1>4. CASE ~granted
  <2>1. UNCHANGED <<toClient, link, serviceRun>>
    BY <1>4 DEF ServiceStartNewRun, PublishNothing, wireVars
  <2> QED
    BY <1>2, <1>3, <2>1, NothingSent DEF GoesOn
<1>5. CASE granted /\ ~link
  <2>1. UNCHANGED toClient
    BY <1>5 DEF ServiceStartNewRun, Publish
  <2> QED
    BY <1>3, <1>5, <2>1, NotLinked
<1>6. CASE granted /\ link /\ serviceRun = NoRun
  <2>1. EndUpdate = <<>>
    BY <1>6 DEF EndUpdate
  <2>2. toClient' = toClient \o (<<>> \o <<u>>) /\ serviceRun' = r /\ link'
    BY <1>6, <2>1 DEF ServiceStartNewRun, Publish
  <2>3. toClient' = Append(toClient, u)
    BY <1>1, <1>2, <2>2
  <2>4. \A s \in Run : GoesOn(s) => GoesOn(s)'
    BY <1>6, RunAssumption DEF GoesOn
  <2> QED
    BY <1>1, <1>2, <1>3, <2>2, <2>3, <2>4, ToldWhileLinked
<1>7. CASE granted /\ link /\ serviceRun # NoRun
  <2> DEFINE e == Update("END_OF_RUN", serviceRun)
  <2>1. EndUpdate = <<e>> /\ e \in Message /\ Ends(e)
    BY <1>7, EndIsPublished
  <2>2. toClient' = toClient \o (<<e>> \o <<u>>) /\ serviceRun' = r /\ link'
    BY <1>7, <2>1 DEF ServiceStartNewRun, Publish
  <2> QED
    BY <1>1, <1>2, <1>3, <2>1, <2>2, StartOverRun
<1> QED
  BY <1>3, <1>4, <1>5, <1>6, <1>7

\* endCurrentRun.
LEMMA EndKeeps ==
  ASSUME FollowingInv, serviceRun # NoRun, NEW granted \in BOOLEAN,
         ServiceEndCurrentRun(granted), UNCHANGED clientVars
  PROVE  /\ toClient' \in Seq(Message) /\ RunsAreEnded'
         /\ serviceRun' \in AnyRun /\ runNumber' \in AnyRun
         /\ UNCHANGED <<link, request>> /\ InformedOK'
<1> DEFINE e == Update("END_OF_RUN", serviceRun)
<1> USE DEF clientVars
<1>1. EndUpdate = <<e>> /\ e \in Message /\ Ends(e)
  BY EndIsPublished
<1>2. toClient \in Seq(Message) /\ RunsAreEnded /\ clientRun \in AnyRun
  BY DEF FollowingInv, TypeOK
<1>3. /\ serviceRun' \in AnyRun /\ runNumber' \in AnyRun
      /\ UNCHANGED <<link, request>> /\ InformedOK'
  BY DEF ServiceEndCurrentRun, FollowingInv, TypeOK, AnyRun, Publish, PublishNothing, wireVars,
         InformedOK
<1>4. CASE ~granted
  <2>1. UNCHANGED <<toClient, link, serviceRun>>
    BY <1>4 DEF ServiceEndCurrentRun, PublishNothing, wireVars
  <2> QED
    BY <1>2, <1>3, <2>1, NothingSent DEF GoesOn
<1>5. CASE granted /\ ~link
  <2>1. UNCHANGED toClient
    BY <1>5 DEF ServiceEndCurrentRun, Publish
  <2> QED
    BY <1>3, <1>5, <2>1, NotLinked
<1>6. CASE granted /\ link
  <2>1. toClient' = toClient \o <<e>>
    BY <1>1, <1>6 DEF ServiceEndCurrentRun, Publish
  <2>2. toClient' = Append(toClient, e)
    BY <1>1, <1>2, <2>1
  <2> QED
    BY <1>1, <1>2, <1>3, <2>2, EndLast
<1> QED
  BY <1>3, <1>4, <1>5, <1>6

\* A command or web post refused before it reaches the run.
LEMMA RefusalKeeps ==
  ASSUME FollowingInv, Refuse, UNCHANGED clientVars
  PROVE  /\ toClient' \in Seq(Message) /\ RunsAreEnded'
         /\ serviceRun' \in AnyRun /\ runNumber' \in AnyRun
         /\ UNCHANGED <<link, request>> /\ InformedOK'
<1>1. UNCHANGED <<toClient, link, request, informed, serviceRun, runNumber>>
  BY DEF Refuse, PublishNothing, wireVars
<1> QED
  BY <1>1, NothingSent DEF FollowingInv, TypeOK, clientVars, GoesOn, InformedOK

\* The commands and the web posts.
LEMMA CommandKeeps ==
  ASSUME FollowingInv, NEW granted \in BOOLEAN,
         \/ HandleEndCurrentRunRpc(granted) \/ MongooseEndOfRun(granted)
         \/ \E r \in Run : HandleStartNewRunRpc(r, granted) \/ MongooseStartOfRun(r, granted)
  PROVE  FollowingInv'
<1>1. /\ UNCHANGED <<serviceUp, outages, phase, connected, clientRun>>
      /\ UNCHANGED clientVars
      /\ commands' = commands + 1 /\ commands < MaxCommands
  BY DEF HandleEndCurrentRunRpc, MongooseEndOfRun, HandleStartNewRunRpc,
         MongooseStartOfRun, Command, clientVars
<1>2. response' \in BOOLEAN
  BY DEF HandleEndCurrentRunRpc, MongooseEndOfRun, HandleStartNewRunRpc,
         MongooseStartOfRun, Refuse, FollowingInv, TypeOK
<1>3. \/ Refuse
      \/ serviceRun # NoRun /\ ServiceEndCurrentRun(granted)
      \/ \E r \in Run : ServiceStartNewRun(r, granted)
  BY DEF HandleEndCurrentRunRpc, MongooseEndOfRun, HandleStartNewRunRpc, MongooseStartOfRun
<1>4. /\ toClient' \in Seq(Message) /\ RunsAreEnded'
      /\ serviceRun' \in AnyRun /\ runNumber' \in AnyRun
      /\ UNCHANGED <<link, request>> /\ InformedOK'
  BY <1>1, <1>3, RefusalKeeps, EndKeeps, StartKeeps
<1>5. commands' \in 0 .. MaxCommands
  BY <1>1, BoundAssumption DEF FollowingInv, TypeOK
<1>6. TypeOK'
  BY <1>1, <1>2, <1>4, <1>5 DEF FollowingInv, TypeOK, InformedOK
<1>7. ConnectionKept'
  BY <1>1, <1>4 DEF FollowingInv, ConnectionKept
<1> QED
  BY <1>4, <1>6, <1>7 DEF FollowingInv

\* The answer of a request, which only a linked client has made.
LEMMA AnswerKeeps ==
  ASSUME FollowingInv, HandleCurrentRunRpc
  PROVE  FollowingInv'
<1> DEFINE u == Update("CURRENT_RUN", serviceRun)
<1> USE DEF HandleCurrentRunRpc, FollowingInv, serviceVars, clientVars
<1>1. u \in Message /\ u.run = serviceRun /\ serviceRun' = serviceRun
  BY DEF Update, Message, TypeOK
<1>2. link /\ link'
  BY DEF ConnectionKept
<1>3. toClient' \in Seq(Message) /\ RunsAreEnded'
  BY <1>1, <1>2, ToldWhileLinked DEF TypeOK, GoesOn
<1>4. TypeOK'
  BY <1>3 DEF TypeOK
<1>5. ConnectionKept'
  BY <1>2 DEF ConnectionKept
<1> QED
  BY <1>3, <1>4, <1>5

\* Whatever is lost with the link, what is left ends with the broken link.
LEMMA OutageKeeps ==
  ASSUME FollowingInv, NEW updates \in Seq(Message), Outage(updates),
         serviceRun' \in AnyRun, runNumber' \in AnyRun
  PROVE  FollowingInv'
<1> DEFINE none == Update("NO_LINK", NoRun)
           sent == toClient \o updates
<1> USE DEF Outage, BreakLink, FollowingInv, clientVars
<1>1. none \in Message /\ Ends(none)
  BY DEF Update, Message, Ends
<1>2. toClient' \in Seq(Message) /\ RunsAreEnded'
  <2>1. CASE link
    <3>1. sent \in Seq(Message)
      BY DEF TypeOK
    <3>2. PICK n \in 0 .. Len(sent) : toClient' = SubSeq(sent, 1, n) \o <<none>>
      BY <2>1
    <3> DEFINE q == SubSeq(sent, 1, n)
    <3>3. q \in Seq(Message)
      BY <3>1
    <3>4. toClient' = Append(q, none)
      BY <1>1, <3>2, <3>3
    <3> HIDE DEF none, q
    <3> QED
      BY <1>1, <3>3, <3>4, EndLast
  <2>2. CASE ~link
    BY <2>2, NotLinked
  <2> QED
    BY <2>1, <2>2
<1>3. /\ UNCHANGED <<response, commands, phase, connected, clientRun, informed>>
      /\ serviceUp' = FALSE /\ link' = FALSE /\ request' = FALSE
  OBVIOUS
<1>4. outages' \in 0 .. MaxOutages
  BY BoundAssumption DEF TypeOK
<1>5. TypeOK'
  <2> USE <1>2, <1>3, <1>4
  <2> HIDE DEF Outage, BreakLink
  <2> QED
    BY DEF TypeOK
<1>6. ConnectionKept'
  BY <1>3 DEF ConnectionKept
<1> QED
  BY <1>2, <1>5, <1>6

\* The end of the process may still publish the end of its run.
LEMMA DieKeeps ==
  ASSUME FollowingInv, Die
  PROVE  FollowingInv'
<1>1. EndUpdate \in Seq(Message)
  <2>1. CASE serviceRun = NoRun
    BY <2>1 DEF EndUpdate
  <2>2. CASE serviceRun # NoRun
    <3>1. PICK e \in Message : EndUpdate = <<e>>
      BY <2>2, EndIsPublished
    <3> QED
      BY <3>1
  <2> QED
    BY <2>1, <2>2
<1>2. serviceRun' \in AnyRun /\ runNumber' \in AnyRun
  BY DEF Die, AnyRun
<1>3. PICK updates \in {<<>>, EndUpdate} : Outage(updates)
  BY DEF Die
<1>4. updates \in Seq(Message)
  <2>1. <<>> \in Seq(Message)
    OBVIOUS
  <2> QED
    BY <1>1, <1>3, <2>1
<1> QED
  BY <1>2, <1>3, <1>4, OutageKeeps

\* Everything else that happens to the service.
LEMMA ServiceStepKeeps ==
  ASSUME FollowingInv, ServiceStep
  PROVE  FollowingInv'
<1>1. ASSUME Stop PROVE FollowingInv'
  <2>1. serviceRun' \in AnyRun /\ runNumber' \in AnyRun /\ <<>> \in Seq(Message)
    BY <1>1 DEF Stop, FollowingInv, TypeOK
  <2> QED
    BY <1>1, <2>1, OutageKeeps DEF Stop
<1>2. ASSUME Start PROVE FollowingInv'
  <2> USE <1>2 DEF Start, FollowingInv, clientVars, wireVars
  <2>1. toClient' \in Seq(Message) /\ RunsAreEnded'
    BY NothingSent DEF TypeOK, GoesOn
  <2>2. TypeOK'
    BY <2>1 DEF TypeOK
  <2>3. ConnectionKept'
    BY DEF ConnectionKept
  <2> QED
    BY <2>1, <2>2, <2>3
<1> QED
  BY <1>1, <1>2, CommandKeeps, AnswerKeeps, DieKeeps DEF ServiceStep

-----------------------------------------------------------------------------
(* The client. *)

\* Connecting takes no run from the client, which has none before it is connected.
LEMMA ConnectingKeeps ==
  ASSUME FollowingInv, CreateInfos \/ SetConnected \/ RequestCurrentRun
  PROVE  FollowingInv'
<1> USE DEF FollowingInv, CreateInfos, SetConnected, RequestCurrentRun, serviceVars, wireVars
<1>1. UNCHANGED <<serviceVars, toClient, link, clientRun, informed, commands, outages>>
  OBVIOUS
<1>2. RunsAreEnded'
  <2>1. \A i \in Nat : EndAfter(i)' <=> EndAfter(i)
    BY <1>1 DEF EndAfter, Ends
  <2>2. connected' /\ clientRun' # NoRun => connected
    BY DEF ConnectionKept
  <2> QED
    BY <1>1, <2>1, <2>2 DEF RunsAreEnded, Ends, GoesOn
<1>3. TypeOK'
  BY DEF TypeOK
<1>4. ConnectionKept'
  BY DEF ConnectionKept
<1> QED
  BY <1>2, <1>3, <1>4

\* A client that has left is told nothing.
LEMMA DisconnectKeeps ==
  ASSUME FollowingInv, DisconnectFromService
  PROVE  FollowingInv'
<1> USE DEF FollowingInv, DisconnectFromService, serviceVars
<1>1. toClient' = <<>> /\ ~connected' /\ ~link' /\ ~request'
  OBVIOUS
<1>2. RunsAreEnded'
  BY <1>1 DEF RunsAreEnded
<1>3. TypeOK'
  <2>1. <<>> \in Seq(Message)
    OBVIOUS
  <2> QED
    BY <1>1, <2>1 DEF TypeOK
<1>4. ConnectionKept'
  BY DEF ConnectionKept
<1> QED
  BY <1>2, <1>3, <1>4

\* A new link carries nothing yet.
LEMMA LinkKeeps ==
  ASSUME FollowingInv, Link
  PROVE  FollowingInv'
<1> USE DEF FollowingInv, Link, serviceVars, clientVars
<1>1. toClient' \in Seq(Message) /\ RunsAreEnded'
  BY NotLinked
<1>2. TypeOK'
  BY DEF TypeOK
<1>3. ConnectionKept'
  BY DEF ConnectionKept
<1> QED
  BY <1>1, <1>2, <1>3

\* What is left under way when the first message has been handled.
LEMMA EndAfterTail ==
  ASSUME toClient \in Seq(Message), toClient # <<>>, toClient' = Tail(toClient)
  PROVE  /\ toClient' \in Seq(Message) /\ toClient[1] \in Message
         /\ Len(toClient) \in Nat \ {0} /\ Len(toClient') = Len(toClient) - 1
         /\ \A i \in 1 .. Len(toClient') : toClient'[i] = toClient[i + 1]
         /\ \A i \in Nat : EndAfter(i + 1) => EndAfter(i)'
         /\ EndAfter(0) => Ends(toClient[1]) \/ EndAfter(1)
<1>1. /\ toClient' \in Seq(Message) /\ toClient[1] \in Message
      /\ Len(toClient) \in Nat \ {0} /\ Len(toClient') = Len(toClient) - 1
      /\ \A i \in 1 .. Len(toClient') : toClient'[i] = toClient[i + 1]
  OBVIOUS
<1>2. ASSUME NEW i \in Nat, EndAfter(i + 1) PROVE EndAfter(i)'
  <2>1. PICK j \in (i + 2) .. Len(toClient) : Ends(toClient[j])
    BY <1>2 DEF EndAfter
  <2>2. j - 1 \in (i + 1) .. Len(toClient') /\ toClient'[j - 1] = toClient[j]
    BY <1>1, <2>1
  <2> QED
    BY <2>1, <2>2 DEF EndAfter, Ends
<1>3. EndAfter(0) => Ends(toClient[1]) \/ EndAfter(1)
  BY <1>1 DEF EndAfter
<1> QED
  BY <1>1, <1>2, <1>3

\* The client after the first message: it has what that tells, or what it had.
LEMMA InfoHandlerKeeps ==
  ASSUME FollowingInv, InfoHandler
  PROVE  FollowingInv'
<1> DEFINE update == Head(toClient)
<1> USE DEF InfoHandler, FollowingInv, serviceVars
<1>1. toClient \in Seq(Message) /\ toClient # <<>> /\ toClient' = Tail(toClient)
  BY DEF TypeOK
<1>2. /\ toClient' \in Seq(Message) /\ update = toClient[1] /\ update \in Message
      /\ Len(toClient) \in Nat \ {0} /\ Len(toClient') = Len(toClient) - 1
      /\ \A i \in 1 .. Len(toClient') : toClient'[i] = toClient[i + 1]
      /\ \A i \in Nat : EndAfter(i + 1) => EndAfter(i)'
      /\ EndAfter(0) => Ends(update) \/ EndAfter(1)
  BY <1>1, EndAfterTail
<1>3. /\ \/ Ends(update) /\ clientRun' = IF connected THEN NoRun ELSE clientRun
         \/ ~Ends(update) /\ clientRun' = clientRun
         \/ ~Ends(update) /\ connected /\ update.run # NoRun /\ clientRun' = update.run
      /\ UNCHANGED <<connected, link, serviceRun, phase, request>>
  BY <1>2, RunAssumption
     DEF StartOfRunInfo, HandleCurrentRunRpcInfo, EndOfRunInfo, Ends, Message, Update
<1>4. connected' /\ clientRun' # NoRun => GoesOn(clientRun)' \/ EndAfter(0)'
  BY <1>2, <1>3 DEF RunsAreEnded, GoesOn
<1>5. ASSUME NEW i \in 1 .. Len(toClient'), ~Ends(toClient'[i]), toClient'[i].run # NoRun
      PROVE  GoesOn(toClient[i].run)' \/ EndAfter(i)'
  <2>1. i + 1 \in 1 .. Len(toClient) /\ i \in Nat /\ toClient'[i] = toClient[i + 1]
    BY <1>2
  <2>2. GoesOn(toClient[i + 1].run) \/ EndAfter(i + 1)
    BY <1>5, <2>1 DEF RunsAreEnded
  <2> QED
    BY <1>2, <1>3, <2>1, <2>2 DEF GoesOn
<1>6. RunsAreEnded'
  BY <1>4, <1>5 DEF RunsAreEnded, Ends
<1>7. clientRun' \in AnyRun
  BY <1>2, <1>3 DEF TypeOK, AnyRun, Message
<1>8. TypeOK'
  BY <1>2, <1>7 DEF TypeOK
<1>9. ConnectionKept'
  BY <1>3 DEF ConnectionKept
<1> QED
  BY <1>6, <1>8, <1>9

-----------------------------------------------------------------------------
(* The specification. *)

\* Init establishes the invariant.
LEMMA FollowingInit == Init => FollowingInv
<1> SUFFICES ASSUME Init PROVE FollowingInv
  OBVIOUS
<1>1. toClient \in Seq(Message) /\ Len(toClient) = 0
  BY DEF Init
<1>2. commands \in 0 .. MaxCommands /\ outages \in 0 .. MaxOutages
  BY BoundAssumption DEF Init
<1>3. TypeOK
  BY <1>1, <1>2 DEF Init, TypeOK, AnyRun
<1>4. ConnectionKept
  BY DEF Init, ConnectionKept
<1>5. RunsAreEnded
  BY <1>1 DEF Init, RunsAreEnded
<1> QED
  BY <1>3, <1>4, <1>5 DEF FollowingInv

\* A stuttering step keeps the invariant.
LEMMA StutterKeeps ==
  ASSUME FollowingInv, UNCHANGED vars
  PROVE  FollowingInv'
<1> USE DEF vars, serviceVars, clientVars, wireVars, FollowingInv
<1>1. toClient' \in Seq(Message) /\ RunsAreEnded'
  BY NothingSent DEF TypeOK, GoesOn
<1>2. TypeOK'
  BY DEF TypeOK
<1>3. ConnectionKept'
  BY DEF ConnectionKept
<1> QED
  BY <1>1, <1>2, <1>3

\* The invariant of service, connection and client: the types, what a connection
\* carries, and that every run the client has or will be told of goes on or ends.
THEOREM FollowingInvariance == Spec => []FollowingInv
<1>1. Init => FollowingInv
  BY FollowingInit
<1>2. FollowingInv /\ [Next]_vars => FollowingInv'
  <2> SUFFICES ASSUME FollowingInv, [Next]_vars PROVE FollowingInv'
    OBVIOUS
  <2>1. CASE ServiceStep
    BY <2>1, ServiceStepKeeps
  <2>2. CASE ClientStep
    BY <2>2, ConnectingKeeps, DisconnectKeeps, LinkKeeps, InfoHandlerKeeps DEF ClientStep
  <2>3. CASE UNCHANGED vars
    BY <2>3, StutterKeeps
  <2> QED
    BY <2>1, <2>2, <2>3 DEF Next
<1> QED
  BY <1>1, <1>2, PTL DEF Spec

\* DimRunControlClient::infoHandler and handleCurrentRunRpcInfo leave no client in a
\* run that is over, unless its end is on its way: in any number of commands and
\* outages, wherever the client is in its connection.
THEOREM StaleRunsAreEnded == Spec => []StaleRunsEnd
<1>1. FollowingInv => StaleRunsEnd
  BY DEF FollowingInv, RunsAreEnded, StaleRunsEnd, GoesOn
<1> QED
  BY <1>1, FollowingInvariance, PTL

-----------------------------------------------------------------------------
(* A client that was informed follows the service: on top of FollowingInv, what *)
(* tells the client of the run that goes on is not lost on the way.             *)

\* Nothing moves between the service and the client.
LEMMA ToldUnchanged ==
  ASSUME UNCHANGED <<toClient, clientRun>>, NEW r, HasOrIsTold(r)
  PROVE  HasOrIsTold(r)'
BY DEF HasOrIsTold, EndAfter, Ends, Tells, Takes

\* With the message that tells of a run as the last one, no end comes behind it.
LEMMA ToldByLast ==
  ASSUME toClient' \in Seq(Message), Len(toClient') # 0, NEW r,
         Tells(toClient'[Len(toClient')], r)
  PROVE  HasOrIsTold(r)'
<1>1. PICK n \in 1 .. Len(toClient') : n = Len(toClient')
  OBVIOUS
<1>2. ~EndAfter(n)'
  BY <1>1 DEF EndAfter, Ends
<1> QED
  BY <1>1, <1>2 DEF HasOrIsTold, Tells, Takes

\* A message that is no end leaves a client told.
LEMMA ToldAppend ==
  ASSUME toClient \in Seq(Message), NEW u \in Message, ~Ends(u),
         toClient' = Append(toClient, u), UNCHANGED clientRun,
         NEW r, HasOrIsTold(r)
  PROVE  HasOrIsTold(r)'
<1>1. /\ Len(toClient) \in Nat /\ Len(toClient') = Len(toClient) + 1
      /\ toClient'[Len(toClient')] = u
      /\ \A i \in 1 .. Len(toClient) : toClient'[i] = toClient[i]
  OBVIOUS
<1>2. ASSUME NEW i \in Nat, EndAfter(i)' PROVE EndAfter(i)
  <2>1. PICK j \in (i + 1) .. Len(toClient') : Ends(toClient'[j])
    BY <1>2 DEF EndAfter, Ends
  <2>2. j # Len(toClient')
    BY <1>1, <2>1
  <2>3. j \in (i + 1) .. Len(toClient) /\ toClient'[j] = toClient[j]
    BY <1>1, <2>1, <2>2
  <2> QED
    BY <2>1, <2>3 DEF EndAfter
<1>3. CASE clientRun = r /\ ~EndAfter(0)
  BY <1>2, <1>3 DEF HasOrIsTold
<1>4. ASSUME NEW i \in 1 .. Len(toClient), Tells(toClient[i], r), ~EndAfter(i)
      PROVE  HasOrIsTold(r)'
  <2>1. i \in 1 .. Len(toClient') /\ i \in Nat /\ toClient'[i] = toClient[i]
    BY <1>1
  <2> QED
    BY <1>2, <1>4, <2>1 DEF HasOrIsTold, Tells, Takes
<1> QED
  BY <1>3, <1>4 DEF HasOrIsTold

\* Ending a run leaves none to be told of, a start tells of its run.
LEMMA StartInforms ==
  ASSUME FollowingInv, FollowingInv', InformedInv, NEW r \in Run, NEW granted \in BOOLEAN,
         ServiceStartNewRun(r, granted), UNCHANGED clientVars
  PROVE  InformedInv'
<1> DEFINE u == Update("START_OF_RUN", r)
<1>1. UNCHANGED <<connected, clientRun, request, link>>
  BY DEF ServiceStartNewRun, Publish, PublishNothing, wireVars, clientVars
<1>2. CASE ~granted
  <2>1. UNCHANGED <<toClient, informed, serviceRun>>
    BY <1>2 DEF ServiceStartNewRun, PublishNothing, wireVars
  <2> QED
    BY <1>1, <2>1, ToldUnchanged DEF InformedInv, Informed, Takes
<1>3. CASE granted /\ link
  <2>1. toClient \in Seq(Message) /\ EndUpdate \in Seq(Message) /\ u \in Message
    <3>1. serviceRun # NoRun => EndUpdate \in Seq(Message)
      <4>1. SUFFICES ASSUME serviceRun # NoRun PROVE EndUpdate \in Seq(Message)
        OBVIOUS
      <4>2. PICK e \in Message : EndUpdate = <<e>>
        BY <4>1, EndIsPublished
      <4> QED
        BY <4>2
    <3>2. serviceRun = NoRun => EndUpdate \in Seq(Message)
      BY DEF EndUpdate
    <3> QED
      BY <3>1, <3>2 DEF FollowingInv, TypeOK, Update, Message
  <2>2. toClient' = toClient \o (EndUpdate \o <<u>>) /\ serviceRun' = r
        /\ informed' = StartTold
    BY <1>3 DEF ServiceStartNewRun, Publish
  <2>3. toClient' \in Seq(Message) /\ Len(toClient') # 0 /\ toClient'[Len(toClient')] = u
    <3> HIDE DEF u
    <3> QED
      BY <2>1, <2>2
  <2>4. CASE connected /\ Takes("START_OF_RUN", r)
    <3>1. HasOrIsTold(r)'
      BY <2>3, <2>4, ToldByLast DEF Tells, Takes, Update
    <3> QED
      BY <1>1, <2>2, <2>4, <3>1 DEF InformedInv
  <2>5. CASE ~(connected /\ Takes("START_OF_RUN", r))
    <3>1. ~Informed'
      BY <2>2, <2>5 DEF Informed, Takes, StartTold
    <3> QED
      BY <1>1, <3>1 DEF InformedInv
  <2> QED
    BY <2>4, <2>5
<1>4. CASE ~link
  BY <1>1, <1>4 DEF InformedInv
<1> QED
  BY <1>2, <1>3, <1>4

LEMMA EndInforms ==
  ASSUME InformedInv, NEW granted \in BOOLEAN,
         ServiceEndCurrentRun(granted), UNCHANGED clientVars
  PROVE  InformedInv'
<1>1. UNCHANGED <<connected, clientRun, request, link>>
  BY DEF ServiceEndCurrentRun, Publish, PublishNothing, wireVars, clientVars
<1>2. CASE ~granted
  <2>1. UNCHANGED <<toClient, informed, serviceRun>>
    BY <1>2 DEF ServiceEndCurrentRun, PublishNothing, wireVars
  <2> QED
    BY <1>1, <2>1, ToldUnchanged DEF InformedInv, Informed, Takes
<1>3. CASE granted
  <2>1. serviceRun' = NoRun
    BY <1>3 DEF ServiceEndCurrentRun
  <2> QED
    BY <1>1, <2>1 DEF InformedInv, Informed, Takes
<1> QED
  BY <1>2, <1>3

LEMMA CommandInforms ==
  ASSUME FollowingInv, FollowingInv', InformedInv, NEW granted \in BOOLEAN,
         \/ HandleEndCurrentRunRpc(granted) \/ MongooseEndOfRun(granted)
         \/ \E r \in Run : HandleStartNewRunRpc(r, granted) \/ MongooseStartOfRun(r, granted)
  PROVE  InformedInv'
<1>1. UNCHANGED clientVars
  BY DEF HandleEndCurrentRunRpc, MongooseEndOfRun, HandleStartNewRunRpc,
         MongooseStartOfRun, Command
<1>2. ASSUME Refuse PROVE InformedInv'
  <2>1. UNCHANGED <<toClient, link, request, informed, serviceRun, clientRun, connected>>
    BY <1>1, <1>2 DEF Refuse, PublishNothing, wireVars, clientVars
  <2> QED
    BY <2>1, ToldUnchanged DEF InformedInv, Informed, Takes
<1>3. \/ Refuse
      \/ ServiceEndCurrentRun(granted)
      \/ \E r \in Run : ServiceStartNewRun(r, granted)
  BY DEF HandleEndCurrentRunRpc, MongooseEndOfRun, HandleStartNewRunRpc, MongooseStartOfRun
<1> QED
  BY <1>1, <1>2, <1>3, EndInforms, StartInforms

\* The answer tells of the run that goes on, unless its number is not positive: then
\* the client is as informed as it was.
LEMMA AnswerInforms ==
  ASSUME FollowingInv, FollowingInv', InformedInv, HandleCurrentRunRpc
  PROVE  InformedInv'
<1> DEFINE u == Update("CURRENT_RUN", serviceRun)
<1>1. /\ request /\ UNCHANGED <<connected, clientRun, link, serviceRun>> /\ ~request'
      /\ toClient' = Append(toClient, u)
      /\ informed' \subseteq informed \cup {"CURRENT_RUN"}
  BY DEF HandleCurrentRunRpc, serviceVars, clientVars
<1>2. toClient \in Seq(Message) /\ u \in Message /\ ~Ends(u)
  BY DEF FollowingInv, TypeOK, Update, Message, Ends
<1>3. CASE ~Takes("CURRENT_RUN", serviceRun)
  <2>1. Informed' => Informed
    BY <1>1, <1>3 DEF Informed, Takes
  <2>2. HasOrIsTold(serviceRun) => HasOrIsTold(serviceRun)'
    BY <1>1, <1>2, ToldAppend
  <2> QED
    BY <1>1, <2>1, <2>2 DEF InformedInv
<1>4. CASE Takes("CURRENT_RUN", serviceRun)
  <2>1. toClient' \in Seq(Message) /\ Len(toClient') # 0 /\ toClient'[Len(toClient')] = u
    BY <1>1, <1>2
  <2>2. HasOrIsTold(serviceRun)'
    <3>1. Tells(u, serviceRun)
      BY <1>4 DEF Tells, Update
    <3> QED
      BY <1>1, <2>1, <3>1, ToldByLast DEF Tells, Takes
  <2> QED
    BY <1>1, <2>2 DEF InformedInv
<1> QED
  BY <1>3, <1>4

LEMMA ServiceStepInforms ==
  ASSUME FollowingInv, FollowingInv', InformedInv, ServiceStep
  PROVE  InformedInv'
<1>1. ASSUME Stop \/ Die PROVE InformedInv'
  BY <1>1 DEF Stop, Die, Outage, BreakLink, InformedInv, Informed
<1>2. ASSUME Start PROVE InformedInv'
  <2>1. UNCHANGED <<toClient, link, request, informed, serviceRun, clientRun, connected>>
    BY <1>2 DEF Start, wireVars, clientVars
  <2> QED
    BY <2>1, ToldUnchanged DEF InformedInv, Informed, Takes
<1> QED
  BY <1>1, <1>2, CommandInforms, AnswerInforms DEF ServiceStep

\* The run that the client is told of is the one it will have: a run it had before
\* either goes on or is ended in front of it.
LEMMA InfoHandlerInforms ==
  ASSUME FollowingInv, InformedInv, InfoHandler
  PROVE  InformedInv'
<1> DEFINE update == Head(toClient)
<1>1. toClient \in Seq(Message) /\ toClient # <<>> /\ toClient' = Tail(toClient)
  BY DEF InfoHandler, FollowingInv, TypeOK
<1>2. /\ toClient' \in Seq(Message) /\ update = toClient[1] /\ update \in Message
      /\ Len(toClient) \in Nat \ {0} /\ Len(toClient') = Len(toClient) - 1
      /\ \A i \in 1 .. Len(toClient') : toClient'[i] = toClient[i + 1]
  BY <1>1, EndAfterTail
<1>3. UNCHANGED <<connected, link, request, informed, serviceRun>>
  BY DEF InfoHandler, serviceVars
<1>4. SUFFICES ASSUME link, Informed
               PROVE  HasOrIsTold(serviceRun)'
  BY <1>3 DEF InformedInv, Informed, HasOrIsTold, EndAfter, Ends, Tells, Takes
<1>5. connected /\ HasOrIsTold(serviceRun)
  BY <1>4 DEF InformedInv
<1>6. ASSUME NEW i \in Nat, EndAfter(i)' PROVE EndAfter(i + 1)
  <2>1. PICK j \in (i + 1) .. Len(toClient') : Ends(toClient'[j])
    BY <1>6 DEF EndAfter, Ends
  <2>2. j + 1 \in (i + 2) .. Len(toClient) /\ toClient'[j] = toClient[j + 1]
    BY <1>2, <2>1
  <2> QED
    BY <2>1, <2>2 DEF EndAfter
<1>7. EndAfter(1) => EndAfter(0)
  BY <1>2 DEF EndAfter
\* What the client does with the message, as long as no end stands in between.
<1>8. ASSUME ~Ends(update)
      PROVE  clientRun' = IF \/ update.kind = "START_OF_RUN" /\ clientRun = NoRun
                                  /\ Takes("START_OF_RUN", update.run)
                             \/ update.kind = "CURRENT_RUN" /\ Takes("CURRENT_RUN", update.run)
                          THEN update.run ELSE clientRun
  <2>1. CASE update.kind = "START_OF_RUN"
    <3>1. update.run \in Run /\ update.run # NoRun
      BY <1>2, <2>1, RunAssumption DEF Message
    <3> QED
      BY <1>5, <2>1, <3>1 DEF InfoHandler, StartOfRunInfo, Takes
  <2>2. CASE update.kind = "CURRENT_RUN"
    BY <1>5, <2>2 DEF InfoHandler, HandleCurrentRunRpcInfo, Takes
  <2> QED
    BY <1>2, <1>8, <2>1, <2>2 DEF Ends, Message
<1>9. RunsAreEnded
  BY DEF FollowingInv
<1>10. CASE clientRun = serviceRun /\ ~EndAfter(0)
  <2>1. ~Ends(update)
    BY <1>2, <1>10 DEF EndAfter
  <2>2. ~EndAfter(1) /\ ~EndAfter(0)'
    BY <1>6, <1>7, <1>10
  <2>3. update.run # NoRun => update.run = serviceRun
    BY <1>2, <1>9, <2>1, <2>2 DEF RunsAreEnded, GoesOn
  <2>4. clientRun' = serviceRun'
    BY <1>3, <1>4, <1>8, <1>10, <2>1, <2>3 DEF Takes
  <2> QED
    BY <1>3, <2>2, <2>4 DEF HasOrIsTold
<1>11. ASSUME NEW i \in 1 .. Len(toClient), Tells(toClient[i], serviceRun), ~EndAfter(i)
       PROVE  HasOrIsTold(serviceRun)'
  <2>1. CASE i = 1
    <3>1. Tells(update, serviceRun) /\ ~Ends(update)
      BY <1>2, <1>11, <2>1 DEF Tells, Takes, Ends
    <3>2. ~EndAfter(0) /\ ~EndAfter(0)'
      BY <1>2, <1>6, <1>11, <2>1, <3>1 DEF EndAfter
    <3>3. clientRun \in {NoRun, serviceRun}
      BY <1>5, <1>9, <3>2 DEF RunsAreEnded, GoesOn
    <3>4. clientRun' = serviceRun'
      BY <1>3, <1>4, <1>8, <3>1, <3>3 DEF Tells, Takes, Takes
    <3> QED
      BY <1>3, <3>2, <3>4 DEF HasOrIsTold
  <2>2. CASE i # 1
    <3>1. i - 1 \in 1 .. Len(toClient') /\ i - 1 \in Nat /\ toClient'[i - 1] = toClient[i]
      BY <1>2, <2>2
    <3>2. ~EndAfter(i - 1)'
      BY <1>6, <1>11, <3>1
    <3>3. Tells(toClient'[i - 1], serviceRun')
      BY <1>3, <1>11, <3>1
    <3> QED
      BY <1>3, <3>1, <3>2, <3>3 DEF HasOrIsTold, Tells, Takes
  <2> QED
    BY <2>1, <2>2
<1> QED
  BY <1>5, <1>10, <1>11 DEF HasOrIsTold

LEMMA ClientStepInforms ==
  ASSUME FollowingInv, InformedInv, ClientStep
  PROVE  InformedInv'
<1>1. ASSUME CreateInfos \/ SetConnected \/ RequestCurrentRun PROVE InformedInv'
  <2>1. /\ UNCHANGED <<toClient, link, informed, serviceRun, clientRun>>
        /\ connected => connected'
        /\ request' => request \/ (phase = "sleeping" /\ UNCHANGED connected)
    <3>1. CASE CreateInfos
      BY <3>1 DEF CreateInfos, serviceVars, wireVars
    <3>2. CASE SetConnected
      BY <3>2 DEF SetConnected, serviceVars, wireVars
    <3>3. CASE RequestCurrentRun
      BY <3>3 DEF RequestCurrentRun, serviceVars
    <3> QED
      BY <1>1, <3>1, <3>2, <3>3
  <2>2. phase = "sleeping" => connected
    BY DEF FollowingInv, ConnectionKept
  <2> QED
    BY <2>1, <2>2, ToldUnchanged DEF InformedInv, Informed, Takes
<1>2. ASSUME DisconnectFromService PROVE InformedInv'
  BY <1>2 DEF DisconnectFromService, InformedInv
<1>3. ASSUME Link PROVE InformedInv'
  BY <1>3 DEF Link, InformedInv, Informed, serviceVars, clientVars
<1> QED
  BY <1>1, <1>2, <1>3, InfoHandlerInforms DEF ClientStep

\* infoHandler and handleCurrentRunRpcInfo take what they are told in order, whatever
\* crosses the one request: for any numbers, negative and zero included, any number of
\* commands and outages, a client with nothing under way has the service's run, or has
\* none and was told of no run in a way that it takes.
THEOREM InformedClientsFollow == Spec => []ClientFollowsService
<1>1. Init => InformedInv
  BY DEF Init, InformedInv
<1>2. FollowingInv /\ FollowingInv' /\ InformedInv /\ [Next]_vars => InformedInv'
  <2> SUFFICES ASSUME FollowingInv, FollowingInv', InformedInv, [Next]_vars
               PROVE  InformedInv'
    OBVIOUS
  <2>1. CASE UNCHANGED vars
    <3>1. UNCHANGED <<toClient, link, request, informed, serviceRun, clientRun, connected>>
      BY <2>1 DEF vars, serviceVars, clientVars, wireVars
    <3> QED
      BY <3>1, ToldUnchanged DEF InformedInv, Informed, Takes
  <2> QED
    BY <2>1, ServiceStepInforms, ClientStepInforms DEF Next
<1>3. FollowingInv /\ InformedInv => ClientFollowsService
  <2> SUFFICES ASSUME FollowingInv, InformedInv, Settled
               PROVE  clientRun = serviceRun \/ (clientRun = NoRun /\ ~Informed)
    BY DEF ClientFollowsService
  <2>1. connected /\ link /\ toClient = <<>> /\ Len(toClient) = 0
    BY DEF FollowingInv, ConnectionKept, Settled
  <2>2. ~EndAfter(0)
    BY <2>1 DEF EndAfter
  <2>3. clientRun # NoRun => clientRun = serviceRun
    BY <2>1, <2>2 DEF FollowingInv, RunsAreEnded, GoesOn
  <2>4. Informed => clientRun = serviceRun
    BY <2>1 DEF InformedInv, HasOrIsTold
  <2>5. Informed \in BOOLEAN
    BY DEF Informed
  <2> QED
    BY <2>3, <2>4, <2>5
<1> QED
  BY <1>1, <1>2, <1>3, FollowingInvariance, PTL DEF Spec

=============================================================================
