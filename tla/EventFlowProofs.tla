---------------------------- MODULE EventFlowProofs ----------------------------
(***************************************************************************)
(* Proofs about events over DIM, for any number of clients, events, calls  *)
(* and exits.  The types come first; then, on top of them and client by    *)
(* client, the connection and the settings; at the end, for any number of  *)
(* calls and arrivals, the queue of one client (EventQueue).               *)
(***************************************************************************)
EXTENDS EventFlow, EventQueue, TLAPS

-----------------------------------------------------------------------------
(* Queues. *)

\* A message more at the end of a queue.
LEMMA AppendLast ==
  ASSUME NEW S, NEW q \in Seq(S), NEW m \in S
  PROVE  /\ Append(q, m) \in Seq(S) /\ Len(q) \in Nat /\ Len(Append(q, m)) = Len(q) + 1
         /\ Append(q, m)[Len(q) + 1] = m
         /\ \A i \in 1 .. Len(q) : Append(q, m)[i] = q[i]
OBVIOUS

LEMMA NoneAfterAppend ==
  ASSUME NEW S, NEW q \in Seq(S), NEW m \in S, NEW T, NEW i \in 0 .. Len(q)
  PROVE  NoneAfter(Append(q, m), i, T) <=> NoneAfter(q, i, T) /\ m \notin T
<1>1. /\ Len(q) \in Nat /\ Len(Append(q, m)) = Len(q) + 1
      /\ Append(q, m)[Len(q) + 1] = m
      /\ \A j \in 1 .. Len(q) : Append(q, m)[j] = q[j]
  BY AppendLast
<1> DEFINE r == Append(q, m)
<1> HIDE DEF r
<1> SUFFICES NoneAfter(r, i, T) <=> NoneAfter(q, i, T) /\ m \notin T
  BY DEF r
<1>2. /\ Len(q) \in Nat /\ Len(r) = Len(q) + 1
      /\ r[Len(q) + 1] = m
      /\ \A j \in 1 .. Len(q) : r[j] = q[j]
  BY <1>1 DEF r
<1> QED
  BY <1>2 DEF NoneAfter

\* A fact that prevails still does with a message more that is not against it, and it
\* does with a message that establishes it.
LEMMA PrevailsAppend ==
  ASSUME NEW S, NEW q \in Seq(S), NEW m \in S, NEW for, NEW against,
         NEW fact \in BOOLEAN
  PROVE  /\ Prevails(fact, q, for, against) /\ m \notin against
              => Prevails(fact, Append(q, m), for, against)
         /\ m \in for => Prevails(fact, Append(q, m), for, against)
<1> DEFINE r == Append(q, m)
<1>1. /\ Len(q) \in Nat /\ Len(r) = Len(q) + 1 /\ r[Len(q) + 1] = m
      /\ \A j \in 1 .. Len(q) : r[j] = q[j]
  BY AppendLast
<1>2. \A i \in 0 .. Len(q) : NoneAfter(r, i, against) <=> NoneAfter(q, i, against) /\ m \notin against
  BY NoneAfterAppend
<1> HIDE DEF r
<1>3. NoneAfter(r, Len(q) + 1, against)
  BY <1>1 DEF NoneAfter
<1>4. ASSUME m \in for PROVE Prevails(fact, r, for, against)
  BY <1>1, <1>3, <1>4 DEF Prevails
<1>5. ASSUME Prevails(fact, q, for, against), m \notin against
      PROVE  Prevails(fact, r, for, against)
  <2>1. CASE fact /\ NoneAfter(q, 0, against)
    BY <1>1, <1>2, <1>5, <2>1 DEF Prevails
  <2>2. ASSUME NEW i \in 1 .. Len(q), q[i] \in for, NoneAfter(q, i, against)
        PROVE  Prevails(fact, r, for, against)
    BY <1>1, <1>2, <1>5, <2>2 DEF Prevails
  <2> QED
    BY <1>5, <2>1, <2>2 DEF Prevails
<1> QED
  BY <1>4, <1>5 DEF r

\* The first message of a queue is handled.
LEMMA NoneAfterTail ==
  ASSUME NEW S, NEW q \in Seq(S), q # <<>>, NEW T
  PROVE  /\ \A i \in Nat : NoneAfter(Tail(q), i, T) <=> NoneAfter(q, i + 1, T)
         /\ NoneAfter(q, 0, T) <=> Head(q) \notin T /\ NoneAfter(q, 1, T)
<1> DEFINE r == Tail(q)
<1>1. /\ Len(q) \in Nat \ {0} /\ Len(r) = Len(q) - 1 /\ Head(q) = q[1]
      /\ \A j \in 1 .. Len(r) : r[j] = q[j + 1]
  OBVIOUS
<1> HIDE DEF r
<1>2. ASSUME NEW i \in Nat PROVE NoneAfter(r, i, T) <=> NoneAfter(q, i + 1, T)
  <2>1. ASSUME NoneAfter(r, i, T), NEW j \in (i + 2) .. Len(q) PROVE q[j] \notin T
    <3>1. j - 1 \in (i + 1) .. Len(r) /\ r[j - 1] = q[j]
      BY <1>1
    <3> QED
      BY <2>1, <3>1 DEF NoneAfter
  <2>2. ASSUME NoneAfter(q, i + 1, T), NEW j \in (i + 1) .. Len(r) PROVE r[j] \notin T
    <3>1. j + 1 \in (i + 2) .. Len(q) /\ r[j] = q[j + 1]
      BY <1>1
    <3> QED
      BY <2>2, <3>1 DEF NoneAfter
  <2> QED
    BY <2>1, <2>2 DEF NoneAfter
<1>3. NoneAfter(q, 0, T) <=> Head(q) \notin T /\ NoneAfter(q, 1, T)
  BY <1>1 DEF NoneAfter
<1> QED
  BY <1>2, <1>3 DEF r

\* A fact that prevails does so with one message less, if the handling of that message
\* does what the message is for and ends the fact only if it is against it.
LEMMA PrevailsTail ==
  ASSUME NEW S, NEW q \in Seq(S), q # <<>>, NEW for, NEW against,
         NEW fact \in BOOLEAN, NEW next \in BOOLEAN, Prevails(fact, q, for, against),
         Head(q) \in for => next,
         fact /\ Head(q) \notin against => next
  PROVE  Prevails(next, Tail(q), for, against)
<1> DEFINE r == Tail(q)
<1>1. /\ Len(q) \in Nat \ {0} /\ Len(r) = Len(q) - 1 /\ Head(q) = q[1]
      /\ \A j \in 1 .. Len(r) : r[j] = q[j + 1]
  OBVIOUS
<1>2. /\ \A i \in Nat : NoneAfter(r, i, against) <=> NoneAfter(q, i + 1, against)
      /\ NoneAfter(q, 0, against) <=> Head(q) \notin against /\ NoneAfter(q, 1, against)
  BY NoneAfterTail
<1> HIDE DEF r
<1>3. CASE fact /\ NoneAfter(q, 0, against)
  <2>1. 0 \in Nat /\ 0 + 1 = 1
    OBVIOUS
  <2>2. next /\ NoneAfter(r, 0, against)
    BY <1>2, <1>3, <2>1
  <2> QED
    BY <2>2 DEF Prevails, r
<1>4. ASSUME NEW i \in 1 .. Len(q), q[i] \in for, NoneAfter(q, i, against)
      PROVE  Prevails(next, r, for, against)
  <2>1. CASE i = 1
    BY <1>1, <1>2, <1>4, <2>1 DEF Prevails
  <2>2. CASE i # 1
    <3>1. i - 1 \in 1 .. Len(r) /\ r[i - 1] = q[i] /\ i - 1 \in Nat /\ (i - 1) + 1 = i
      BY <1>1, <2>2
    <3> QED
      BY <1>2, <1>4, <3>1 DEF Prevails
  <2> QED
    BY <2>1, <2>2
<1> QED
  BY <1>3, <1>4 DEF Prevails, r

-----------------------------------------------------------------------------
(* What the model's operators do to queues and commands. *)

LEMMA CommandsTyped ==
  /\ \A b \in BOOLEAN : /\ Command("REGISTRATION", b) \in Commands
                        /\ Command("UPDATE_MODE", b) \in Commands
  /\ Command("SUB_EVENT_IDENTIFIER", TRUE) \in Commands
  /\ Command("COLLECT_RAW_EVENT", TRUE) \in Commands
  /\ Command("EXIT", FALSE) \in Commands
BY DEF Command, Commands

\* Send adds one command for the collector, if there is one.
LEMMA Sent ==
  ASSUME TypeOK, NEW c \in Client, NEW m \in Commands, Send(c, <<m>>)
  PROVE  /\ toCollector' \in [Client -> Seq(Commands)]
         /\ \A d \in Client : d # c => toCollector'[d] = toCollector[d]
         /\ phase # "down" => toCollector'[c] = Append(toCollector[c], m)
         /\ phase = "down" => toCollector'[c] = toCollector[c]
<1>1. toCollector \in [Client -> Seq(Commands)] /\ toCollector[c] \in Seq(Commands)
  BY DEF TypeOK
<1>2. CASE phase = "down"
  BY <1>1, <1>2 DEF Send
<1>3. CASE phase # "down"
  <2>1. toCollector' = [toCollector EXCEPT ![c] = toCollector[c] \o <<m>>]
    BY <1>3 DEF Send
  <2>2. toCollector[c] \o <<m>> = Append(toCollector[c], m)
    BY <1>1
  <2>3. Append(toCollector[c], m) \in Seq(Commands)
    BY <1>1
  <2> QED
    BY <1>1, <1>3, <2>1, <2>2, <2>3
<1> QED
  BY <1>2, <1>3

\* An update goes to those of its receivers that are linked.
LEMMA Updated ==
  ASSUME TypeOK, NEW receivers, NEW u \in Updates, Update(receivers, u)
  PROVE  /\ toClient' \in [Client -> Seq(Updates)]
         /\ \A c \in Client :
              toClient'[c] = IF c \in receivers /\ linked[c] THEN Append(toClient[c], u)
                                                             ELSE toClient[c]
<1>1. \A c \in Client : toClient[c] \in Seq(Updates)
  BY DEF TypeOK
<1>2. \A c \in Client : Append(toClient[c], u) \in Seq(Updates)
  BY <1>1
<1> QED
  BY <1>1, <1>2 DEF Update

LEMMA CollectorExitToClient ==
  ASSUME TypeOK, CollectorExit, NEW c \in Client
  PROVE  /\ toClient'[c] \in Seq(Updates)
         /\ ~linked[c] => toClient'[c] = toClient[c]
         /\ linked[c] => \E q \in Seq(Updates) : toClient'[c] = Append(q, "NO_LINK")
<1>1. toClient[c] \in Seq(Updates)
  BY DEF TypeOK
<1>2. PICK received \in [Client -> 0 .. MaxEvents + MaxCalls] :
        toClient' = [d \in Client |->
          IF linked[d] THEN Append(Prefix(toClient[d], received[d]), "NO_LINK")
          ELSE toClient[d]]
  BY DEF CollectorExit
<1>3. received[c] \in Nat
  BY <1>2, BoundAssumption
<1>4. Prefix(toClient[c], received[c]) \in Seq(Updates)
  BY <1>1, <1>3 DEF Prefix
<1> QED
  BY <1>1, <1>2, <1>4 DEF Updates

-----------------------------------------------------------------------------
(* Types. *)

LEMMA CollectorTypes ==
  ASSUME TypeOK, CollectorProgram
  PROVE  TypeOK'
<1> USE DEF collectorVars, settingVars, wireVars, boundVars
<1>1. CASE StartCollector \/ SetRunning
  BY <1>1 DEF StartCollector, SetRunning, TypeOK
<1>2. CASE AnnounceState
  <2>1. toClient' \in [Client -> Seq(Updates)]
    BY <1>2, Updated DEF AnnounceState, Updates
  <2> QED
    BY <1>2, <2>1 DEF AnnounceState, TypeOK
<1>3. CASE CollectorExit
  <2>1. /\ phase' = "down" /\ known' = {} /\ updated' = {}
        /\ linked' = [c \in Client |-> FALSE]
        /\ toCollector' = [c \in Client |-> <<>>]
        /\ outages' = outages + 1 /\ outages < MaxOutages
        /\ UNCHANGED <<settingVars, events, calls>>
    BY <1>3 DEF CollectorExit
  <2>2. toClient' \in [Client -> Seq(Updates)]
    <3>1. \A c \in Client : toClient'[c] \in Seq(Updates)
      BY <1>3, CollectorExitToClient
    <3>2. \E f : toClient' = [c \in Client |-> f[c]]
      BY <1>3 DEF CollectorExit
    <3> QED
      BY <3>1, <3>2
  <2>3. outages' \in 0 .. MaxOutages
    BY <2>1, BoundAssumption DEF TypeOK
  <2>4. toCollector' \in [Client -> Seq(Commands)]
    BY <2>1
  <2> QED
    BY <2>1, <2>2, <2>3, <2>4 DEF TypeOK
<1> QED
  BY <1>1, <1>2, <1>3 DEF CollectorProgram

LEMMA LinkTypes ==
  ASSUME TypeOK, NEW c \in Client, Link(c)
  PROVE  TypeOK'
BY DEF Link, TypeOK, collectorVars, settingVars, boundVars

LEMMA CommandHandlerTypes ==
  ASSUME TypeOK, NEW c \in Client, CommandHandler(c)
  PROVE  TypeOK'
<1>1. toCollector' \in [Client -> Seq(Commands)]
  BY DEF CommandHandler, TypeOK
<1>2. toClient' \in [Client -> Seq(Updates)]
  <2>1. "CLIENT_REGISTERED" \in Updates /\ "EVENT_RAW_UPDATE" \in Updates
    BY DEF Updates
  <2>2. \/ UNCHANGED toClient
        \/ Update({c}, "CLIENT_REGISTERED")
        \/ \E others \in SUBSET Client : Update(updated \cup others, "EVENT_RAW_UPDATE")
    BY DEF CommandHandler, HandleEventReception, UpdateEventService, RegisterClient
  <2> QED
    BY <2>1, <2>2, Updated DEF TypeOK
<1>3. known' \subseteq Client /\ updated' \subseteq known'
  BY DEF CommandHandler, GetClient, RegisterClient, RemoveClient, TypeOK
<1>4. UNCHANGED <<phase, settingVars, linked, boundVars>>
  BY DEF CommandHandler
<1> QED
  BY <1>1, <1>2, <1>3, <1>4 DEF TypeOK, settingVars, boundVars

LEMMA CallTypes ==
  ASSUME TypeOK, NEW c \in Client, Call(c)
  PROVE  calls' \in 0 .. MaxCalls /\ UNCHANGED <<events, outages>>
BY BoundAssumption DEF Call, TypeOK

LEMMA ConnectionCallTypes ==
  ASSUME TypeOK, NEW c \in Client,
         CreateInfos(c) \/ PerformServiceDisconnection(c) \/ ClientExit(c)
  PROVE  TypeOK'
<1> USE DEF collectorVars, settingVars, wireVars, boundVars
<1>1. calls' \in 0 .. MaxCalls /\ UNCHANGED <<events, outages>>
  BY CallTypes, BoundAssumption
     DEF CreateInfos, PerformServiceDisconnection, ClientExit, TypeOK
<1>2. toCollector' \in [Client -> Seq(Commands)]
  BY Sent, CommandsTyped DEF CreateInfos, PerformServiceDisconnection, ClientExit, TypeOK
<1>3. toClient' \in [Client -> Seq(Updates)]
  <2>1. <<>> \in Seq(Updates) /\ <<"NO_LINK">> \in Seq(Updates)
    BY DEF Updates
  <2>2. \/ UNCHANGED toClient \/ toClient' = [toClient EXCEPT ![c] = <<"NO_LINK">>]
        \/ toClient' = [toClient EXCEPT ![c] = <<>>]
    BY DEF CreateInfos, PerformServiceDisconnection, ClientExit
  <2> QED
    BY <2>1, <2>2 DEF TypeOK
<1>4. CASE CreateInfos(c)
  BY <1>1, <1>2, <1>3, <1>4 DEF CreateInfos, TypeOK
<1>5. CASE PerformServiceDisconnection(c)
  BY <1>1, <1>2, <1>3, <1>5 DEF PerformServiceDisconnection, Call, TypeOK
<1>6. CASE ClientExit(c)
  BY <1>1, <1>2, <1>3, <1>6, BoundAssumption DEF ClientExit, TypeOK
<1> QED
  BY <1>4, <1>5, <1>6

LEMMA ConnectionEndTypes ==
  ASSUME TypeOK, NEW c \in Client, AskServerState(c) \/ RegisterAtOnce(c)
  PROVE  TypeOK'
<1> USE DEF collectorVars, boundVars
<1>1. CASE AskServerState(c)
  <2>0. UNCHANGED linked \/ linked' = [linked EXCEPT ![c] = TRUE]
    BY <1>1 DEF AskServerState
  <2>1. /\ UNCHANGED <<phase, known, updated, connected, serverId, updateMode, reading, raced,
                       toCollector, toClient, events, calls, outages>>
        /\ linked' \in [Client -> BOOLEAN]
    BY <1>1, <2>0 DEF AskServerState, TypeOK
  <2>2. /\ connecting' \in [Client -> {"no", "asking", "registering"}]
        /\ \A d \in Client : connecting'[d] # "no" => connecting[d] # "no"
    <3>1. PICK to \in {"no", "registering"} : connecting' = [connecting EXCEPT ![c] = to]
      BY <1>1 DEF AskServerState
    <3>2. connecting[c] = "asking"
      BY <1>1 DEF AskServerState
    <3> QED
      BY <3>1, <3>2 DEF TypeOK
  <2> QED
    BY <2>1, <2>2 DEF TypeOK
<1>2. CASE RegisterAtOnce(c)
  <2>1. toCollector' \in [Client -> Seq(Commands)]
    BY <1>2, Sent, CommandsTyped DEF RegisterAtOnce
  <2> QED
    BY <1>2, <2>1 DEF RegisterAtOnce, TypeOK
<1> QED
  BY <1>1, <1>2

LEMMA SettingCallTypes ==
  ASSUME TypeOK, NEW c \in Client,
         SetUpdateMode(c) \/ SetSubEventIdentifier(c) \/ SendEvent(c) \/ SendParameters(c)
  PROVE  TypeOK'
<1> USE DEF collectorVars, settingVars, wireVars, boundVars
<1>1. /\ calls' \in 0 .. MaxCalls /\ events' \in 0 .. MaxEvents /\ UNCHANGED outages
  <2>1. CASE SetUpdateMode(c) \/ SetSubEventIdentifier(c)
    BY <2>1, CallTypes DEF SetUpdateMode, SetSubEventIdentifier, TypeOK
  <2>2. CASE SendEvent(c)
    <3>1. events' = events + 1 /\ events < MaxEvents /\ UNCHANGED <<calls, outages>>
      BY <2>2 DEF SendEvent
    <3> QED
      BY <3>1, BoundAssumption DEF TypeOK
  <2>3. CASE SendParameters(c)
    BY <2>3 DEF SendParameters, TypeOK
  <2> QED
    BY <2>1, <2>2, <2>3
<1>2. toCollector' \in [Client -> Seq(Commands)]
  <2>1. updateMode[c] \in BOOLEAN /\ (reading[c] # <<>> => Head(reading[c]) \in BOOLEAN)
    BY DEF TypeOK
  <2>2. SetUpdateMode(c) => Send(c, <<Command("UPDATE_MODE", ~updateMode[c])>>) \/ UNCHANGED toCollector
    BY DEF SetUpdateMode
  <2>3. (~updateMode[c]) \in BOOLEAN
    OBVIOUS
  <2> QED
    BY <2>1, <2>2, <2>3, Sent, CommandsTyped
       DEF SetSubEventIdentifier, SendEvent, SendParameters, TypeOK
<1>3. CASE SetUpdateMode(c)
  BY <1>1, <1>2, <1>3 DEF SetUpdateMode, TypeOK
<1>4. CASE SetSubEventIdentifier(c) \/ SendEvent(c)
  BY <1>1, <1>2, <1>4 DEF SetSubEventIdentifier, SendEvent, TypeOK
<1>5. CASE SendParameters(c)
  BY <1>1, <1>2, <1>5 DEF SendParameters, TypeOK
<1> QED
  BY <1>3, <1>4, <1>5

LEMMA InfoHandlerTypes ==
  ASSUME TypeOK, NEW c \in Client, InfoHandler(c)
  PROVE  TypeOK'
<1> USE DEF collectorVars, settingVars, wireVars, boundVars
<1> DEFINE update == Head(toClient[c])
<1>1. /\ toClient' \in [Client -> Seq(Updates)]
      /\ UNCHANGED <<collectorVars, connected, connecting, updateMode, linked, boundVars>>
  BY DEF InfoHandler, TypeOK
<1>2. /\ toCollector' \in [Client -> Seq(Commands)]
      /\ serverId' \in [Client -> {"none", "confirmed", "stale"}]
      /\ reading' \in [Client -> ({<<>>} \cup {<<b>> : b \in BOOLEAN})]
      /\ raced' \in [Client -> BOOLEAN]
  <2>1. CASE HandleClientId(c)
    BY <2>1 DEF HandleClientId, TypeOK
  <2>2. CASE HandleServerState(c)
    BY <2>2, Sent, CommandsTyped DEF HandleServerState, TypeOK
  <2>3. CASE HandleNoLink(c) \/ HandleEvent(c)
    BY <2>3 DEF HandleNoLink, HandleEvent, TypeOK
  <2> QED
    BY <2>1, <2>2, <2>3 DEF InfoHandler
<1> QED
  BY <1>1, <1>2 DEF TypeOK

LEMMA StepTypes == TypeOK /\ [Next]_vars => TypeOK'
<1> SUFFICES ASSUME TypeOK, [Next]_vars PROVE TypeOK'
  OBVIOUS
<1>1. CASE UNCHANGED vars
  BY <1>1 DEF vars, collectorVars, settingVars, wireVars, boundVars, TypeOK
<1> QED
  BY <1>1, CollectorTypes, LinkTypes, CommandHandlerTypes, ConnectionCallTypes,
     ConnectionEndTypes,
     SettingCallTypes, InfoHandlerTypes
     DEF Next, Handlers, ApplicationCalls

LEMMA InitTypes == Init => TypeOK
<1>1. <<>> \in Seq(Commands) /\ <<>> \in Seq(Updates)
  BY BoundAssumption
<1> QED
  BY <1>1, BoundAssumption DEF Init, TypeOK

\* Type correctness.
THEOREM EventTypes == Spec => []TypeOK
<1> QED
  BY InitTypes, StepTypes, PTL DEF Spec

-----------------------------------------------------------------------------
(* The connection and the settings of a client. *)

LEMMA QueueTypes ==
  ASSUME TypeOK, NEW d \in Client
  PROVE  /\ toClient[d] \in Seq(Updates) /\ toCollector[d] \in Seq(Commands)
         /\ Len(toClient[d]) \in Nat /\ Len(toCollector[d]) \in Nat
         /\ 0 \in 0 .. Len(toClient[d])
         /\ reading[d] # <<>> => reading[d] = <<Head(reading[d])>> /\ Head(reading[d]) \in BOOLEAN
BY DEF TypeOK

\* A step that changes nothing a client sees but for an update that is neither a
\* confirmation nor the loss of the connection.
LEMMA Bystander ==
  ASSUME TypeOK, NEW d \in Client, ConnectionInv(d), SettingsInv(d),
         connected'[d] = connected[d], serverId'[d] = serverId[d],
         updateMode'[d] = updateMode[d], reading'[d] = reading[d], raced'[d] = raced[d],
         linked'[d] = linked[d], toCollector'[d] = toCollector[d],
         \/ toClient'[d] = toClient[d]
         \/ /\ linked[d]
            /\ \E u \in {"SERVER_STATE", "EVENT_RAW_UPDATE"} :
                 toClient'[d] = Append(toClient[d], u),
         d \in known' <=> d \in known, d \in updated' <=> d \in updated,
         linked[d] => phase' # "down"
  PROVE  ConnectionInv(d)' /\ SettingsInv(d)'
<1>1. StaysKnown(d)' <=> StaysKnown(d)
  BY DEF StaysKnown, Prevails
<1>2. ModeArrives(d)' <=> ModeArrives(d)
  BY DEF ModeArrives, Prevails
<1>3. CASE toClient'[d] = toClient[d]
  BY <1>1, <1>2, <1>3 DEF ConnectionInv, SettingsInv, Losing
<1>4. ASSUME linked[d], NEW u \in {"SERVER_STATE", "EVENT_RAW_UPDATE"},
             toClient'[d] = Append(toClient[d], u)
      PROVE  ConnectionInv(d)' /\ SettingsInv(d)'
  <2> DEFINE q == toClient[d]
             r == toClient'[d]
  <2>1. q \in Seq(Updates) /\ Len(q) \in Nat /\ u \in Updates /\ u \notin {"NO_LINK", "CLIENT_REGISTERED"}
    BY QueueTypes DEF Updates
  <2>2. /\ Len(r) = Len(q) + 1 /\ r[Len(q) + 1] = u
        /\ \A i \in 1 .. Len(q) : r[i] = q[i]
    BY <1>4, <2>1, AppendLast
  <2>3. \A i \in 0 .. Len(q) :
          /\ NoneAfter(r, i, {"NO_LINK"}) <=> NoneAfter(q, i, {"NO_LINK"})
          /\ NoneAfter(r, i, {"CLIENT_REGISTERED"}) <=> NoneAfter(q, i, {"CLIENT_REGISTERED"})
    BY <1>4, <2>1, NoneAfterAppend
  <2>4. Losing(d)' <=> Losing(d)
    BY <2>1, <2>3 DEF Losing
  <2>5. ConnectionInv(d)'
    BY <1>4, <2>4 DEF ConnectionInv
  <2>6. SettingsInv(d)'
    BY <1>1, <1>2, <2>1, <2>3, <2>4 DEF SettingsInv
  <2> QED
    BY <2>5, <2>6
<1> QED
  BY <1>3, <1>4

\* The exit of the collector: who was linked hears of it, who was not is not told.
LEMMA CollectorExitKeeps ==
  ASSUME TypeOK, NEW d \in Client, ConnectionInv(d), SettingsInv(d), CollectorExit
  PROVE  ConnectionInv(d)' /\ SettingsInv(d)'
<1>1. /\ UNCHANGED <<connected, serverId, updateMode, reading, raced>>
      /\ phase' = "down" /\ ~linked'[d]
  BY DEF CollectorExit, settingVars
<1>2. CASE linked[d]
  <2>1. PICK q \in Seq(Updates) : toClient'[d] = Append(q, "NO_LINK")
    BY <1>2, CollectorExitToClient
  <2>2. /\ \A i \in 0 .. Len(q) : ~NoneAfter(toClient'[d], i, {"NO_LINK"})
        /\ Len(q) \in Nat /\ Len(toClient'[d]) = Len(q) + 1
        /\ toClient'[d][Len(q) + 1] = "NO_LINK"
    BY <2>1, NoneAfterAppend, AppendLast DEF Updates
  <2>3. Losing(d)'
    BY <2>2 DEF Losing
  <2>4. \A i \in 1 .. Len(toClient'[d]) :
          toClient'[d][i] = "CLIENT_REGISTERED" => ~NoneAfter(toClient'[d], i, {"NO_LINK"})
    BY <2>2
  <2>5. connected'[d]
    BY <1>1, <1>2 DEF ConnectionInv
  <2> QED
    BY <1>1, <2>3, <2>4, <2>5 DEF ConnectionInv, SettingsInv
<1>3. CASE ~linked[d]
  <2>1. toClient'[d] = toClient[d]
    BY <1>3, CollectorExitToClient
  <2>2. Losing(d)' <=> Losing(d)
    BY <2>1 DEF Losing
  <2>3. ConnectionInv(d)'
    BY <1>1, <1>3, <2>1, <2>2 DEF ConnectionInv
  <2>4. serverId[d] = "confirmed" => Losing(d)
    BY <1>3 DEF ConnectionInv
  <2> QED
    BY <1>1, <2>2, <2>3, <2>4 DEF SettingsInv
<1> QED
  BY <1>2, <1>3

\* A client that is linked keeps all it has under way, and so does one that asks for
\* the state of a collector that is not there.
LEMMA LinkKeeps ==
  ASSUME TypeOK, NEW c \in Client, ConnectionInv(c), SettingsInv(c),
         Link(c) \/ AskServerState(c)
  PROVE  ConnectionInv(c)' /\ SettingsInv(c)'
<1>1. /\ UNCHANGED <<phase, known, updated, connected, serverId, updateMode, reading, raced,
                     toCollector, toClient>>
      /\ linked'[c] = linked[c] \/ (linked'[c] /\ phase # "down" /\ connected[c])
  BY DEF Link, AskServerState, collectorVars, settingVars, TypeOK
<1>2. (Losing(c)' <=> Losing(c)) /\ (StaysKnown(c)' <=> StaysKnown(c))
      /\ (ModeArrives(c)' <=> ModeArrives(c))
  BY <1>1 DEF Losing, StaysKnown, ModeArrives
<1>3. ConnectionInv(c)'
  BY <1>1, <1>2 DEF ConnectionInv
<1>4. SettingsInv(c)'
  BY <1>1, <1>2 DEF SettingsInv
<1> QED
  BY <1>3, <1>4

\* A client that is not confirmed over its connection, and has nothing under way that
\* would do so.
LEMMA NotConfirmed ==
  ASSUME NEW c \in Client, serverId'[c] # "confirmed",
         linked'[c] => phase' # "down" /\ connected'[c],
         toClient'[c] = <<>> \/ (connected'[c] /\ toClient'[c] = <<"NO_LINK">>)
  PROVE  ConnectionInv(c)' /\ SettingsInv(c)'
<1>1. \A i \in 1 .. Len(toClient'[c]) : toClient'[c][i] # "CLIENT_REGISTERED"
  OBVIOUS
<1> QED
  BY <1>1 DEF ConnectionInv, SettingsInv

\* Connecting, disconnecting and the exit of the client begin with empty hands.
LEMMA ConnectionCallKeeps ==
  ASSUME TypeOK, NEW c \in Client, ConnectionInv(c), SettingsInv(c),
         CreateInfos(c) \/ PerformServiceDisconnection(c) \/ ClientExit(c)
  PROVE  ConnectionInv(c)' /\ SettingsInv(c)'
<1> USE DEF collectorVars, TypeOK
<1>1. CASE CreateInfos(c)
  <2>1. ~connected[c] /\ connected'[c] /\ UNCHANGED <<phase, serverId, linked>>
    BY <1>1 DEF CreateInfos
  <2>2. toClient[c] = <<>> /\ serverId'[c] # "confirmed" /\ ~linked'[c]
    BY <2>1 DEF ConnectionInv
  <2>3. toClient'[c] = <<>> \/ toClient'[c] = <<"NO_LINK">>
    BY <1>1, <2>2 DEF CreateInfos
  <2> QED
    BY <2>1, <2>2, <2>3, NotConfirmed
<1>2. CASE PerformServiceDisconnection(c)
  BY <1>2, NotConfirmed DEF PerformServiceDisconnection
<1>3. CASE ClientExit(c)
  BY <1>3, NotConfirmed DEF ClientExit
<1> QED
  BY <1>1, <1>2, <1>3

\* The commands that neither take a client out nor give its mode.
LEMMA OtherCommands ==
  /\ Command("SUB_EVENT_IDENTIFIER", TRUE) \notin Modes \cup Removals
  /\ Command("COLLECT_RAW_EVENT", TRUE) \notin Modes \cup Removals
  /\ Command("REGISTRATION", TRUE) \notin Modes \cup Removals
BY DEF Command, Modes, Removals

LEMMA ModeCommands ==
  ASSUME NEW b \in BOOLEAN
  PROVE  /\ Command("UPDATE_MODE", b) \in Additions \cap Modes
         /\ Command("UPDATE_MODE", b) \notin Removals
BY DEF Command, Commands, Modes, Additions, Removals

\* A client sends a command of that kind, and changes nothing else of what is said.
LEMMA SendKeeps ==
  ASSUME TypeOK, NEW c \in Client, ConnectionInv(c), SettingsInv(c),
         NEW m \in Commands, m \notin Modes \cup Removals,
         Send(c, <<m>>),
         UNCHANGED <<phase, known, updated, connected, serverId, updateMode, reading, raced,
                     linked, toClient>>
  PROVE  ConnectionInv(c)' /\ SettingsInv(c)'
<1>1. toCollector'[c] = toCollector[c] \/ toCollector'[c] = Append(toCollector[c], m)
  BY Sent
<1>2. toCollector[c] \in Seq(Commands)
  BY QueueTypes
<1>3. StaysKnown(c) => StaysKnown(c)'
  <2>1. ASSUME NEW f \in BOOLEAN, Prevails(f, toCollector[c], Additions, Removals)
        PROVE  Prevails(f, toCollector'[c], Additions, Removals)
    BY <1>1, <1>2, <2>1, PrevailsAppend
  <2>2. (c \in known) \in BOOLEAN
    OBVIOUS
  <2>3. StaysKnown(c) => Prevails(c \in known, toCollector'[c], Additions, Removals)
    BY <2>1, <2>2 DEF StaysKnown
  <2> QED
    BY <2>3 DEF StaysKnown
<1>4. ModeArrives(c) => ModeArrives(c)'
  BY <1>1, <1>2, PrevailsAppend DEF ModeArrives
<1>5. ConnectionInv(c)'
  BY DEF ConnectionInv, Losing
<1>6. SettingsInv(c)'
  BY <1>3, <1>4 DEF SettingsInv, Losing
<1> QED
  BY <1>5, <1>6

\* setUpdateMode: the new mode is sent, or the handler was about to send the old one.
LEMMA SetUpdateModeKeeps ==
  ASSUME TypeOK, NEW c \in Client, ConnectionInv(c), SettingsInv(c), SetUpdateMode(c)
  PROVE  ConnectionInv(c)' /\ SettingsInv(c)'
<1> DEFINE m == Command("UPDATE_MODE", ~updateMode[c])
<1>1. /\ UNCHANGED <<phase, known, updated, connected, serverId, reading, linked, toClient>>
      /\ updateMode'[c] = ~updateMode[c] /\ updateMode'[c] \in BOOLEAN
      /\ raced'[c] = (raced[c] \/ reading[c] # <<>>)
      /\ connected[c] => Send(c, <<m>>)
  BY DEF SetUpdateMode, collectorVars, TypeOK
<1>2. ConnectionInv(c)'
  BY <1>1 DEF ConnectionInv, Losing
<1>3. ASSUME serverId[c] = "confirmed", ~Losing(c)
      PROVE  /\ reading[c] # <<>> => raced'[c]
             /\ reading[c] = <<>> => StaysKnown(c)'
             /\ ModeArrives(c)'
  <2>1. phase # "down" /\ connected[c]
    BY <1>3 DEF ConnectionInv
  <2>2. m \in Commands /\ m \in Additions /\ m \notin Removals
    BY <1>1, ModeCommands, CommandsTyped
  <2>3. toCollector'[c] = Append(toCollector[c], m)
    BY <1>1, <2>1, <2>2, Sent
  <2>4. toCollector[c] \in Seq(Commands)
    BY QueueTypes
  <2>5. StaysKnown(c)'
    <3>1. ASSUME NEW f \in BOOLEAN PROVE Prevails(f, toCollector'[c], Additions, Removals)
      BY <2>2, <2>3, <2>4, PrevailsAppend
    <3>2. (c \in known') \in BOOLEAN
      OBVIOUS
    <3>3. Prevails(c \in known', toCollector'[c], Additions, Removals)
      BY <3>1, <3>2
    <3> QED
      BY <3>3 DEF StaysKnown
  <2>6. m \in {Command("UPDATE_MODE", updateMode'[c])}
    BY <1>1
  <2>7. ModeArrives(c)'
    BY <2>2, <2>3, <2>4, <2>6, PrevailsAppend DEF ModeArrives
  <2> QED
    BY <1>1, <2>5, <2>7
<1>4. SettingsInv(c)'
  BY <1>1, <1>3 DEF SettingsInv, Losing
<1> QED
  BY <1>2, <1>4

\* The end of HandleClientId: from here the collector knows the client and its mode.
LEMMA SendParametersKeeps ==
  ASSUME TypeOK, NEW c \in Client, ConnectionInv(c), SettingsInv(c), SendParameters(c)
  PROVE  ConnectionInv(c)' /\ SettingsInv(c)'
<1> DEFINE m == Command("UPDATE_MODE", Head(reading[c]))
<1>1. /\ UNCHANGED <<phase, known, updated, connected, serverId, updateMode, raced, linked,
                     toClient>>
      /\ reading[c] # <<>> /\ reading'[c] = <<>> /\ Send(c, <<m>>)
  BY DEF SendParameters, collectorVars, TypeOK
<1>2. ConnectionInv(c)'
  BY <1>1 DEF ConnectionInv, Losing
<1>3. ASSUME serverId[c] = "confirmed", ~Losing(c)
      PROVE  StaysKnown(c)' /\ (raced[c] \/ ModeArrives(c)')
  <2>1. phase # "down"
    BY <1>3 DEF ConnectionInv
  <2>2. m \in Commands /\ m \in Additions /\ m \notin Removals
    BY <1>1, QueueTypes, ModeCommands, CommandsTyped
  <2>3. toCollector'[c] = Append(toCollector[c], m) /\ toCollector[c] \in Seq(Commands)
    BY <1>1, <2>1, <2>2, Sent, QueueTypes
  <2>4. StaysKnown(c)'
    <3>1. ASSUME NEW f \in BOOLEAN PROVE Prevails(f, toCollector'[c], Additions, Removals)
      BY <2>2, <2>3, PrevailsAppend
    <3>2. (c \in known') \in BOOLEAN
      OBVIOUS
    <3>3. Prevails(c \in known', toCollector'[c], Additions, Removals)
      BY <3>1, <3>2
    <3> QED
      BY <3>3 DEF StaysKnown
  <2>5. ASSUME ~raced[c] PROVE ModeArrives(c)'
    <3> DEFINE for == {Command("UPDATE_MODE", updateMode'[c])}
    <3>1. m \in for
      BY <1>1, <1>3, <2>5 DEF SettingsInv
    <3>2. ASSUME NEW f \in BOOLEAN
          PROVE  Prevails(f, toCollector'[c], for, Modes \cup Removals)
      BY <2>2, <2>3, <3>1, PrevailsAppend
    <3>3. (c \in updated' <=> updateMode'[c]) \in BOOLEAN
      OBVIOUS
    <3>4. Prevails(c \in updated' <=> updateMode'[c], toCollector'[c], for, Modes \cup Removals)
      BY <3>2, <3>3
    <3> QED
      BY <3>4 DEF ModeArrives
  <2> QED
    BY <2>4, <2>5
<1>4. SettingsInv(c)'
  BY <1>1, <1>3 DEF SettingsInv, Losing
<1> QED
  BY <1>2, <1>4

\* The collector handles a command of the client: what the commands behind it will
\* have done is what it was, whatever this one did.
LEMMA HandledCommand ==
  ASSUME TypeOK, NEW c \in Client, CommandHandler(c)
  PROVE  /\ StaysKnown(c) => StaysKnown(c)'
         /\ ModeArrives(c) => ModeArrives(c)'
<1> DEFINE m == Head(toCollector[c])
<1>1. /\ toCollector[c] # <<>> /\ toCollector[c] \in Seq(Commands) /\ m \in Commands
      /\ toCollector'[c] = Tail(toCollector[c]) /\ UNCHANGED updateMode
  BY DEF CommandHandler, TypeOK, settingVars
<1>2. /\ m \in Additions => c \in known'
      /\ c \in known /\ m \notin Removals => c \in known'
  BY <1>1 DEF CommandHandler, Additions, Removals, Modes, Commands, GetClient, RegisterClient,
              RemoveClient
<1>3. /\ m = Command("UPDATE_MODE", updateMode[c]) => (c \in updated' <=> updateMode'[c])
      /\ (c \in updated <=> updateMode[c]) /\ m \notin Modes \cup Removals
            => (c \in updated' <=> updateMode'[c])
  <2>1. CASE m.kind = "UPDATE_MODE"
    <3>1. updated' = IF m.value THEN updated \cup {c} ELSE updated \ {c}
      BY <2>1 DEF CommandHandler
    <3>2. m \in Modes /\ (m = Command("UPDATE_MODE", updateMode[c]) => (m.value <=> updateMode[c]))
      BY <1>1, <2>1 DEF Modes, Command
    <3> QED
      BY <1>1, <3>1, <3>2
  <2>2. CASE m.kind # "UPDATE_MODE" /\ m \notin Removals
    <3>1. updated' = updated
      BY <1>1, <2>2 DEF CommandHandler, Removals, RegisterClient, RemoveClient
    <3>2. m # Command("UPDATE_MODE", updateMode[c])
      BY <2>2 DEF Command
    <3> QED
      BY <1>1, <3>1, <3>2
  <2>3. CASE m.kind # "UPDATE_MODE" /\ m \in Removals
    BY <2>3 DEF Command
  <2> QED
    BY <2>1, <2>2, <2>3
<1>4. StaysKnown(c) => StaysKnown(c)'
  <2>1. ASSUME NEW f \in BOOLEAN, NEW g \in BOOLEAN,
               Prevails(f, toCollector[c], Additions, Removals),
               m \in Additions => g, f /\ m \notin Removals => g
        PROVE  Prevails(g, toCollector'[c], Additions, Removals)
    BY <1>1, <2>1, PrevailsTail
  <2>2. (c \in known) \in BOOLEAN /\ (c \in known') \in BOOLEAN
    OBVIOUS
  <2>3. Prevails(c \in known, toCollector[c], Additions, Removals)
          => Prevails(c \in known', toCollector'[c], Additions, Removals)
    BY <1>2, <2>1, <2>2
  <2> QED
    BY <2>3 DEF StaysKnown
<1>5. ModeArrives(c) => ModeArrives(c)'
  <2> DEFINE for == {Command("UPDATE_MODE", updateMode[c])}
             against == Modes \cup Removals
  <2>1. ASSUME NEW f \in BOOLEAN, NEW g \in BOOLEAN,
               Prevails(f, toCollector[c], for, against),
               m \in for => g, f /\ m \notin against => g
        PROVE  Prevails(g, toCollector'[c], for, against)
    BY <1>1, <2>1, PrevailsTail
  <2>2. /\ (c \in updated <=> updateMode[c]) \in BOOLEAN
        /\ (c \in updated' <=> updateMode'[c]) \in BOOLEAN
    OBVIOUS
  <2>3. Prevails(c \in updated <=> updateMode[c], toCollector[c], for, against)
          => Prevails(c \in updated' <=> updateMode'[c], toCollector'[c], for, against)
    BY <1>3, <2>1, <2>2
  <2> QED
    BY <1>1, <2>3 DEF ModeArrives
<1> QED
  BY <1>4, <1>5

\* A registration is answered over a connection that is there.
LEMMA CommandHandlerKeeps ==
  ASSUME TypeOK, NEW c \in Client, ConnectionInv(c), SettingsInv(c), CommandHandler(c)
  PROVE  ConnectionInv(c)' /\ SettingsInv(c)'
<1> DEFINE q == toClient[c]
           r == toClient'[c]
<1>1. UNCHANGED <<phase, connected, serverId, updateMode, reading, raced, linked>>
  BY DEF CommandHandler, settingVars
<1>2. \/ r = q
      \/ linked[c] /\ \E u \in {"CLIENT_REGISTERED", "EVENT_RAW_UPDATE"} : r = Append(q, u)
  <2>1. "CLIENT_REGISTERED" \in Updates /\ "EVENT_RAW_UPDATE" \in Updates
    BY DEF Updates
  <2>2. \/ UNCHANGED toClient
        \/ Update({c}, "CLIENT_REGISTERED")
        \/ \E others \in SUBSET Client : Update(updated \cup others, "EVENT_RAW_UPDATE")
    BY DEF CommandHandler, HandleEventReception, UpdateEventService, RegisterClient
  <2> QED
    BY <2>1, <2>2, Updated
<1>3. (StaysKnown(c) => StaysKnown(c)') /\ (ModeArrives(c) => ModeArrives(c)')
  BY HandledCommand
<1>4. CASE r = q
  BY <1>1, <1>3, <1>4 DEF ConnectionInv, SettingsInv, Losing
<1>5. ASSUME linked[c], NEW u \in {"CLIENT_REGISTERED", "EVENT_RAW_UPDATE"}, r = Append(q, u)
      PROVE  ConnectionInv(c)' /\ SettingsInv(c)'
  <2>1. q \in Seq(Updates) /\ Len(q) \in Nat /\ u \in Updates /\ u \notin {"NO_LINK"}
    BY QueueTypes DEF Updates
  <2>2. /\ Losing(c)' <=> Losing(c)
        /\ NoneAfter(r, 0, {"CLIENT_REGISTERED"}) => NoneAfter(q, 0, {"CLIENT_REGISTERED"})
    <3>1. 0 \in 0 .. Len(q)
      BY <2>1
    <3> QED
      BY <1>5, <2>1, <3>1, NoneAfterAppend DEF Losing
  <2>3. ConnectionInv(c)'
    BY <1>1, <1>5, <2>2 DEF ConnectionInv
  <2>4. SettingsInv(c)'
    BY <1>1, <1>3, <2>2 DEF SettingsInv
  <2> QED
    BY <2>3, <2>4
<1> QED
  BY <1>2, <1>4, <1>5

\* The client handles what it was told: a confirmation that is still good, the loss of
\* its connection, or something that leaves its settings alone.
LEMMA InfoHandlerKeeps ==
  ASSUME TypeOK, NEW c \in Client, ConnectionInv(c), SettingsInv(c), InfoHandler(c)
  PROVE  ConnectionInv(c)' /\ SettingsInv(c)'
<1> DEFINE q == toClient[c]
           r == toClient'[c]
           u == Head(q)
<1>1. /\ q # <<>> /\ q \in Seq(Updates) /\ r = Tail(q) /\ reading[c] = <<>>
      /\ UNCHANGED <<phase, known, updated, connected, updateMode, linked>>
  BY DEF InfoHandler, TypeOK, collectorVars
<1>2. /\ Len(q) \in Nat \ {0} /\ Len(r) = Len(q) - 1 /\ u = q[1]
      /\ \A i \in 1 .. Len(r) : r[i] = q[i + 1]
  BY <1>1
<1>3. ASSUME NEW T
      PROVE  /\ \A i \in Nat : NoneAfter(r, i, T) <=> NoneAfter(q, i + 1, T)
             /\ NoneAfter(q, 0, T) <=> u \notin T /\ NoneAfter(q, 1, T)
             /\ NoneAfter(r, 0, T) <=> NoneAfter(q, 1, T)
  <2>1. 0 \in Nat /\ 0 + 1 = 1
    OBVIOUS
  <2>2. /\ \A i \in Nat : NoneAfter(Tail(q), i, T) <=> NoneAfter(q, i + 1, T)
        /\ NoneAfter(q, 0, T) <=> Head(q) \notin T /\ NoneAfter(q, 1, T)
    <3> HIDE DEF q
    <3> QED
      BY <1>1, NoneAfterTail
  <2> QED
    BY <1>1, <2>1, <2>2
<1>4. u # "NO_LINK" => (Losing(c)' <=> Losing(c))
  BY <1>3 DEF Losing
<1>5. linked[c] => phase # "down" /\ connected[c]
  BY DEF ConnectionInv
<1>6. connected[c]
  BY <1>1 DEF ConnectionInv
<1>7. \A i \in 1 .. Len(r) :
        r[i] = "CLIENT_REGISTERED" => linked[c] \/ ~NoneAfter(r, i, {"NO_LINK"})
  <2>1. \A i \in 1 .. Len(r) : i + 1 \in 1 .. Len(q) /\ i \in Nat
    BY <1>2
  <2> QED
    BY <1>2, <1>3, <2>1 DEF ConnectionInv
<1>8. CASE u = "CLIENT_REGISTERED"
  <2>1. /\ serverId'[c] = "confirmed" /\ ~raced'[c]
        /\ reading'[c] = <<updateMode[c]>> /\ UNCHANGED toCollector
    BY <1>8 DEF InfoHandler, HandleClientId, HandleServerState, HandleNoLink, HandleEvent, TypeOK
  <2>2. linked[c] \/ Losing(c)'
    <3>1. 1 \in 1 .. Len(q) /\ (linked[c] \/ ~NoneAfter(q, 1, {"NO_LINK"}))
      BY <1>2, <1>8 DEF ConnectionInv
    <3> QED
      BY <1>3, <3>1 DEF Losing
  <2>3. ConnectionInv(c)'
    BY <1>1, <1>5, <1>6, <1>7, <2>2 DEF ConnectionInv
  <2>4. SettingsInv(c)'
    BY <1>1, <2>1 DEF SettingsInv
  <2> QED
    BY <2>3, <2>4
<1>9. CASE u = "NO_LINK"
  <2>1. serverId'[c] = "none"
    BY <1>9 DEF InfoHandler, HandleClientId, HandleServerState, HandleNoLink, HandleEvent, TypeOK
  <2> QED
    BY <1>1, <1>5, <1>6, <1>7, <2>1 DEF ConnectionInv, SettingsInv
<1>10. CASE u \in {"SERVER_STATE", "EVENT_RAW_UPDATE"}
  <2>1. /\ UNCHANGED <<serverId, reading, raced>>
        /\ serverId[c] = "confirmed" => UNCHANGED toCollector
    BY <1>10 DEF InfoHandler, HandleClientId, HandleServerState, HandleNoLink, HandleEvent
  <2>2. ConnectionInv(c)'
    BY <1>1, <1>4, <1>5, <1>6, <1>7, <1>10, <2>1 DEF ConnectionInv
  <2>3. NoneAfter(r, 0, {"CLIENT_REGISTERED"}) => NoneAfter(q, 0, {"CLIENT_REGISTERED"})
    BY <1>3, <1>10
  <2>4. serverId[c] = "confirmed" => /\ StaysKnown(c)' <=> StaysKnown(c)
                                     /\ ModeArrives(c)' <=> ModeArrives(c)
    BY <1>1, <2>1 DEF StaysKnown, ModeArrives
  <2>5. SettingsInv(c)'
    BY <1>1, <1>4, <1>10, <2>1, <2>3, <2>4 DEF SettingsInv
  <2> QED
    BY <2>2, <2>5
<1> QED
  BY <1>1, <1>8, <1>9, <1>10 DEF Updates

\* The collector's program: its exit apart, at most its state is announced.
LEMMA ProgramKeeps ==
  ASSUME TypeOK, NEW d \in Client, ConnectionInv(d), SettingsInv(d), CollectorProgram
  PROVE  ConnectionInv(d)' /\ SettingsInv(d)'
<1> USE DEF settingVars, wireVars
<1>1. linked[d] => phase # "down"
  BY DEF ConnectionInv
<1>2. CASE StartCollector \/ SetRunning
  BY <1>1, <1>2, Bystander DEF StartCollector, SetRunning
<1>3. CASE AnnounceState
  <2>1. "SERVER_STATE" \in Updates
    BY DEF Updates
  <2>2. \/ toClient'[d] = toClient[d]
        \/ linked[d] /\ toClient'[d] = Append(toClient[d], "SERVER_STATE")
    BY <1>3, <2>1, Updated DEF AnnounceState
  <2> QED
    BY <1>1, <1>3, <2>2, Bystander DEF AnnounceState
<1>4. CASE CollectorExit
  BY <1>4, CollectorExitKeeps
<1> QED
  BY <1>2, <1>3, <1>4 DEF CollectorProgram

\* What another client does, or the collector for it, leaves this one alone, but for
\* events: those of any client may go to it, wanted or not.
LEMMA OthersKeep ==
  ASSUME TypeOK, NEW d \in Client, ConnectionInv(d), SettingsInv(d),
         NEW c \in Client, c # d, Link(c) \/ Handlers(c) \/ ApplicationCalls(c)
  PROVE  ConnectionInv(d)' /\ SettingsInv(d)'
<1> USE DEF collectorVars, settingVars, wireVars, boundVars
<1>1. linked[d] => phase # "down"
  BY DEF ConnectionInv
<1>2. CASE Link(c)
  BY <1>1, <1>2, Bystander DEF Link, TypeOK
<1>3. CASE CommandHandler(c)
  <2>1. /\ UNCHANGED <<phase, connected, serverId, updateMode, reading, raced, linked>>
        /\ toCollector'[d] = toCollector[d]
    BY <1>3 DEF CommandHandler, TypeOK
  <2>2. (d \in known' <=> d \in known) /\ (d \in updated' <=> d \in updated)
    BY <1>3 DEF CommandHandler, GetClient, RegisterClient, RemoveClient
  <2>3. \/ toClient'[d] = toClient[d]
        \/ linked[d] /\ toClient'[d] = Append(toClient[d], "EVENT_RAW_UPDATE")
    <3>1. "CLIENT_REGISTERED" \in Updates /\ "EVENT_RAW_UPDATE" \in Updates
      BY DEF Updates
    <3>2. \/ UNCHANGED toClient
          \/ Update({c}, "CLIENT_REGISTERED")
          \/ \E others \in SUBSET Client : Update(updated \cup others, "EVENT_RAW_UPDATE")
      BY <1>3 DEF CommandHandler, HandleEventReception, UpdateEventService, RegisterClient
    <3>3. Update({c}, "CLIENT_REGISTERED") => toClient'[d] = toClient[d]
      BY <3>1, Updated
    <3>4. ASSUME NEW others \in SUBSET Client, Update(updated \cup others, "EVENT_RAW_UPDATE")
          PROVE  \/ toClient'[d] = toClient[d]
                 \/ linked[d] /\ toClient'[d] = Append(toClient[d], "EVENT_RAW_UPDATE")
      BY <3>1, <3>4, Updated
    <3> QED
      BY <3>2, <3>3, <3>4
  <2> QED
    BY <1>1, <2>1, <2>2, <2>3, Bystander
<1>4. CASE InfoHandler(c)
  <2>1. /\ UNCHANGED <<phase, known, updated, connected, updateMode, linked>>
        /\ toClient'[d] = toClient[d]
    BY <1>4 DEF InfoHandler, TypeOK
  <2>2. /\ serverId'[d] = serverId[d] /\ reading'[d] = reading[d] /\ raced'[d] = raced[d]
        /\ toCollector'[d] = toCollector[d]
    BY <1>4 DEF InfoHandler, HandleClientId, HandleServerState, HandleNoLink, HandleEvent,
                Send, TypeOK
  <2> QED
    BY <1>1, <2>1, <2>2, Bystander
<1>5. CASE SendParameters(c)
  BY <1>1, <1>5, Bystander DEF SendParameters, Send, TypeOK
<1>6. CASE CreateInfos(c) \/ AskServerState(c)
  BY <1>1, <1>6, Bystander DEF CreateInfos, AskServerState, TypeOK
<1>7. CASE PerformServiceDisconnection(c)
  BY <1>1, <1>7, Bystander DEF PerformServiceDisconnection, Send, TypeOK
<1>8. CASE ClientExit(c)
  BY <1>1, <1>8, Bystander DEF ClientExit, Send, TypeOK
<1>9. CASE SetUpdateMode(c) \/ SetSubEventIdentifier(c) \/ SendEvent(c)
  <2>1. toCollector'[d] = toCollector[d]
    BY <1>9 DEF SetUpdateMode, SetSubEventIdentifier, SendEvent, Send, TypeOK
  <2> QED
    BY <1>1, <1>9, <2>1, Bystander DEF SetUpdateMode, SetSubEventIdentifier, SendEvent, TypeOK
<1>10. CASE RegisterAtOnce(c)
  BY <1>1, <1>10, Bystander DEF RegisterAtOnce, Send, TypeOK
<1> QED
  BY <1>2, <1>3, <1>4, <1>5, <1>6, <1>7, <1>8, <1>9, <1>10 DEF Handlers, ApplicationCalls

LEMMA OwnKeeps ==
  ASSUME TypeOK, NEW c \in Client, ConnectionInv(c), SettingsInv(c),
         Link(c) \/ Handlers(c) \/ ApplicationCalls(c)
  PROVE  ConnectionInv(c)' /\ SettingsInv(c)'
<1>1. CASE SetSubEventIdentifier(c) \/ SendEvent(c)
  <2>1. PICK m \in {Command("SUB_EVENT_IDENTIFIER", TRUE), Command("COLLECT_RAW_EVENT", TRUE)} :
          Send(c, <<m>>)
    BY <1>1 DEF SetSubEventIdentifier, SendEvent
  <2>2. m \in Commands /\ m \notin Modes \cup Removals
    BY OtherCommands, CommandsTyped
  <2> QED
    BY <1>1, <2>1, <2>2, SendKeeps
       DEF SetSubEventIdentifier, SendEvent, collectorVars, settingVars
<1>2. CASE RegisterAtOnce(c)
  <2>1. /\ Send(c, <<Command("REGISTRATION", TRUE)>>)
        /\ UNCHANGED <<phase, known, updated, connected, serverId, updateMode, reading, raced,
                       linked, toClient>>
    BY <1>2 DEF RegisterAtOnce, collectorVars
  <2>2. /\ Command("REGISTRATION", TRUE) \in Commands
        /\ Command("REGISTRATION", TRUE) \notin Modes \cup Removals
    BY OtherCommands, CommandsTyped
  <2> QED
    BY <2>1, <2>2, SendKeeps
<1> QED
  BY <1>1, <1>2, LinkKeeps, CommandHandlerKeeps, InfoHandlerKeeps, SendParametersKeeps,
     ConnectionCallKeeps, SetUpdateModeKeeps DEF Handlers, ApplicationCalls

LEMMA EventStep == EventInv /\ [Next]_vars => EventInv'
<1> SUFFICES ASSUME EventInv, [Next]_vars PROVE EventInv'
  OBVIOUS
<1>1. TypeOK /\ TypeOK'
  BY StepTypes DEF EventInv
<1>2. ASSUME NEW d \in Client PROVE ConnectionInv(d)' /\ SettingsInv(d)'
  <2>1. ConnectionInv(d) /\ SettingsInv(d)
    BY DEF EventInv
  <2>2. CASE UNCHANGED vars
    BY <2>1, <2>2 DEF vars, collectorVars, settingVars, wireVars,
         ConnectionInv, SettingsInv, Losing, StaysKnown, ModeArrives
  <2>3. CASE CollectorProgram
    BY <1>1, <2>1, <2>3, ProgramKeeps
  <2>4. ASSUME NEW c \in Client, Link(c) \/ Handlers(c) \/ ApplicationCalls(c)
        PROVE  ConnectionInv(d)' /\ SettingsInv(d)'
    BY <1>1, <2>1, <2>4, OthersKeep, OwnKeeps
  <2> QED
    BY <2>2, <2>3, <2>4 DEF Next
<1> QED
  BY <1>1, <1>2 DEF EventInv

LEMMA EventInit == Init => EventInv
<1> SUFFICES ASSUME Init PROVE EventInv
  OBVIOUS
<1>1. \A c \in Client : ConnectionInv(c) /\ SettingsInv(c)
  BY DEF Init, ConnectionInv, SettingsInv
<1> QED
  BY <1>1, InitTypes DEF EventInv

LEMMA EventInvImplies == EventInv => ConfirmedClientsKnown
<1> SUFFICES ASSUME EventInv, NEW c \in Client, Settled(c), connected[c],
                    serverId[c] = "confirmed"
             PROVE  c \in known /\ (raced[c] \/ (c \in updated <=> updateMode[c]))
  BY DEF ConfirmedClientsKnown
<1>1. toCollector[c] = <<>> /\ toClient[c] = <<>> /\ reading[c] = <<>>
  BY DEF Settled
<1>2. \A T : NoneAfter(<<>>, 0, T)
  BY DEF NoneAfter
<1>3. StaysKnown(c) /\ (raced[c] \/ ModeArrives(c))
  BY <1>1, <1>2 DEF EventInv, SettingsInv, Losing
<1>4. c \in known
  BY <1>1, <1>3 DEF StaysKnown, Prevails
<1>5. ModeArrives(c) => (c \in updated <=> updateMode[c])
  BY <1>1 DEF ModeArrives, Prevails
<1> QED
  BY <1>3, <1>4, <1>5

\* A client whose id was confirmed over its present connection is known to the
\* collector with the update mode it has, once nothing is under way: commandHandler,
\* clientExitHandler and infoHandler agree on it through any sequence of connections,
\* disconnections, new modes, exits and restarts, of this client and of others.
\* setUpdateMode between the two steps of infoHandler is the one exception.
THEOREM ConfirmedAreKnown == Spec => []ConfirmedClientsKnown
<1> QED
  BY EventInit, EventStep, EventInvImplies, PTL DEF Spec

-----------------------------------------------------------------------------
(* The queue of one client. *)

\* pop of a queue that is not empty makes it one shorter.
LEMMA PopShortens ==
  ASSUME queue \in Seq(Nat), broken \in BOOLEAN, Pop
  PROVE  /\ queue' \in Seq(Nat) /\ broken' \in BOOLEAN
         /\ Len(queue) \in Nat /\ Len(queue') \in Nat
         /\ Len(queue') = IF queue = <<>> THEN 0 ELSE Len(queue) - 1
<1>1. CASE queue = <<>>
  BY <1>1 DEF Pop
<1>2. CASE queue # <<>>
  <2>1. queue' = Tail(queue) /\ broken' = broken
    BY <1>2 DEF Pop
  <2>2. /\ Tail(queue) \in Seq(Nat) /\ Len(Tail(queue)) = Len(queue) - 1
        /\ Len(queue) \in Nat \ {0}
    BY <1>2
  <2> QED
    BY <1>2, <2>1, <2>2
<1> QED
  BY <1>1, <1>2

\* DIM's thread: it pushes into a queue that has room, as far as it had when it
\* compared.
LEMMA ReceiverKeeps ==
  ASSUME QueueInv, ReceiverThread
  PROVE  QueueInv'
<1> USE DEF QueueInv, QueueTypeOK, QueueWithinMaximum, Resizing
<1>1. limit \in Nat \ {0} /\ Len(queue) \in Nat
  BY QueueAssumption
<1>2. CASE EventReception
  BY <1>2, QueueAssumption DEF EventReception
<1>3. CASE CompareSize
  BY <1>1, <1>3 DEF CompareSize
<1>4. CASE PopOldest
  BY <1>1, <1>4, PopShortens DEF PopOldest
<1>5. CASE PushEvent
  <2>1. /\ queue' \in Seq(Nat) /\ Len(queue') = Len(queue) + 1
    BY <1>5, QueueAssumption DEF PushEvent
  <2> QED
    BY <1>1, <1>5, <2>1 DEF PushEvent
<1> QED
  BY <1>2, <1>3, <1>4, <1>5 DEF ReceiverThread

LEMMA UserKeeps ==
  ASSUME QueueInv, UserThread
  PROVE  QueueInv'
<1> USE DEF QueueInv, QueueTypeOK, QueueWithinMaximum, Resizing
<1>1. limit \in Nat \ {0} /\ Len(queue) \in Nat
  BY QueueAssumption
<1>2. CASE (\E size \in 1 .. MaxLimit : SetMaximumQueueSize(size)) \/ BeginToShrink
  <2>1. CASE \E size \in 1 .. MaxLimit : SetMaximumQueueSize(size)
    <3>1. PICK size \in 1 .. MaxLimit : SetMaximumQueueSize(size)
      BY <2>1
    <3>2. queueCalls' \in 0 .. MaxQueueCalls /\ limit' \in 1 .. MaxLimit
      BY <3>1, QueueAssumption DEF SetMaximumQueueSize, Begin
    <3> QED
      BY <3>1, <3>2 DEF SetMaximumQueueSize
  <2>2. CASE BeginToShrink
    BY <2>2 DEF BeginToShrink
  <2> QED
    BY <1>2, <2>1, <2>2
<1>3. CASE ShrinkQueue
  <2>1. CASE Len(queue) > limit
    BY <1>3, <2>1 DEF ShrinkQueue
  <2>2. CASE ~(Len(queue) > limit)
    <3>1. /\ user' = "idle" /\ overtaken' = (dim = "pushing" /\ Len(queue) >= limit)
          /\ UNCHANGED <<queue, limit, dim, taken, arrived, queueCalls, broken>>
      BY <1>3, <2>2 DEF ShrinkQueue
    <3>0. (dim = "pushing" /\ Len(queue) >= limit) \in BOOLEAN
      OBVIOUS
    <3>a. overtaken' \in BOOLEAN
      BY <3>0, <3>1
    <3>2. overtaken' \in BOOLEAN /\ Len(queue) <= limit
      BY <1>1, <2>2, <3>a
    <3>3. ASSUME dim = "pushing", ~(Len(queue) < limit) PROVE overtaken'
      <4>1. Len(queue) >= limit
        BY <1>1, <3>3
      <4>2. overtaken' = TRUE
        BY <3>1, <3>3, <4>1
      <4> QED
        BY <4>2
    <3> QED
      BY <3>1, <3>2, <3>3
  <2> QED
    BY <2>1, <2>2
<1>4. CASE DropOldest \/ RemoveNext \/ RemoveTaken
  BY <1>1, <1>4, PopShortens DEF DropOldest, RemoveNext, RemoveTaken
<1>5. CASE ClearQueue \/ TakeEvent
  BY <1>5, QueueAssumption DEF ClearQueue, TakeEvent, Begin
<1>6. CASE ClearNext \/ LookForEvent
  BY <1>6 DEF ClearNext, LookForEvent
<1>7. CASE ReadFront
  <2>1. queue # <<>> => Head(queue) \in Nat
    OBVIOUS
  <2> QED
    BY <1>7, <2>1 DEF ReadFront
<1> QED
  BY <1>2, <1>3, <1>4, <1>5, <1>6, <1>7 DEF UserThread

\* EventClient: though only pushEvent holds the mutex for what it does, the queue is
\* longer than its maximum only until setMaximumQueueSize returns, or when a pushEvent
\* had compared before that call had shrunk the queue.
THEOREM QueuesAreBounded == QueueSpec => []QueueWithinMaximum
<1>1. QueueInit => QueueInv
  <2>1. <<>> \in Seq(Nat) /\ Len(<<>>) = 0 /\ 0 \in 0 .. MaxArrivals /\ 0 \in 0 .. MaxQueueCalls
    BY QueueAssumption
  <2>2. MaxLimit \in 1 .. MaxLimit /\ 0 <= MaxLimit
    BY QueueAssumption
  <2> QED
    <3>1. ASSUME QueueInit PROVE QueueTypeOK /\ QueueWithinMaximum
      BY <2>1, <2>2, <3>1 DEF QueueInit, QueueTypeOK, QueueWithinMaximum
    <3>2. QueueInit => dim # "pushing"
      BY DEF QueueInit
    <3> QED
      BY <3>1, <3>2 DEF QueueInv
<1>2. QueueInv /\ [QueueNext]_queueVars => QueueInv'
  <2> SUFFICES ASSUME QueueInv, [QueueNext]_queueVars PROVE QueueInv'
    OBVIOUS
  <2>1. CASE UNCHANGED queueVars
    BY <2>1 DEF queueVars, QueueInv, QueueTypeOK, QueueWithinMaximum, Resizing
  <2> QED
    BY <2>1, ReceiverKeeps, UserKeeps DEF QueueNext
<1>3. QueueInv => QueueWithinMaximum
  BY DEF QueueInv
<1> QED
  BY <1>1, <1>2, <1>3, PTL DEF QueueSpec

=============================================================================
