---------------------------- MODULE DimRunControl ----------------------------
(***************************************************************************)
(* The run control over DIM: RunControlService, which owns the run, and    *)
(* DimRunControlClient in an application that follows it, over one DIM     *)
(* connection that keeps the order of what goes through it.                *)
(*                                                                         *)
(* Handlers of the service run one after the other, on DIM's thread, and   *)
(* so do the handlers of the client.  The web posts of the service run on  *)
(* Mongoose's thread without a lock: the model takes them one at a time    *)
(* with the commands, their overlap is a data race on run and buffers.     *)
(*                                                                         *)
(* External, known by their use: the RunControl of the core library        *)
(* (startNewRun ends the run that goes on, checkPassword) and DIM: a       *)
(* DimUpdatedInfo gets updates but no first value, and all infos of a      *)
(* connection that breaks get no data.                                     *)
(***************************************************************************)
EXTENDS Integers, Sequences

CONSTANTS
  Run,          \* run numbers: the service takes any, negative ones included
  NoRun,        \* no run; as a number, the -1 of the code
  MaxCommands,  \* bound: commands and web posts
  MaxOutages    \* bound: stops and deaths of the service

ASSUME RunAssumption == Run \subseteq Int /\ NoRun \notin Run
ASSUME BoundAssumption == MaxCommands \in Nat /\ MaxOutages \in Nat

VARIABLES
  serviceUp,   \* m_serviceState of the service is RUNNING
  serviceRun,  \* the run of its m_pRunControl
  runNumber,   \* its m_currentRunNumber
  response,    \* m_ok of the last answer to a command
  commands, outages,  \* what the bounds count
  phase,       \* where the application is in connectToService
  connected,   \* m_isConnected of the client
  clientRun,   \* the run of the client
  link,        \* DIM connection between the two
  request,     \* a CURRENT_RUN request is under way
  toClient,    \* updates and answers under way
  informed     \* history: how serviceRun was told to this link, by its start, an answer

serviceVars == <<serviceUp, serviceRun, runNumber, response>>
clientVars  == <<phase, connected, clientRun>>
wireVars    == <<link, request, toClient, informed>>
vars == <<serviceVars, commands, outages, clientVars, wireVars>>

-----------------------------------------------------------------------------
(* Messages. *)

AnyRun == Run \cup {NoRun}

Message == [kind : {"START_OF_RUN", "END_OF_RUN"}, run : Run]
             \cup [kind : {"CURRENT_RUN"}, run : AnyRun]
             \cup {[kind |-> "NO_LINK", run |-> NoRun]}

Update(kind, r) == [kind |-> kind, run |-> r]

\* updateService reaches the clients that are linked; told is how they learn of the
\* service's run by it.
Publish(updates, told) ==
  /\ toClient' = IF link THEN toClient \o updates ELSE toClient
  /\ informed' = IF link THEN told ELSE informed
  /\ UNCHANGED <<link, request>>

PublishNothing == UNCHANGED wireVars

-----------------------------------------------------------------------------
(* RunControlService. *)

\* A start that is on its way to a client before it has set m_isConnected is lost.
StartTold == IF connected THEN {"START_OF_RUN"} ELSE {}

\* What ending the run that goes on publishes.
EndUpdate == IF serviceRun = NoRun THEN <<>> ELSE <<Update("END_OF_RUN", serviceRun)>>

\* startNewRun: ends the current run, notes the number, then asks the run control.
\* The end of the run clears the number before the password is checked.
ServiceStartNewRun(r, granted) ==
  IF granted
  THEN /\ serviceRun' = r /\ runNumber' = r
       /\ Publish(EndUpdate \o <<Update("START_OF_RUN", r)>>, StartTold)
  ELSE /\ runNumber' = IF serviceRun = NoRun THEN r ELSE NoRun
       /\ UNCHANGED serviceRun
       /\ PublishNothing

\* Mutant: the end of a run is not published.
ServiceEndCurrentRun_Silent(granted) ==
  /\ runNumber' = NoRun
  /\ IF granted
     THEN serviceRun' = NoRun /\ Publish(<<>>, {})
     ELSE UNCHANGED serviceRun /\ PublishNothing

\* endCurrentRun, while there is a run: the number goes before the password.
ServiceEndCurrentRun(granted) ==
  /\ runNumber' = NoRun
  /\ IF granted
     THEN serviceRun' = NoRun /\ Publish(EndUpdate, {})
     ELSE UNCHANGED serviceRun /\ PublishNothing

\* A command or a web post of somebody: the service has to be up.
Command ==
  /\ serviceUp /\ commands < MaxCommands
  /\ commands' = commands + 1
  /\ UNCHANGED <<serviceUp, outages, clientVars>>

\* The early return of both commands.
Refuse ==
  /\ response' = FALSE
  /\ UNCHANGED <<serviceRun, runNumber>> /\ PublishNothing

HandleStartNewRunRpc(r, granted) ==
  /\ Command
  /\ IF serviceRun = NoRun /\ granted
     THEN ServiceStartNewRun(r, granted) /\ response' = TRUE
     ELSE Refuse

HandleEndCurrentRunRpc(granted) ==
  /\ Command
  /\ IF serviceRun # NoRun /\ granted
     THEN ServiceEndCurrentRun(granted) /\ response' = TRUE
     ELSE Refuse

\* The web posts leave the password to the service's own methods.
MongooseStartOfRun(r, granted) ==
  /\ Command
  /\ ServiceStartNewRun(r, granted)
  /\ UNCHANGED response

MongooseEndOfRun(granted) ==
  /\ Command /\ serviceRun # NoRun
  /\ ServiceEndCurrentRun(granted)
  /\ UNCHANGED response

\* The run that goes on, or an empty one.
HandleCurrentRunRpc ==
  /\ serviceUp /\ request
  /\ request' = FALSE
  /\ toClient' = Append(toClient, Update("CURRENT_RUN", serviceRun))
  /\ informed' = IF serviceRun = NoRun THEN informed ELSE informed \cup {"CURRENT_RUN"}
  /\ UNCHANGED <<serviceVars, commands, outages, clientVars, link>>

\* All that is under way, the last updates of the service included, may be lost
\* from some point on; the client's infos then get no data.
BreakLink(updates) ==
  /\ link' = FALSE /\ request' = FALSE
  /\ UNCHANGED informed
  /\ IF link
     THEN LET sent == toClient \o updates
          IN \E n \in 0 .. Len(sent) :
               toClient' = SubSeq(sent, 1, n) \o <<Update("NO_LINK", NoRun)>>
     ELSE UNCHANGED toClient

Outage(updates) ==
  /\ serviceUp /\ outages < MaxOutages
  /\ outages' = outages + 1
  /\ serviceUp' = FALSE
  /\ BreakLink(updates)
  /\ UNCHANGED <<response, commands, clientVars>>

\* stop() and pause() delete services and commands, and leave the run alone.
Stop == Outage(<<>>) /\ UNCHANGED <<serviceRun, runNumber>>

\* The process goes away, and a new one will begin without a run.  The destructor
\* ends the run without a password: if there is one, the run ends unpublished.
Die ==
  /\ \E updates \in {<<>>, EndUpdate} : Outage(updates)
  /\ serviceRun' = NoRun /\ runNumber' = NoRun

\* start(), of a stopped service or of a new one.
Start ==
  /\ ~serviceUp
  /\ serviceUp' = TRUE
  /\ UNCHANGED <<serviceRun, runNumber, response, commands, outages, clientVars,
                 wireVars>>

-----------------------------------------------------------------------------
(* DimRunControlClient: connectToService, on the application's thread. *)

\* The infos are created; from here DIM links them.
CreateInfos ==
  /\ phase = "new"
  /\ phase' = "creating"
  /\ UNCHANGED <<serviceVars, commands, outages, connected, clientRun, wireVars>>

SetConnected ==
  /\ phase = "creating"
  /\ phase' = "sleeping" /\ connected' = TRUE
  /\ UNCHANGED <<serviceVars, commands, outages, clientRun, wireVars>>

\* After its sleep the client asks for the current run, once, linked or not.
RequestCurrentRun ==
  /\ phase = "sleeping"
  /\ phase' = "following" /\ request' = link
  /\ UNCHANGED <<serviceVars, commands, outages, connected, clientRun, link, toClient,
                 informed>>

DisconnectFromService ==
  /\ phase = "following"
  /\ phase' = "gone" /\ connected' = FALSE
  /\ link' = FALSE /\ request' = FALSE /\ toClient' = <<>>
  /\ UNCHANGED <<serviceVars, commands, outages, clientRun, informed>>

\* DIM links the client to a service that is up.
Link ==
  /\ phase \in {"creating", "sleeping", "following"}
  /\ serviceUp /\ ~link
  /\ link' = TRUE /\ informed' = {}
  /\ UNCHANGED <<serviceVars, commands, outages, clientVars, request, toClient>>

-----------------------------------------------------------------------------
(* DimRunControlClient: its handlers, on DIM's thread. *)

\* A start is taken while the client has no run, unless its number is negative.
StartOfRunInfo(update) ==
  clientRun' = IF clientRun = NoRun /\ connected /\ update.run >= 0
               THEN update.run ELSE clientRun

\* Mutant: an end without data is ignored, like a start without data.
EndOfRunInfo_NeedsData(update) ==
  clientRun' = IF connected /\ update.kind = "END_OF_RUN" THEN NoRun ELSE clientRun

\* An end is taken without a look at its data: a broken link ends the run too.
EndOfRunInfo(update) ==
  clientRun' = IF connected THEN NoRun ELSE clientRun

\* Mutant: the test of the connection is the wrong way round.
HandleCurrentRunRpcInfo_Disconnected(update) ==
  clientRun' = IF ~connected /\ update.run # NoRun /\ update.run > 0
               THEN update.run ELSE clientRun

\* The run of the answer is started, over the one that goes on; no run, or one
\* whose number is not positive, changes nothing.
HandleCurrentRunRpcInfo(update) ==
  clientRun' = IF connected /\ update.run # NoRun /\ update.run > 0
               THEN update.run ELSE clientRun

InfoHandler ==
  /\ toClient # <<>>
  /\ toClient' = Tail(toClient)
  /\ LET update == Head(toClient)
     IN CASE update.kind = "START_OF_RUN" -> StartOfRunInfo(update)
          [] update.kind = "CURRENT_RUN"  -> HandleCurrentRunRpcInfo(update)
          [] OTHER                        -> EndOfRunInfo(update)
  /\ UNCHANGED <<serviceVars, commands, outages, phase, connected, link, request,
                 informed>>

-----------------------------------------------------------------------------

Init ==
  /\ serviceUp \in BOOLEAN
  /\ serviceRun = NoRun /\ runNumber = NoRun /\ response = FALSE
  /\ commands = 0 /\ outages = 0
  /\ phase = "new" /\ connected = FALSE /\ clientRun = NoRun
  /\ link = FALSE /\ request = FALSE /\ toClient = <<>>
  /\ informed = {}

ServiceStep ==
  \/ \E granted \in BOOLEAN :
       \/ HandleEndCurrentRunRpc(granted) \/ MongooseEndOfRun(granted)
       \/ \E r \in Run :
            HandleStartNewRunRpc(r, granted) \/ MongooseStartOfRun(r, granted)
  \/ HandleCurrentRunRpc \/ Stop \/ Die \/ Start

ClientStep ==
  \/ CreateInfos \/ SetConnected \/ RequestCurrentRun \/ DisconnectFromService
  \/ Link \/ InfoHandler

Next == ServiceStep \/ ClientStep

\* What was sent is handled; nobody has to send, link or come back.
Spec == Init /\ [][Next]_vars /\ WF_vars(InfoHandler)

-----------------------------------------------------------------------------
(* Properties *)

TypeOK ==
  /\ serviceUp \in BOOLEAN /\ serviceRun \in AnyRun /\ runNumber \in AnyRun
  /\ response \in BOOLEAN
  /\ commands \in 0 .. MaxCommands /\ outages \in 0 .. MaxOutages
  /\ phase \in {"new", "creating", "sleeping", "following", "gone"}
  /\ connected \in BOOLEAN /\ clientRun \in AnyRun
  /\ link \in BOOLEAN /\ request \in BOOLEAN 
  /\ informed \subseteq {"START_OF_RUN", "CURRENT_RUN"}
  /\ toClient \in Seq(Message)

Ends(update) == update.kind \in {"END_OF_RUN", "NO_LINK"}

\* An end is under way behind the first i messages.
EndAfter(i) == \E j \in (i + 1) .. Len(toClient) : Ends(toClient[j])

\* The run goes on, and its end would be sent.
GoesOn(r) == link /\ r = serviceRun

\* Where the connection of the client comes from, and what it may carry.
ConnectionKept ==
  /\ connected <=> phase \in {"sleeping", "following"}
  /\ phase \in {"new", "creating"} => clientRun = NoRun
  /\ link => serviceUp /\ phase \notin {"new", "gone"}
  /\ request => link

\* Every run that the client has or will be told of goes on, or its end follows.
RunsAreEnded ==
  /\ connected /\ clientRun # NoRun => GoesOn(clientRun) \/ EndAfter(0)
  /\ \A i \in 1 .. Len(toClient) :
       ~Ends(toClient[i]) /\ toClient[i].run # NoRun =>
         GoesOn(toClient[i].run) \/ EndAfter(i)

\* The inductive invariant of the proofs.
FollowingInv == TypeOK /\ ConnectionKept /\ RunsAreEnded

\* The numbers the client takes from a start and from an answer: an answer with
\* run 0 means no run to it, a start with run 0 is one.
Takes(kind, r) ==
  /\ r # NoRun
  /\ \/ kind = "START_OF_RUN" /\ r >= 0
     \/ kind = "CURRENT_RUN" /\ r > 0

\* The client was told of the service's run in a way that it takes.
Informed == \E kind \in informed : Takes(kind, serviceRun)

\* A message that makes r the run of a client that has none, or has r already.
Tells(update, r) == update.run = r /\ Takes(update.kind, r)

\* The client has the run r or will be told of it, and no end comes behind that.
HasOrIsTold(r) ==
  \/ clientRun = r /\ ~EndAfter(0)
  \/ \E i \in 1 .. Len(toClient) : Tells(toClient[i], r) /\ ~EndAfter(i)

\* What the proofs need beyond FollowingInv: only a connected client asks, and one
\* that was informed of the run that goes on has it, or the message is under way.
InformedInv ==
  /\ request => connected
  /\ link /\ Informed => connected /\ HasOrIsTold(serviceRun)

Settled == phase = "following" /\ link /\ ~request /\ toClient = <<>>

\* Once it has asked and nothing is under way, a client follows the service: it has
\* the run that goes on, whatever crossed its request or its connection.  It has none
\* only where the service has none, or told of it by a start that came before the
\* client was linked and connected, by a negative number, or by an answer with run 0.
ClientFollowsService ==
  Settled =>
    \/ clientRun = serviceRun
    \/ clientRun = NoRun /\ ~Informed

\* A client does not stay in a run that is over: as long as its run is not the
\* service's, an end, or the news that the link broke, is on its way to it.
StaleRunsEnd ==
  connected /\ clientRun \notin {NoRun, serviceRun} =>
    EndAfter(0)

\* So each run of the service that ends, by a command, a new run or the death of
\* the service, ends at the client.
EndOfRunReachesClient ==
  connected /\ clientRun \notin {NoRun, serviceRun}
    ~> ~connected \/ clientRun \in {NoRun, serviceRun}

=============================================================================
