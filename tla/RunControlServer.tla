--------------------------- MODULE RunControlServer ---------------------------
(***************************************************************************)
(* The run control server with its HTTP interface: the run control object  *)
(* in a process with three threads.                                        *)
(*   - main runs RunControlServer::run, waits, shuts everything down and   *)
(*     destroys the run control; the Ctrl+C handler interrupts it;         *)
(*   - the HTTP thread, one for the Mongoose server with its default       *)
(*     options, handles the posts that start and end runs;                 *)
(*   - the thread of the network server answers status requests.           *)
(*                                                                         *)
(* "pc" of RunControl is where the HTTP thread stands.  Mongoose's stop()  *)
(* waits for the post that is being handled, the network server's for the  *)
(* status request; the object has no lock.                                 *)
(***************************************************************************)
EXTENDS RunControl

CONSTANTS
  MaxInterrupts, \* bound: Ctrl+C
  MaxStatus      \* bound: status requests

ASSUME ServerBoundsAssumption == {MaxInterrupts, MaxStatus} \subseteq Nat

VARIABLES
  main,        \* where the main thread stands
  interface,   \* m_interface is not null
  stopFlag,    \* HttpRunControl::m_stopFlag
  services,    \* m_pSorService and m_pEorService are not null
  post,        \* the post being handled or handled last
  answer,      \* its answer
  reading,     \* a status request is between its two reads
  statusRun,   \* what it read of m_run
  status,      \* the last status answer
  interrupts, requests  \* what the bounds count

httpVars   == <<post, answer>>
statusVars == <<reading, statusRun, status, requests>>
lifeVars   == <<main, interface, stopFlag, services, interrupts>>
serverVars == <<vars, httpVars, statusVars, lifeVars>>

-----------------------------------------------------------------------------
(* The HTTP thread. *)

Answer(text) == answer' = text

HttpIdle == main = "serving" /\ pc = "idle" /\ answer # "none"

\* A post for a start of run that has no run number.
PostStartWithoutNumber ==
  /\ HttpIdle /\ calls < MaxCalls
  /\ calls' = calls + 1
  /\ post' = "SOR" /\ Answer("ERROR")
  /\ UNCHANGED <<running, run, settings, pc, next, early, given, result, messages,
                 statusVars, lifeVars>>

\* receiveStartOfRunPost, up to the first effect of startNewRun.
PostStart(r, pwd) ==
  /\ HttpIdle
  /\ StartNewRun(r, pwd, TRUE)
  /\ post' = "SOR" /\ Answer("none")
  /\ UNCHANGED <<statusVars, lifeVars>>

\* receiveEndOfRunPost, up to the first effect of endCurrentRun.
PostEnd(pwd) ==
  /\ HttpIdle
  /\ running
  /\ EndCurrentRun(pwd)
  /\ post' = "EOR" /\ Answer("none")
  /\ UNCHANGED <<statusVars, lifeVars>>

\* receiveEndOfRunPost without a current run.
PostEndNotRunning ==
  /\ HttpIdle /\ calls < MaxCalls
  /\ ~running
  /\ calls' = calls + 1
  /\ post' = "EOR" /\ Answer("ERROR")
  /\ UNCHANGED <<running, run, settings, pc, next, early, given, result, messages,
                 statusVars, lifeVars>>

\* One assignment or signal of the call that the handler makes.
HttpEffect ==
  /\ Effect
  /\ UNCHANGED <<httpVars, statusVars, lifeVars>>

\* RunControlInterface drops the status code: the answer is always the same.
FinishPost ==
  /\ pc = "idle" /\ answer = "none"
  /\ Answer("SUCCESS")
  /\ UNCHANGED <<vars, post, statusVars, lifeVars>>

-----------------------------------------------------------------------------
(* The network server's thread: sendCurrentRun reads m_run, then m_running. *)

StatusReadRun ==
  /\ main \in {"serving", "closing"} /\ ~reading /\ requests < MaxStatus
  /\ requests' = requests + 1
  /\ reading' = TRUE /\ statusRun' = run
  /\ UNCHANGED <<vars, httpVars, status, lifeVars>>

StatusAnswer ==
  /\ reading
  /\ reading' = FALSE
  /\ status' = [running |-> running, run |-> statusRun]
  /\ UNCHANGED <<vars, httpVars, statusRun, requests, lifeVars>>

-----------------------------------------------------------------------------
(* The main thread, and the Ctrl+C handler that interrupts it. *)

\* run(), up to the creation of the interface.  m_stopFlag of the server, which it
\* clears, is not looked at with an interface that blocks.  Without the plugin it throws,
\* and the program ends with the code that its main catches.
CreateInterface ==
  /\ main = "starting"
  /\ \/ interface' = TRUE /\ main' = "configuring"
     \/ UNCHANGED interface /\ main' = "closed"
  /\ UNCHANGED <<vars, httpVars, statusVars, stopFlag, services, interrupts>>

\* run(), from the creation of the services to the loop of HttpRunControl::run.
StartServing ==
  /\ main = "configuring"
  /\ services' = TRUE /\ main' = "serving"
  /\ UNCHANGED <<vars, httpVars, statusVars, interface, stopFlag, interrupts>>

\* What Mongoose's stop() waits for.
HttpStopped == pc = "idle" /\ answer # "none"

\* Mutant: run() leaves without stopping the HTTP server.
LeaveInterface_NoStop ==
  /\ main = "serving" /\ stopFlag
  /\ main' = "closing"
  /\ UNCHANGED <<vars, httpVars, statusVars, interface, stopFlag, services, interrupts>>

\* Mutant: the loop of run() goes on while there is a run.
LeaveInterface_RunOver ==
  /\ main = "serving" /\ stopFlag /\ HttpStopped /\ ~running
  /\ main' = "closing"
  /\ UNCHANGED <<vars, httpVars, statusVars, interface, stopFlag, services, interrupts>>

\* The end of HttpRunControl::run: server.stop().
LeaveInterface ==
  /\ main = "serving" /\ stopFlag /\ HttpStopped
  /\ main' = "closing"
  /\ UNCHANGED <<vars, httpVars, statusVars, interface, stopFlag, services, interrupts>>

\* The end of RunControlServer::run: the network server stops, the services go.
CloseServer ==
  /\ main = "closing" /\ ~reading
  /\ services' = FALSE /\ main' = "closed"
  /\ UNCHANGED <<vars, httpVars, statusVars, interface, stopFlag, interrupts>>

\* ~RunControl with a run going on ends it: the signal reaches
\* RunControlServer::eor, which sends through the null m_pEorService, and the
\* process dies without announcing anything.
Destroy ==
  /\ main = "closed"
  /\ main' = "gone" /\ interface' = FALSE
  /\ UNCHANGED <<vars, httpVars, statusVars, stopFlag, services, interrupts>>

\* RunControlServer::stop tells the interface, if there is one.  Its own flag is
\* not looked at while a blocking interface runs.
StopInterface == stopFlag' = (stopFlag \/ interface)

\* The handler of SIGINT calls stop().
Interrupt ==
  /\ main # "gone" /\ interrupts < MaxInterrupts
  /\ interrupts' = interrupts + 1
  /\ StopInterface
  /\ UNCHANGED <<vars, httpVars, statusVars, main, interface, services>>

-----------------------------------------------------------------------------

\* The password, if any, is set on the command line before run().
ServerInit ==
  /\ running = FALSE /\ run = NoRun
  /\ name \in Name /\ password \in AnyPassword
  /\ pc = "idle" /\ next = NoRun /\ early = FALSE /\ given = NoPassword
  /\ result = "SUCCESS" /\ messages = <<>> /\ calls = 0
  /\ main = "starting" /\ interface = FALSE /\ stopFlag = FALSE /\ services = FALSE
  /\ post = "none" /\ answer = "SUCCESS"
  /\ reading = FALSE /\ statusRun = NoRun
  /\ status = [running |-> FALSE, run |-> NoRun]
  /\ interrupts = 0 /\ requests = 0

HttpStep ==
  \/ PostStartWithoutNumber \/ PostEndNotRunning
  \/ \E pwd \in AnyPassword : PostEnd(pwd) \/ \E r \in Run : PostStart(r, pwd)
  \/ HttpEffect \/ FinishPost

StatusStep == StatusReadRun \/ StatusAnswer

MainStep ==
  \/ CreateInterface \/ StartServing \/ LeaveInterface \/ CloseServer \/ Destroy

ServerNext == HttpStep \/ StatusStep \/ MainStep \/ Interrupt

\* Each of the threads goes on; posts, requests and Ctrl+C come or not.
ServerFairness ==
  /\ WF_serverVars(HttpEffect)
  /\ WF_serverVars(FinishPost)
  /\ WF_serverVars(StatusAnswer)
  /\ WF_serverVars(MainStep)

ServerSpec == ServerInit /\ [][ServerNext]_serverVars /\ ServerFairness

-----------------------------------------------------------------------------
(* Properties *)

ServerTypeOK ==
  /\ TypeOK
  /\ main \in {"starting", "configuring", "serving", "closing", "closed", "gone"}
  /\ interface \in BOOLEAN /\ stopFlag \in BOOLEAN
  /\ services \in BOOLEAN /\ reading \in BOOLEAN
  /\ post \in {"none", "SOR", "EOR"} /\ answer \in {"none", "ERROR", "SUCCESS"}
  /\ statusRun \in Run \cup {NoRun}
  /\ status \in [running : BOOLEAN, run : Run \cup {NoRun}]
  /\ interrupts \in 0 .. MaxInterrupts /\ requests \in 0 .. MaxStatus

\* A post is handled only while the interface runs, and the services outlive it.
PostsWhileServing ==
  /\ pc # "idle" \/ answer = "none" => main = "serving"
  /\ main = "serving" => services

\* The inductive invariant of the proofs.
ServerInv == RunInv /\ ServerTypeOK /\ PostsWhileServing

\* A signal is processed only while the services its listener sends through exist,
\* whatever moment Ctrl+C comes at.
ServicesAliveAtSignals ==
  pc \in {"ending", "signalling"} => services

\* Ctrl+C stops the server, once the interface is there to be told, whatever posts
\* and status requests are being handled and whether or not a run goes on.
InterruptStops == stopFlag ~> main = "gone"

=============================================================================
