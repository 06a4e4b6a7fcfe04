-------------------------- MODULE MCRunControlServer --------------------------
(***************************************************************************)
(* The instance of RunControlServer for TLC: the server, or a run control  *)
(* in a program of one thread that has no server and makes every call that *)
(* RunControl.h offers, in any order.                                      *)
(***************************************************************************)
EXTENDS RunControlServer

\* The listeners of such a program are there as long as its run control is.
AloneInit ==
  /\ Init
  /\ main = "alone" /\ interface = FALSE /\ stopFlag = FALSE /\ services = TRUE
  /\ post = "none" /\ answer = "SUCCESS"
  /\ reading = FALSE /\ statusRun = NoRun
  /\ status = [running |-> FALSE, run |-> NoRun]
  /\ interrupts = MaxInterrupts /\ requests = MaxStatus

AloneCall ==
  /\ main = "alone"
  /\ Calls
  /\ UNCHANGED <<httpVars, statusVars, lifeVars>>

\* HttpEffect has the effects of the calls in both programs.
MCSpec ==
  /\ ServerInit \/ AloneInit
  /\ [][ServerNext \/ AloneCall]_serverVars
  /\ ServerFairness

=============================================================================
