---------------------------- MODULE ModuleProtocol ----------------------------
(***************************************************************************)
(* What the author of an analysis or a standalone module may count on: in  *)
(* which order the application calls the module, and with which run.       *)
(* initModule comes first, events and cycles come inside a run when there  *)
(* are runs, the elements are published after the end of a cycle.          *)
(***************************************************************************)
CONSTANTS
  Number,    \* run numbers
  NoNumber   \* no run

VARIABLES
  call,  \* the last call of the module, or "publish" for its elements
  run    \* the run that was given to startOfRun and not to endOfRun

ProtocolInit == call = "none" /\ run = NoNumber

InitModule == call = "none" /\ call' = "initModule" /\ UNCHANGED run

StartOfRun ==
  /\ call \in {"initModule", "endOfRun"}
  /\ call' = "startOfRun"
  /\ run' \in Number

\* In a run, or in a module that knows no runs.
StartOfCycle ==
  /\ call \in {"initModule", "startOfRun", "publish"}
  /\ call' = "startOfCycle" /\ UNCHANGED run

Process ==
  /\ call \in {"startOfCycle", "process"}
  /\ call' = "process" /\ UNCHANGED run

EndOfCycle ==
  /\ call \in {"startOfCycle", "process"}
  /\ call' = "endOfCycle" /\ UNCHANGED run

Publish == call = "endOfCycle" /\ call' = "publish" /\ UNCHANGED run

EndOfRun ==
  /\ run \in Number
  /\ call \in {"startOfRun", "publish"}
  /\ call' = "endOfRun"
  /\ run' = NoNumber

EndModule ==
  /\ run = NoNumber
  /\ call \in {"initModule", "publish"}
  /\ call' = "endModule" /\ UNCHANGED run

ProtocolNext ==
  \/ InitModule \/ StartOfRun \/ StartOfCycle \/ Process \/ EndOfCycle \/ Publish
  \/ EndOfRun \/ EndModule

ProtocolSpec == ProtocolInit /\ [][ProtocolNext]_<<call, run>>

=============================================================================
