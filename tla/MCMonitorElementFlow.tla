-------------------------- MODULE MCMonitorElementFlow --------------------------
(* Instances of MonitorElementFlow for TLC. *)
EXTENDS MonitorElementFlow, TLC

\* One module application.
OneModule == 1 :> "ECAL"

=============================================================================
