----------------------- MODULE MCMonitorElementCollector -----------------------
(* Instances of MonitorElementCollector for TLC. *)
EXTENDS MonitorElementCollector, TLC

\* Each of the applications 1 and 2 serves a module of its own.
OwnNames == (1 :> "ECAL") @@ (2 :> "HCAL")

\* The applications 1 and 2 give their module the same name, 3 serves another one.
SharedName == (1 :> "ECAL") @@ (2 :> "ECAL") @@ (3 :> "HCAL")

\* Viewers and elements are interchangeable.
Symmetry == Permutations(Viewer) \cup Permutations(Element)
=============================================================================
