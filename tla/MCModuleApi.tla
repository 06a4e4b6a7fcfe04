------------------------------ MODULE MCModuleApi ------------------------------
(* Instance of ModuleApi for TLC. *)
EXTENDS ModuleApi, TLC

CONSTANTS e1, e2, e3

\* Two elements in one directory, one in the root.
Places == (e1 :> "energy") @@ (e2 :> "energy") @@ (e3 :> Root)
=============================================================================
