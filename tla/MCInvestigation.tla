--------------------------- MODULE MCInvestigation ---------------------------
(* Small instances of Investigation for TLC.                               *)
EXTENDS Investigation, TLC

CONSTANTS local, remote

(* A search of the incident's own logs is free, another service costs one. *)
UnitCost == (local :> 0) @@ (remote :> 1)
=============================================================================
