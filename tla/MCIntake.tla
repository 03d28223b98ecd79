------------------------------ MODULE MCIntake ------------------------------
(* Small instances of Intake for TLC.                                      *)
EXTENDS Intake, TLC

CONSTANTS p1, p2, r1, r2, r3, a1, a2, a3, a4

(* The first two batches share an alert and meet at other buckets too; one *)
(* holds an alert with an id of its own, the other ends at an alert of     *)
(* another tenant; the third request is not understood.                    *)
SomeBatches == (r1 :> <<a1, a4>>) @@ (r2 :> <<a2, a1, a3>>) @@ (r3 :> <<a2>>)
SomeStamps == (r1 :> 0) @@ (r2 :> 1) @@ (r3 :> 1)
SomeCallers == (r1 :> "one") @@ (r2 :> "one") @@ (r3 :> "other")
SomeLimits == ("global" :> 2) @@ ("one" :> 1) @@ ("other" :> 1)
SomeKeys == (a1 :> "x") @@ (a2 :> "y") @@ (a3 :> "y") @@ (a4 :> "y")
OneSupplied == (a1 :> 0) @@ (a2 :> 0) @@ (a3 :> 0) @@ (a4 :> 9)
ProcessSymmetry == Permutations(Processes)
=============================================================================
