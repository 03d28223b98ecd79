---------------------------- MODULE MCPublication ----------------------------
(* Small instances of Publication for TLC.                                 *)
EXTENDS Publication, TLC

AllDestinations == Providers

(* settings.py: two attempts, Jira's client makes one.                     *)
DefaultAttempts == [d \in Destinations |-> IF d = "jira" THEN 1 ELSE 2]

(* Runs and keys are interchangeable: nothing orders or chooses them.      *)
RunSymmetry == Permutations(Runs) \cup Permutations(Keys)
=============================================================================
