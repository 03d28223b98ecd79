-------------------------- MODULE MCRevisionStore --------------------------
(* Small instances of RevisionStore for TLC.                               *)
EXTENDS RevisionStore, TLC

CONSTANTS i1, j1, j2, j3

(* All jobs belong to the same incident, and j3 tells of its resolution.   *)
OneIncident == [j \in Jobs |-> i1]
LastResolves == Jobs \cap {j3}

(* Workers and contents are interchangeable, and so are the jobs of firing *)
(* alerts of one incident.                                                 *)
StoreSymmetry == Permutations(Workers) \cup Permutations(Contents)
                    \cup Permutations({j1, j2})
=============================================================================
