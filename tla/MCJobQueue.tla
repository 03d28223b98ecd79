---------------------------- MODULE MCJobQueue ----------------------------
(* Small instances of JobQueue for TLC.                                    *)
EXTENDS JobQueue, TLC

CONSTANTS i1, i2, a1, a2, a3, w1, w2, c1

(* Two alerts of one bucket and one of another.                            *)
TwoBuckets == (a1 :> i1) @@ (a2 :> i1) @@ (a3 :> i2)

(* Three alerts of one bucket: a burst.                                    *)
Burst == (a1 :> i1) @@ (a2 :> i1) @@ (a3 :> i1)

WorkerSymmetry == Permutations(Workers)
=============================================================================
