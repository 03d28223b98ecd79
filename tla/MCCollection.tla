---------------------------- MODULE MCCollection ----------------------------
(* Small instances of Collection for TLC.                                  *)
EXTENDS Collection, TLC

CONSTANTS a, b

(* A silent window, one with gaps and no signals, and one with             *)
(* more lines than the sample may hold.                                    *)
SomeWindows == {{}, {0, 1, 3, 4, 7}, 0 .. 7}
ThreadSymmetry == Permutations(Collectors)
=============================================================================
