-------------------------- MODULE MCIncidentReview --------------------------
(* Small instances of IncidentReview for TLC.                              *)
EXTENDS IncidentReview, TLC

CONSTANTS d1, d2

(* One API process serves all requests, or one each.                       *)
OneProcess == [q \in Requests |-> "api"]
OwnProcess == [q \in Requests |-> q]

(* No draft holds anything to redact, or d2 does and d1 is what is left.   *)
Clean == [d \in Drafts |-> d]
SecondRedacted == [d \in Drafts |-> IF d = d2 THEN d1 ELSE d]

(* Requests are interchangeable: OneProcess does not tell them apart and   *)
(* OwnProcess gives each a process of its own name.                        *)
RequestSymmetry == Permutations(Requests)
=============================================================================
