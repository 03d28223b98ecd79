---------------------------- MODULE PublicationGuard ----------------------------
(***************************************************************************)
(* What the publication table promises about an approved draft and the     *)
(* providers it goes to, whatever runs, crashes and lost acknowledgements  *)
(* there are: a draft is attempted once, a provider gets it at most        *)
(* Limit[d] times and only during that attempt, and the attempt is         *)
(* reported complete only when every provider has it.  With Limit[d] = 1   *)
(* this is the at-most-once attempt guard of README.md.                    *)
(***************************************************************************)
EXTENDS Naturals

CONSTANTS Keys, Destinations, Limit

VARIABLES stage, effects   \* of each key, of each key and destination
vars == <<stage, effects>>

Init == /\ stage = [k \in Keys |-> "new"]
        /\ effects = [k \in Keys |-> [d \in Destinations |-> 0]]

Moves(k, from, to) == /\ stage[k] = from
                      /\ stage' = [stage EXCEPT ![k] = to]
                      /\ UNCHANGED effects

Attempt(k) == Moves(k, "new", "started")

Deliver(k, d) == /\ stage[k] = "started"
                 /\ effects[k][d] < Limit[d]
                 /\ effects' = [effects EXCEPT ![k][d] = @ + 1]
                 /\ UNCHANGED stage

Complete(k) == /\ \A d \in Destinations : effects[k][d] > 0
               /\ Moves(k, "started", "completed")

GiveUp(k) == Moves(k, "started", "uncertain")

Next == \E k \in Keys : \/ Attempt(k) \/ Complete(k) \/ GiveUp(k)
                        \/ \E d \in Destinations : Deliver(k, d)

Spec == Init /\ [][Next]_vars
=============================================================================
