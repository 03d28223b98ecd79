------------------------------ MODULE JobTurns ------------------------------
(***************************************************************************)
(* What the job tables promise the workers, whatever crashes, stalls and   *)
(* late acknowledgements there are.  A job is admitted only while the      *)
(* queue has room.  At most one job of an incident is worked on at a time: *)
(* a turn goes to one worker, is never taken over while that worker holds  *)
(* it, and ends with the job's outcome or by running out; a job whose turn *)
(* ran out may get another.  An outcome is final.                          *)
(***************************************************************************)
EXTENDS Naturals, FiniteSets

CONSTANTS Jobs, Incidents, Workers, Capacity, None

VARIABLES
    stage,      \* of each job
    incident,   \* of each job that was admitted
    holder      \* the worker whose turn it is on the job, or None

vars == <<stage, incident, holder>>

Init == /\ stage = [j \in Jobs |-> "absent"]
        /\ incident = [j \in Jobs |-> None]
        /\ holder = [j \in Jobs |-> None]

Unfinished == {j \in Jobs : stage[j] \in {"pending", "leased"}}

Admit(j, i) == /\ stage[j] = "absent"
               /\ Cardinality(Unfinished) < Capacity
               /\ stage' = [stage EXCEPT ![j] = "pending"]
               /\ incident' = [incident EXCEPT ![j] = i]
               /\ UNCHANGED holder

Begin(j, w) == /\ j \in Unfinished
               /\ \A k \in Jobs : incident[k] = incident[j] => holder[k] = None
               /\ stage' = [stage EXCEPT ![j] = "leased"]
               /\ holder' = [holder EXCEPT ![j] = w]
               /\ UNCHANGED incident

(* Also late: an outcome may come after the turn ran out.                  *)
End(j, outcome) == /\ stage[j] = "leased"
                   /\ stage' = [stage EXCEPT ![j] = outcome]
                   /\ holder' = [holder EXCEPT ![j] = None]
                   /\ UNCHANGED incident

(* Some turns run out, at once.                                            *)
RunOut == /\ UNCHANGED <<stage, incident>>
          /\ holder' \in [Jobs -> Workers \cup {None}]
          /\ \A j \in Jobs : holder'[j] \in {holder[j], None}

Next ==
    \/ RunOut
    \/ \E j \in Jobs : \/ \E i \in Incidents : Admit(j, i)
                       \/ \E w \in Workers : Begin(j, w)
                       \/ \E outcome \in {"pending", "completed", "dead_letter"} :
                             End(j, outcome)

Spec == Init /\ [][Next]_vars
=============================================================================
