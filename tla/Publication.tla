------------------------------ MODULE Publication ------------------------------
(***************************************************************************)
(* The publish node of graph/nodes/publish.py with the claims of           *)
(* incident_publications (webhook/incident_store.py) and the request loop  *)
(* of utils/resilience.py.  A run is one execution of the node with        *)
(* external publishing enabled; the graph may run it again for the same    *)
(* draft after a crash, after an error, or at the same time elsewhere.     *)
(***************************************************************************)
EXTENDS Naturals

CONSTANTS
    Runs,          \* executions of the publish node
    Keys,          \* publication keys: an incident and the digest of a draft
    Destinations,  \* the PUBLISH_* flags that are set
    Attempts,      \* retry_attempts of each destination's request policy
    None

Providers == {"slack", "github", "jira"}

ASSUME PublicationAssumption ==
    /\ Destinations \subseteq Providers /\ Destinations # {}
    /\ Attempts \in [Destinations -> Nat \ {0}]
    /\ None \notin Runs

VARIABLES
    publications,  \* the incident_publications row of each key
    runs,          \* the publish node's runs
    delivered      \* how often each provider got each draft

vars == <<publications, runs, delivered>>

NoTries == [d \in Destinations |-> 0]
RunNew == [pc |-> "new", key |-> None, left |-> {}, tries |-> NoTries]

-----------------------------------------------------------------------------
(* begin_publication: the insert, or the row that is there already.  The   *)
(* attempt token is the run that drew it.                                  *)
Existing(k) == publications[k].status

Begin(r, k) ==
    /\ runs[r].pc = "new"
    /\ Existing(k) = "none"
    /\ publications' = [publications EXCEPT ![k] = [status |-> "started", token |-> r]]
    /\ runs' = [runs EXCEPT ![r] = [pc |-> "sending", key |-> k,
                                    left |-> Destinations, tries |-> NoTries]]
    /\ UNCHANGED delivered

(* A completed row is answered with its issue URL, any other one is an     *)
(* error that leaves the row to an operator.  (A definition named after    *)
(* the next one with a suffix is a mutated form of it.)                    *)
Outcome_Lenient(status) ==
    IF status = "uncertain" THEN "raised" ELSE "deduplicated"
Outcome(status) == IF status = "completed" THEN "deduplicated" ELSE "raised"

BeginAgain(r, k) ==
    /\ runs[r].pc = "new"
    /\ Existing(k) # "none"
    /\ runs' = [runs EXCEPT ![r] = [pc |-> Outcome(Existing(k)), key |-> k,
                                    left |-> {}, tries |-> NoTries]]
    /\ UNCHANGED <<publications, delivered>>

-----------------------------------------------------------------------------
(* Slack, then GitHub, then Jira.                                          *)
Rank == [slack |-> 1, github |-> 2, jira |-> 3]
Due(r, d) ==
    /\ runs[r].pc = "sending"
    /\ d \in runs[r].left
    /\ \A e \in runs[r].left : Rank[d] <= Rank[e]

(* The provider got the request, whatever the run gets to know of it.      *)
Reaches(k, d, reached) ==
    delivered' = IF reached
                 THEN [delivered EXCEPT ![k][d] = @ + 1]
                 ELSE delivered

Acknowledged(r, d) ==
    /\ Due(r, d)
    /\ Reaches(runs[r].key, d, TRUE)
    /\ runs' = [runs EXCEPT ![r].left = @ \ {d}]
    /\ UNCHANGED publications

(* A timeout, a broken connection or a 5xx: the request is sent again.     *)
MoreTries_OneTooMany(r, d) == runs[r].tries[d] < Attempts[d]
MoreTries(r, d) == runs[r].tries[d] + 1 < Attempts[d]

SendAgain(r, d, reached) ==
    /\ Due(r, d)
    /\ MoreTries(r, d)
    /\ Reaches(runs[r].key, d, reached)
    /\ runs' = [runs EXCEPT ![r].tries[d] = @ + 1]
    /\ UNCHANGED publications

(* The destination raises: after its last attempt, for an open circuit or  *)
(* a refusal (401, 403, 429, 4xx: not delivered), or because the answer to *)
(* a delivered request cannot be read (GitHub's and Jira's are parsed).    *)
Raises(r, d, reached) ==
    /\ Due(r, d)
    /\ reached /\ d = "slack" => ~MoreTries(r, d)
    /\ Reaches(runs[r].key, d, reached)
    /\ runs' = [runs EXCEPT ![r].pc = "failing"]
    /\ UNCHANGED publications

-----------------------------------------------------------------------------
(* complete_publication and mark_publication_uncertain update the row only *)
(* while it is "started" with the token of this run.                       *)
Owned_AnyStatus(r) == publications[runs[r].key].token = r
Owned(r) == publications[runs[r].key] = [status |-> "started", token |-> r]

SetStatus(r, status) ==
    publications' = [publications EXCEPT ![runs[r].key].status = status]

AllSent(r) == runs[r].pc = "sending" /\ runs[r].left = {}

(* The commit is acknowledged, or its acknowledgement is lost and the node *)
(* handles the exception like any other.                                   *)
Complete(r, outcome) ==
    /\ AllSent(r)
    /\ Owned(r)
    /\ SetStatus(r, "completed")
    /\ runs' = [runs EXCEPT ![r].pc = outcome]
    /\ UNCHANGED delivered

(* The exception handler of the node, then the exception goes on.          *)
MarkUncertain(r) ==
    /\ runs[r].pc = "failing"
    /\ IF Owned(r) THEN SetStatus(r, "uncertain") ELSE UNCHANGED publications
    /\ runs' = [runs EXCEPT ![r].pc = "raised"]
    /\ UNCHANGED delivered

(* The process dies, or the database is gone when the row should be marked.*)
Crash(r) ==
    /\ runs[r].pc \in {"sending", "failing"}
    /\ runs' = [runs EXCEPT ![r].pc = "crashed"]
    /\ UNCHANGED <<publications, delivered>>

-----------------------------------------------------------------------------
Init ==
    /\ publications = [k \in Keys |-> [status |-> "none", token |-> None]]
    /\ runs = [r \in Runs |-> RunNew]
    /\ delivered = [k \in Keys |-> NoTries]

Request(r, d) ==
    \/ Acknowledged(r, d)
    \/ \E reached \in BOOLEAN : SendAgain(r, d, reached) \/ Raises(r, d, reached)

Run(r) ==
    \/ \E k \in Keys : Begin(r, k) \/ BeginAgain(r, k)
    \/ \E d \in Destinations : Request(r, d)
    \/ \E outcome \in {"published", "failing"} : Complete(r, outcome)
    \/ MarkUncertain(r)
    \/ Crash(r)

Next == \E r \in Runs : Run(r)

Spec == Init /\ [][Next]_vars

-----------------------------------------------------------------------------
(* Properties.                                                             *)

Row == [status: {"none", "started", "uncertain", "completed"},
        token: Runs \cup {None}]
Running == {"sending", "failing"}
RunRow == [pc: Running \cup {"new", "published", "deduplicated", "raised", "crashed"},
           key: Keys \cup {None}, left: SUBSET Destinations,
           tries: [Destinations -> Nat]]

(* Rows and runs keep the shape the code gives them.                       *)
TypeOK ==
    /\ publications \in [Keys -> Row]
    /\ runs \in [Runs -> RunRow]
    /\ delivered \in [Keys -> [Destinations -> Nat]]

(* A run that tells the graph that the draft is published, because it sent *)
(* it or because the table says so, is right: every destination has it.    *)
ReportedIsDelivered ==
    \A r \in Runs : runs[r].pc \in {"published", "deduplicated"} =>
       \A d \in Destinations : delivered[runs[r].key][d] > 0

(* The node keeps what the guard promises, with the retries of the request *)
(* loop as the bound of deliveries.                                        *)
Guard == INSTANCE PublicationGuard WITH
            stage <- [k \in Keys |-> IF Existing(k) = "none" THEN "new" ELSE Existing(k)],
            effects <- delivered, Limit <- Attempts
GuardSpec == Guard!Spec

(* The parts of the inductive invariant (PublicationProofs): a run at work *)
(* owns its row unless it completed it, a destination still to be sent to  *)
(* has got no more than the attempts made, the others have got the draft.  *)
OwnsRow(r) ==
    runs[r].pc \in Running =>
       /\ runs[r].key \in Keys
       /\ publications[runs[r].key].token = r
       /\ Existing(runs[r].key) # "none"
       /\ runs[r].pc = "sending" => Existing(runs[r].key) = "started"
CountsTries(r) ==
    runs[r].pc = "sending" =>
       \A d \in Destinations :
          IF d \in runs[r].left
          THEN /\ runs[r].tries[d] < Attempts[d]
               /\ delivered[runs[r].key][d] <= runs[r].tries[d]
          ELSE delivered[runs[r].key][d] > 0
UnclaimedUndelivered ==
    \A k \in Keys : Existing(k) = "none" => delivered[k] = NoTries
CompletedDelivered ==
    \A k \in Keys : Existing(k) = "completed" =>
       \A d \in Destinations : delivered[k][d] > 0
ReportedCompleted ==
    \A r \in Runs : runs[r].pc \in {"published", "deduplicated"} =>
       runs[r].key \in Keys /\ Existing(runs[r].key) = "completed"

(* One claim per draft, and the deliveries it accounts for.                *)
GuardInv ==
    /\ TypeOK
    /\ \A r \in Runs : OwnsRow(r) /\ CountsTries(r)
    /\ UnclaimedUndelivered
    /\ CompletedDelivered
    /\ ReportedCompleted
=============================================================================
