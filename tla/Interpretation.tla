--------------------------- MODULE Interpretation ---------------------------
(***************************************************************************)
(* What one thread of the graph concludes from its evidence: the           *)
(* deterministic assessment (utils/signal_observations.py,                 *)
(* candidate_scoring.py), the correlation and the interpretation of a      *)
(* model after validation (semantic_report.py, interpretation_contract.py),*)
(* the review of it (review_gate.py, webhook/api.py) and the hypothesis    *)
(* that is explained (nodes/deep_rca.py).  Targeted queries change the     *)
(* evidence between the correlation and the interpretation, and a new      *)
(* alert starts the thread again with its old channels; budgets and the    *)
(* decisions of several reviewers are in Investigation and IncidentReview. *)
(*                                                                         *)
(* A picture is what aggregation leaves of the logs: a sequence of groups  *)
(* with what the scoring looks at, and the points of the traffic rule.     *)
(***************************************************************************)
EXTENDS Integers, FiniteSets, Sequences

CONSTANTS
    Events,       \* event ids: digests of a group's labels, the same in all pictures
    AlertEvent,   \* the alert is a node of every evidence graph
    External,     \* a reference "external:..." of a model
    Unknown,      \* any other reference that is no event
    Pictures,     \* what collection and targeted queries may find
    Links,        \* <<cause, effect>>: links of correlation reports
    Proposals,    \* hypotheses of model answers
    Steps,        \* next steps of model answers
    None,
    MaxHypotheses, MaxRounds, MaxReviews, MaxRuns    \* bounds, see README

Refs == Events \cup {AlertEvent, External, Unknown}
Causes == {"machine_down", "network_disconnection", "disk_full"}
Outcomes == {"failed", "succeeded", "started"}
Confidences == {"low", "medium", "high"}
ClaimStatus == {"observed", "inferred", "hypothesis", "unknown"}

Group == [event: Events,
          signal: Causes \cup {None},      \* its direct signal, if any
          outcome: Outcomes \cup {None},   \* its lifecycle signal, if any
          workload: Nat, execution: Nat,   \* 0: not known
          first: Nat, last: Nat,
          ordered: BOOLEAN,                \* its times compare with other groups'
          effect: BOOLEAN,                 \* its text says that an operation failed
          detection: 0..100,               \* points of its detection rule, 0: none
          upstream: BOOLEAN]               \* its labels name a dependency
Picture == [groups: Seq(Group), traffic: 0..55]

Claim == [status: ClaimStatus, ids: SUBSET Refs]
Proposal == [rank: Nat, confidence: Confidences, support: SUBSET Refs,
             contradict: SUBSET Refs, cause: Claim, mechanism: Claim, impact: Claim]
(* What an action's wording makes of it, and how the model declared it.    *)
Step == [class: {"read_only", "proposal", "execution_claim", "unknown"},
         type: {"read_only", "proposal"}, approval: BOOLEAN]

ASSUME InterpretationAssumption ==
    /\ AlertEvent \notin Events /\ None \notin Events \cup Causes \cup Outcomes
    /\ {External, Unknown} \cap (Events \cup {AlertEvent}) = {} /\ External # Unknown
    /\ Pictures \subseteq Picture
    /\ Links \subseteq Refs \X Refs
    /\ Proposals \subseteq Proposal
    /\ Steps \subseteq Step
    /\ MaxHypotheses \in Nat /\ MaxRounds \in Nat /\ MaxReviews \in Nat /\ MaxRuns \in Nat

VARIABLES
    node,         \* the next node of the thread
    picture,      \* log_groups and what is computed from them
    failed,       \* a source has status "failed"; other gaps do not count
    truncated,    \* data_quality.logs.possibly_truncated
    assessment,   \* deterministic_assessment
    chain,        \* primary_chain of semantic_correlation
    shown,        \* interpretation_structured with its grounding
    pending,      \* candidates of the pending review row
    chosen,       \* chosen_hypothesis
    explained,    \* the candidate deep_rca works on
    rounds, reviews, runs                            \* counters of the bounds

vars == <<node, picture, failed, truncated, assessment, chain, shown, pending,
          chosen, explained, rounds, reviews, runs>>

Lesser(a, b) == IF a < b THEN a ELSE b
Highest(S) == CHOOSE n \in S : \A m \in S : m <= n

-----------------------------------------------------------------------------
(* Signals and outcomes: signal_observations.py.                           *)
GroupsOf(p) == {p.groups[i] : i \in DOMAIN p.groups}
Known(p) == {g.event : g \in GroupsOf(p)} \cup {AlertEvent}

Same(x, y) == x # 0 /\ x = y
ExecutionConflict(g, h) == g.execution # 0 /\ h.execution # 0 /\ g.execution # h.execution
EntityMatch(g, h) == Same(g.execution, h.execution) \/ Same(g.workload, h.workload)
NotBefore(g, h) == g.ordered /\ h.ordered /\ h.last >= g.first

(* A lifecycle group counts for a signal in its scope that it does not     *)
(* precede; a failure of another execution does not.                       *)
Accepted(g, h) ==
    /\ EntityMatch(g, h)
    /\ NotBefore(g, h)
    /\ ~(h.outcome = "failed" /\ ExecutionConflict(g, h))

Linked(p, g, outcome) ==
    {h.event : h \in {k \in GroupsOf(p) : k.outcome = outcome /\ Accepted(g, k)}}
Contradicting(p, g) == Linked(p, g, "started") \cup Linked(p, g, "succeeded")
SameEventEffect(g) == g.effect \/ g.signal # "machine_down"

(* An observed condition may be a cause when its impact shows: an adverse  *)
(* outcome, or its own effect that nothing contradicts.                    *)
Eligible(p, g) ==
    /\ g.signal # None
    /\ \/ Linked(p, g, "failed") # {}
       \/ SameEventEffect(g) /\ Contradicting(p, g) = {}

Impact(p, g) == Linked(p, g, "failed") \cup (IF SameEventEffect(g) THEN {g.event} ELSE {})

ObservedCauses(p) == {g.signal : g \in GroupsOf(p)} \ {None}

-----------------------------------------------------------------------------
(* Candidates: candidate_scoring.py.  `at` is the place in the list before *)
(* sorting: detections, signals, the dependency, the traffic.              *)
Candidate(at, category, events, score, impact, contradicting) ==
    [at |-> at, category |-> category, events |-> events, score |-> score,
     impact |-> impact, contradicting |-> contradicting]

SignalScore(p, g) ==
    LET score == IF Linked(p, g, "failed") # {} THEN 78
                 ELSE IF g.signal = "disk_full" THEN 68 ELSE 60
    IN IF Linked(p, g, "started") # {} THEN Lesser(score, 60) ELSE score

SignalCandidate(p, cause) ==
    LET at == {i \in DOMAIN p.groups :
                  p.groups[i].signal = cause /\ Eligible(p, p.groups[i])}
        its == {p.groups[i] : i \in at}
    IN Candidate(Len(p.groups) + CHOOSE i \in at : \A j \in at : i <= j, cause,
                 {g.event : g \in its}, Highest({SignalScore(p, g) : g \in its}),
                 UNION {Impact(p, g) : g \in its},
                 UNION {Contradicting(p, g) : g \in its})

Detections(p) ==
    {Candidate(i, "detected_failure", {p.groups[i].event}, p.groups[i].detection, {}, {}) :
        i \in {j \in DOMAIN p.groups : p.groups[j].detection > 0}}
Signals(p) ==
    {SignalCandidate(p, g.signal) : g \in {h \in GroupsOf(p) : Eligible(p, h)}}
Dependency(p) ==
    {Candidate(2 * Len(p.groups) + 1, "dependency_failure", {p.groups[i].event}, 42, {}, {}) :
        i \in {j \in DOMAIN p.groups :
                  /\ p.groups[j].upstream
                  /\ \A k \in 1..(j - 1) : ~p.groups[k].upstream}}
Traffic(p) ==
    {Candidate(2 * Len(p.groups) + 2, "traffic_change", {}, points, {}, {}) :
        points \in {p.traffic} \ {0}}

Collected(p) == Detections(p) \cup Signals(p) \cup Dependency(p) \cup Traffic(p)

(* Candidates of the same events are one: the first keeps its fields and   *)
(* gets the best score.                                                    *)
SameCause(c, d) == c = d \/ (c.events = d.events /\ c.events # {})
Merged(p) ==
    {[c EXCEPT !.score = Highest({d.score : d \in {e \in Collected(p) : SameCause(c, e)}})] :
        c \in {d \in Collected(p) : \A e \in Collected(p) : SameCause(d, e) => d.at <= e.at}}

Precedes(c, d) == c.score > d.score \/ (c.score = d.score /\ c.at < d.at)
Rank(p, c) == 1 + Cardinality({d \in Merged(p) : Precedes(d, c)})
Capped(c, missing) == [c EXCEPT !.score = Lesser(@, IF missing THEN 60 ELSE 100)]
Ranked(p, missing) ==
    [r \in 1..Lesser(3, Cardinality(Merged(p))) |->
        Capped(CHOOSE c \in Merged(p) : Rank(p, c) = r, missing)]

(* The best candidate leads every other one by 15 points.  (The code takes *)
(* the gap of the capped scores; where the cap matters it abstains anyway.)*)
Leads(p, c) == \A d \in Merged(p) \ {c} : c.score - d.score >= 15

Abstains(p, missing) ==
    \/ ~\E c \in Merged(p) : Leads(p, c)
    \/ missing
    \/ \E a, b \in ObservedCauses(p) : a # b

(* What contradicts a candidate is a weakness of it, no reason to abstain. *)
Assess(p, missing) == [candidates |-> Ranked(p, missing), abstain |-> Abstains(p, missing)]
Unassessed == [candidates |-> <<>>, abstain |-> TRUE]

-----------------------------------------------------------------------------
(* Grounding: interpretation_contract.py.                                  *)
Ends(link) == {link[1], link[2]}

(* Evidence that may support each field of a hypothesis.                   *)
CauseRole(c) == c.events \cap Known(picture)
ImpactRole(c) == c.impact \cap Known(picture)
CrossLinks(c) ==
    {l \in chain : /\ Cardinality(Ends(l) \cap Known(picture)) >= 2
                   /\ Ends(l) \cap CauseRole(c) # {}}
MechanismRole(c) == UNION {Ends(l) \cap Known(picture) : l \in CrossLinks(c)}

Support_Unfiltered(c, h) == h.support
Support(c, h) == h.support \cap (CauseRole(c) \cup MechanismRole(c) \cup ImpactRole(c))

Grounds(claim, ids) == claim.ids # {} /\ claim.ids \subseteq ids

(* A claim with what its field may at most be.                             *)
Settled(claim, grounded, ids, most) ==
    IF ~grounded THEN [status |-> "unknown", ids |-> claim.ids \cap ids, accepted |-> FALSE]
    ELSE [status |-> IF claim.status = "observed" THEN most ELSE claim.status,
          ids |-> claim.ids, accepted |-> TRUE]

CauseGrounded(c, h) == Grounds(h.cause, CauseRole(c) \cap Support(c, h))
MechanismGrounded(c, h) ==
    /\ Grounds(h.mechanism, MechanismRole(c) \cap Support(c, h))
    /\ \E l \in chain : Ends(l) \subseteq h.mechanism.ids
ImpactGrounded(c, h) == Grounds(h.impact, ImpactRole(c) \cap Support(c, h))

Confidence(label) ==
    IF failed THEN "low"
    ELSE IF truncated /\ label = "high" THEN "medium" ELSE label

Hypothesis(c, h) ==
    [rank |-> h.rank, confidence |-> Confidence(h.confidence),
     support |-> Support(c, h),
     contradict |-> h.contradict \cap c.contradicting \cap Known(picture),
     cause |-> Settled(h.cause, CauseGrounded(c, h),
                       CauseRole(c) \cap Support(c, h), "hypothesis"),
     mechanism |-> Settled(h.mechanism, MechanismGrounded(c, h),
                           MechanismRole(c) \cap Support(c, h), "inferred"),
     impact |-> Settled(h.impact, ImpactGrounded(c, h),
                        ImpactRole(c) \cap Support(c, h), "inferred")]

(* A rank names a candidate once; a second hypothesis with it is dropped,  *)
(* also when the first one was not grounded.                               *)
Kept(answer, i) ==
    LET h == answer[i] IN
    /\ h.rank \in DOMAIN assessment.candidates
    /\ \A j \in 1..(i - 1) : answer[j].rank # h.rank
    /\ LET c == assessment.candidates[h.rank] IN
       /\ Support(c, h) # {}
       /\ CauseRole(c) # {} => CauseRole(c) \cap Support(c, h) # {}
       /\ CauseGrounded(c, h)

Grounded(answer) ==
    {Hypothesis(assessment.candidates[answer[i].rank], answer[i]) :
        i \in {j \in DOMAIN answer : Kept(answer, j)}}

ReadOnly == [class |-> "read_only", approval |-> FALSE]
StepKept(s) ==
    /\ s.class # "execution_claim"
    /\ s.class \in {"proposal", "unknown"} => s.approval /\ s.type = "proposal"
GroundedSteps(steps) ==
    LET kept == {[class |-> IF s.class = "unknown" THEN "proposal" ELSE s.class,
                  approval |-> s.approval] : s \in {t \in steps : StepKept(t)}}
    IN IF kept = {} THEN {ReadOnly} ELSE kept

Abstained(passed) ==
    [status |-> "abstained", hypotheses |-> {}, steps |-> {ReadOnly}, passed |-> passed]

(* validate_and_ground of a payload with hypotheses.                       *)
Validated(answer, steps) ==
    IF assessment.abstain THEN Abstained(TRUE)
    ELSE IF Grounded(answer) = {} THEN Abstained(FALSE)
    ELSE [status |-> "supported", hypotheses |-> Grounded(answer),
          steps |-> GroundedSteps(steps), passed |-> TRUE]

(* deterministic_payload: what a review shows without the model.           *)
ConfidenceLabel(score) == IF score >= 70 THEN "high" ELSE IF score >= 40 THEN "medium" ELSE "low"
NotEstablished == [status |-> "unknown", ids |-> {}]
DeterministicAnswer ==
    [r \in DOMAIN assessment.candidates |->
        LET c == assessment.candidates[r] IN
        [rank |-> r, confidence |-> ConfidenceLabel(c.score), support |-> c.events,
         contradict |-> {}, cause |-> [status |-> "hypothesis", ids |-> c.events],
         mechanism |-> NotEstablished, impact |-> NotEstablished]]

-----------------------------------------------------------------------------
(* The nodes.                                                              *)

(* An alert starts a run; collection, aggregation and the links between    *)
(* events up to score_candidates.  The other channels stay.                *)
Collect ==
    /\ node \in {"new", "review", "done"}
    /\ runs < MaxRuns
    /\ runs' = runs + 1
    /\ \E p \in Pictures, f, t \in BOOLEAN :
          picture' = p /\ failed' = f /\ truncated' = t
    /\ rounds' = 0
    /\ node' = "score"
    /\ UNCHANGED <<assessment, chain, shown, pending, chosen, explained, reviews>>

ScoreCandidates ==
    /\ node = "score"
    /\ assessment' = Assess(picture, failed)
    /\ node' = "correlate"
    /\ UNCHANGED <<picture, failed, truncated, chain, shown, pending, chosen,
                   explained, rounds, reviews, runs>>

(* semantic_correlate with a model's report: a link with a reference that  *)
(* is neither known nor external is discarded.                             *)
Referable(link) == Ends(link) \subseteq Known(picture) \cup {External}

Correlate ==
    /\ node = "correlate"
    /\ \E report \in SUBSET Links : chain' = {l \in report : Referable(l)}
    /\ node' = "integrate"
    /\ UNCHANGED <<picture, failed, truncated, assessment, shown, pending, chosen,
                   explained, rounds, reviews, runs>>

(* The model is not asked, or fails.                                       *)
CorrelateWithoutModel ==
    /\ node = "correlate"
    /\ chain' = {}
    /\ node' = "integrate"
    /\ UNCHANGED <<picture, failed, truncated, assessment, shown, pending, chosen,
                   explained, rounds, reviews, runs>>

(* The router after integrate_targeted_evidence: another round or not.     *)
NextRound ==
    \/ node' = "interpret" /\ UNCHANGED rounds
    \/ node' = "correlate" /\ rounds < MaxRounds /\ rounds' = rounds + 1

NothingNew ==
    /\ node = "integrate"
    /\ NextRound
    /\ UNCHANGED <<picture, failed, truncated, assessment, chain, shown, pending,
                   chosen, explained, reviews, runs>>

(* New records: everything up to the assessment is computed again, the     *)
(* chain stays that of the older evidence.                                 *)
Rescored_Not(p) == assessment
Rescored(p) == Assess(p, failed)

Integrate ==
    /\ node = "integrate"
    /\ \E p \in Pictures : picture' = p /\ assessment' = Rescored(p)
    /\ truncated' = TRUE
    /\ NextRound
    /\ UNCHANGED <<failed, chain, shown, pending, chosen, explained, reviews, runs>>

(* interpret_incident, then the interrupt; the run's end puts the analysis *)
(* into the pending row.                                                   *)
Conclude(result) ==
    /\ node = "interpret"
    /\ shown' = result
    /\ pending' = assessment.candidates
    /\ node' = "review"
    /\ UNCHANGED <<picture, failed, truncated, assessment, chain, chosen, explained,
                   rounds, reviews, runs>>

AbstainFirst == assessment.abstain /\ Conclude(Abstained(TRUE))
ModelUnavailable ==
    ~assessment.abstain /\ Conclude(Validated(DeterministicAnswer, {}))
(* No JSON object, or another schema version.                              *)
ContractBroken == ~assessment.abstain /\ Conclude(Abstained(FALSE))
ModelAbstains == ~assessment.abstain /\ Conclude(Abstained(TRUE))
ModelAnswers ==
    /\ ~assessment.abstain
    /\ \E n \in 0..MaxHypotheses :
          \E answer \in [1..n -> Proposals], steps \in {{}} \cup {{s} : s \in Steps} :
             Conclude(Validated(answer, steps))

(* The review endpoint: an approval names a rank of the pending candidates.*)
Approve(rank) ==
    /\ node = "review"
    /\ rank \in DOMAIN pending
    /\ chosen' = rank
    /\ node' = "explain"
    /\ UNCHANGED <<picture, failed, truncated, assessment, chain, shown, pending,
                   explained, rounds, reviews, runs>>

(* Rejected, or more evidence requested: reinvestigate_feedback.           *)
Reinvestigate ==
    /\ node = "review"
    /\ reviews < MaxReviews
    /\ reviews' = reviews + 1
    /\ rounds' = 0
    /\ node' = "correlate"
    /\ UNCHANGED <<picture, failed, truncated, assessment, chain, shown, pending,
                   chosen, explained, runs>>

(* build_approved_context takes the candidate by its place in the list.    *)
Approved_NextPlace(rank) ==
    IF rank + 1 \in DOMAIN assessment.candidates THEN assessment.candidates[rank + 1] ELSE None
Approved(rank) ==
    IF rank \in DOMAIN assessment.candidates THEN assessment.candidates[rank] ELSE None

DeepRca ==
    /\ node = "explain"
    /\ explained' = Approved(chosen)
    /\ node' = "done"
    /\ UNCHANGED <<picture, failed, truncated, assessment, chain, shown, pending,
                   chosen, rounds, reviews, runs>>

-----------------------------------------------------------------------------
Init ==
    /\ node = "new"
    /\ picture = [groups |-> <<>>, traffic |-> 0] /\ failed = FALSE /\ truncated = FALSE
    /\ assessment = Unassessed /\ chain = {} /\ shown = Abstained(FALSE)
    /\ pending = <<>> /\ chosen = 1 /\ explained = None
    /\ rounds = 0 /\ reviews = 0 /\ runs = 0

Interpret ==
    AbstainFirst \/ ModelUnavailable \/ ContractBroken \/ ModelAbstains \/ ModelAnswers

Next ==
    \/ Collect \/ ScoreCandidates \/ Correlate \/ CorrelateWithoutModel
    \/ NothingNew \/ Integrate \/ Interpret
    \/ (\E rank \in 1..3 : Approve(rank)) \/ Reinvestigate \/ DeepRca

Spec == Init /\ [][Next]_vars

-----------------------------------------------------------------------------
(* Properties.                                                             *)

(* Every variable has the values its code gives it.                        *)
TypeOK ==
    /\ node \in {"new", "score", "correlate", "integrate", "interpret", "review",
                 "explain", "done"}
    /\ picture \in Pictures \cup {[groups |-> <<>>, traffic |-> 0]}
    /\ failed \in BOOLEAN /\ truncated \in BOOLEAN
    /\ chain \subseteq Links
    /\ shown.status \in {"abstained", "supported"} /\ shown.passed \in BOOLEAN
    /\ chosen \in 1..3
    /\ rounds \in 0..MaxRounds /\ reviews \in 0..MaxReviews /\ runs \in 0..MaxRuns

Reviewed == node \in {"review", "explain", "done"}

(* A shown hypothesis, held against the candidates in the pending row.     *)
HypothesisGrounded(h, candidates) ==
    /\ h.rank \in DOMAIN candidates
    /\ h.support \cup h.contradict \cup h.cause.ids \cup h.mechanism.ids \cup h.impact.ids
          \subseteq Known(picture)
    /\ h.cause.accepted /\ h.cause.ids # {} /\ h.cause.status # "observed"
    /\ h.cause.ids \subseteq candidates[h.rank].events
    /\ h.impact.ids \subseteq candidates[h.rank].impact
    /\ h.contradict \subseteq candidates[h.rank].contradicting
    /\ h.mechanism.accepted =>
          /\ \E l \in chain : Ends(l) \subseteq h.mechanism.ids
          /\ \A e \in h.mechanism.ids :
                \E l \in chain : /\ e \in Ends(l) /\ l[1] # l[2]
                                 /\ Ends(l) \cap candidates[h.rank].events # {}
    /\ h.confidence = "high" => ~truncated

StepMarked(s) == s.class \in {"read_only", "proposal"} /\ (s.class = "proposal" => s.approval)

(* Whatever a model answered, to whatever evidence it was asked about, the *)
(* hypotheses of a review cite events of the evidence shown beside them:   *)
(* the cause cites its candidate's and is not called observed, a mechanism *)
(* cites both ends of a link, and only links between two events that touch *)
(* the cause, confidence is not high on a sample, and a step that changes  *)
(* something is marked for approval.                                       *)
HypothesesGrounded ==
    Reviewed => /\ \A h \in shown.hypotheses : HypothesisGrounded(h, pending)
                /\ \A s \in shown.steps : StepMarked(s)

(* The reasons to abstain that score_candidates looks at do not hold of    *)
(* the evidence beside a shown hypothesis, also after a targeted query     *)
(* changed it: no source has status "failed", one candidate leads by 15    *)
(* points, and the direct signals do not speak of several causes.          *)
(* Evidence may still be missing, stale or contradicted: a source that was *)
(* refused, rate limited or answered in part is not "failed", and what     *)
(* contradicts a candidate is shown with it (README, Findings).            *)
ShownIsUncontested ==
    Reviewed /\ shown.hypotheses # {} =>
       /\ ~failed
       /\ \E c \in Merged(picture) : \A d \in Merged(picture) : c = d \/ c.score - d.score >= 15
       /\ \A g, h \in GroupsOf(picture) :
             g.signal # None /\ h.signal # None => g.signal = h.signal

(* The candidate that is explained after an approval is the one that the   *)
(* reviewer chose from the pending row.                                    *)
ExplainedIsChosen ==
    node = "done" => chosen \in DOMAIN pending /\ explained = pending[chosen]

(* PROJECT_MASTER_CHECKLIST.md:51-52: the review gate shares its decision  *)
(* between API and HTML, an abstention cannot be approved.                 *)
CanApprove ==
    /\ shown.passed /\ shown.status # "abstained"
    /\ {h.rank : h \in shown.hypotheses} \cap DOMAIN pending # {}
OnlyApprovableApproved == node = "explain" => CanApprove
=============================================================================
