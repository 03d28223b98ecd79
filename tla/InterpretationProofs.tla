------------------------ MODULE InterpretationProofs ------------------------
(* What Interpretation promises, for every set of pictures, links, answers *)
(* and steps.                                                              *)
EXTENDS Interpretation, FiniteSetTheorems, TLAPS

(* A link with two known ends is no link of an event with itself.          *)
LEMMA TwoEnds ==
  ASSUME NEW l, NEW K, Cardinality(Ends(l) \cap K) >= 2
  PROVE  l[1] # l[2]
<1> SUFFICES ASSUME l[1] = l[2] PROVE FALSE
  OBVIOUS
<1>1. Ends(l) \cap K = {} \/ Ends(l) \cap K = {l[1]}
  BY DEF Ends
<1>2. Cardinality({}) = 0 /\ Cardinality({l[1]}) = 1
  BY FS_EmptySet, FS_Singleton
<1> QED
  BY <1>1, <1>2

(* Only known events get a role.                                           *)
LEMMA RolesAreKnown ==
  ASSUME NEW c, NEW h
  PROVE  /\ CauseRole(c) \subseteq Known(picture) /\ ImpactRole(c) \subseteq Known(picture)
         /\ MechanismRole(c) \subseteq Known(picture) /\ Support(c, h) \subseteq Known(picture)
<1>1. CauseRole(c) \subseteq Known(picture) /\ ImpactRole(c) \subseteq Known(picture)
  BY DEF CauseRole, ImpactRole
<1>2. MechanismRole(c) \subseteq Known(picture)
  BY DEF MechanismRole
<1> QED
  BY <1>1, <1>2 DEF Support

(* What passes the grounding is grounded.                                  *)
LEMMA KeptIsGrounded ==
  ASSUME NEW answer, NEW i \in DOMAIN answer, Kept(answer, i)
  PROVE  HypothesisGrounded(Hypothesis(assessment.candidates[answer[i].rank], answer[i]),
                            assessment.candidates)
<1> DEFINE h == answer[i]
           c == assessment.candidates[h.rank]
           r == Hypothesis(c, h)
<1>1. h.rank \in DOMAIN assessment.candidates /\ CauseGrounded(c, h)
  BY DEF Kept
<1>2. /\ r.rank = h.rank /\ r.confidence = Confidence(h.confidence)
      /\ r.support = Support(c, h)
      /\ r.contradict = h.contradict \cap c.contradicting \cap Known(picture)
  BY DEF Hypothesis
<1>3. /\ r.cause.ids \subseteq CauseRole(c) \cap Support(c, h)
      /\ r.cause.accepted /\ r.cause.ids # {} /\ r.cause.status # "observed"
  <2>1. r.cause = Settled(h.cause, CauseGrounded(c, h), CauseRole(c) \cap Support(c, h),
                          "hypothesis")
    BY DEF Hypothesis
  <2>2. Grounds(h.cause, CauseRole(c) \cap Support(c, h)) /\ CauseGrounded(c, h) = TRUE
    BY <1>1 DEF CauseGrounded
  <2> QED
    BY <2>1, <2>2 DEF Settled, Grounds
<1>4. /\ r.mechanism.ids \subseteq MechanismRole(c) \cap Support(c, h)
      /\ r.mechanism.accepted => \E l \in chain : Ends(l) \subseteq r.mechanism.ids
  <2>1. r.mechanism = Settled(h.mechanism, MechanismGrounded(c, h),
                              MechanismRole(c) \cap Support(c, h), "inferred")
    BY DEF Hypothesis
  <2>2. CASE MechanismGrounded(c, h)
    <3>1. /\ Grounds(h.mechanism, MechanismRole(c) \cap Support(c, h))
          /\ \E l \in chain : Ends(l) \subseteq h.mechanism.ids
      BY <2>2 DEF MechanismGrounded
    <3>2. r.mechanism.ids = h.mechanism.ids
      BY <2>1, <2>2 DEF Settled
    <3> QED
      BY <3>1, <3>2 DEF Grounds
  <2>3. CASE ~MechanismGrounded(c, h)
    BY <2>1, <2>3 DEF Settled
  <2> QED
    BY <2>2, <2>3
<1>5. r.impact.ids \subseteq ImpactRole(c) \cap Support(c, h)
  <2>1. r.impact = Settled(h.impact, ImpactGrounded(c, h), ImpactRole(c) \cap Support(c, h),
                           "inferred")
    BY DEF Hypothesis
  <2>2. CASE ImpactGrounded(c, h)
    BY <2>1, <2>2 DEF Settled, ImpactGrounded, Grounds
  <2>3. CASE ~ImpactGrounded(c, h)
    BY <2>1, <2>3 DEF Settled
  <2> QED
    BY <2>2, <2>3
<1>6. r.support \cup r.contradict \cup r.cause.ids \cup r.mechanism.ids \cup r.impact.ids
         \subseteq Known(picture)
  BY <1>2, <1>3, <1>4, <1>5, RolesAreKnown
<1>7. r.cause.ids \subseteq c.events /\ r.impact.ids \subseteq c.impact
  BY <1>3, <1>5 DEF CauseRole, ImpactRole
<1>8. ASSUME NEW e \in r.mechanism.ids
      PROVE  \E l \in chain : /\ e \in Ends(l) /\ l[1] # l[2]
                              /\ Ends(l) \cap c.events # {}
  <2>1. e \in MechanismRole(c)
    BY <1>4, <1>8
  <2>2. PICK l \in CrossLinks(c) : e \in Ends(l)
    BY <2>1 DEF MechanismRole
  <2>3. /\ l \in chain /\ Cardinality(Ends(l) \cap Known(picture)) >= 2
        /\ Ends(l) \cap CauseRole(c) # {}
    BY <2>2 DEF CrossLinks
  <2>4. l[1] # l[2]
    BY <2>3, TwoEnds
  <2> QED
    BY <2>2, <2>3, <2>4 DEF CauseRole
<1>9. r.confidence = "high" => ~truncated
  BY <1>2 DEF Confidence
<1>10. r.rank \in DOMAIN assessment.candidates /\ assessment.candidates[r.rank] = c
  BY <1>1, <1>2
<1>11. r.contradict \subseteq c.contradicting
  BY <1>2
<1> HIDE DEF r, c
<1>12. HypothesisGrounded(r, assessment.candidates)
  BY <1>3, <1>4, <1>6, <1>7, <1>8, <1>9, <1>10, <1>11 DEF HypothesisGrounded
<1> QED
  BY <1>12 DEF r, c

(* Steps that are kept are marked.                                         *)
LEMMA StepsMarked ==
  ASSUME InterpretationAssumption, NEW steps \in SUBSET Steps
  PROVE  \A s \in GroundedSteps(steps) : StepMarked(s)
<1>1. StepMarked(ReadOnly)
  BY DEF StepMarked, ReadOnly
<1>2. ASSUME NEW s \in steps, StepKept(s)
      PROVE  StepMarked([class |-> IF s.class = "unknown" THEN "proposal" ELSE s.class,
                         approval |-> s.approval])
  <2>1. s.class \in {"read_only", "proposal", "execution_claim", "unknown"}
    BY DEF InterpretationAssumption, Step
  <2> QED
    BY <1>2, <2>1 DEF StepKept, StepMarked
<1> QED
  BY <1>1, <1>2 DEF GroundedSteps

-----------------------------------------------------------------------------
(* An interpretation that may be shown beside the present evidence.        *)
Presentable(result) ==
    /\ \A h \in result.hypotheses : HypothesisGrounded(h, assessment.candidates)
    /\ \A s \in result.steps : StepMarked(s)
    /\ result.hypotheses # {} => ~assessment.abstain

LEMMA AbstentionPresentable ==
  ASSUME NEW passed PROVE Presentable(Abstained(passed))
BY DEF Presentable, Abstained, StepMarked, ReadOnly

LEMMA ValidatedPresentable ==
  ASSUME InterpretationAssumption, NEW answer, NEW steps \in SUBSET Steps
  PROVE  Presentable(Validated(answer, steps))
<1>1. CASE assessment.abstain \/ Grounded(answer) = {}
  BY <1>1, AbstentionPresentable DEF Validated
<1>2. CASE ~assessment.abstain /\ Grounded(answer) # {}
  <2>1. /\ Validated(answer, steps).hypotheses = Grounded(answer)
        /\ Validated(answer, steps).steps = GroundedSteps(steps)
    BY <1>2 DEF Validated
  <2>2. \A h \in Grounded(answer) : HypothesisGrounded(h, assessment.candidates)
    BY KeptIsGrounded DEF Grounded
  <2> QED
    BY <1>2, <2>1, <2>2, StepsMarked DEF Presentable
<1> QED
  BY <1>1, <1>2

(* The inductive invariant: the assessment is that of the present picture  *)
(* as soon as there is one, and the row under review has its candidates.   *)
Assessed == node \in {"correlate", "integrate", "interpret"} \/ Reviewed

ReviewSound ==
    /\ Assessed => assessment = Assess(picture, failed)
    /\ Reviewed => pending = assessment.candidates /\ Presentable(shown)
    /\ node = "explain" => chosen \in DOMAIN pending
    /\ ExplainedIsChosen

LEMMA InitSound == InterpretationAssumption /\ Init => ReviewSound
BY DEF Init, ReviewSound, Assessed, Reviewed, ExplainedIsChosen

(* What a review shows stays presentable while nothing it rests on changes.*)
LEMMA PresentableStays ==
  ASSUME UNCHANGED <<picture, truncated, assessment, chain, shown>>, Presentable(shown)
  PROVE  Presentable(shown)'
BY DEF Presentable, HypothesisGrounded, Known, StepMarked

LEMMA ConcludeSound ==
  ASSUME ReviewSound, NEW result, Presentable(result), Conclude(result)
  PROVE  ReviewSound'
<1>1. /\ node = "interpret" /\ node' = "review" /\ shown' = result
      /\ pending' = assessment.candidates
      /\ UNCHANGED <<picture, failed, truncated, assessment, chain>>
  BY DEF Conclude
<1>2. Presentable(shown)'
  BY <1>1 DEF Presentable, HypothesisGrounded, Known, StepMarked
<1>3. assessment' = Assess(picture, failed)'
  <2>1. Assess(picture, failed)' = Assess(picture, failed)
    BY <1>1
  <2>2. assessment = Assess(picture, failed)
    BY <1>1 DEF ReviewSound, Assessed
  <2> QED
    BY <1>1, <2>1, <2>2
<1> QED
  BY <1>1, <1>2, <1>3 DEF ReviewSound, Reviewed, ExplainedIsChosen

LEMMA InterpretSound ==
  ASSUME InterpretationAssumption, ReviewSound, Interpret
  PROVE  ReviewSound'
<1>1. CASE AbstainFirst
  BY <1>1, AbstentionPresentable, ConcludeSound DEF AbstainFirst
<1>2. CASE ModelUnavailable
  BY <1>2, ValidatedPresentable, ConcludeSound DEF ModelUnavailable
<1>3. CASE ContractBroken
  BY <1>3, AbstentionPresentable, ConcludeSound DEF ContractBroken
<1>4. CASE ModelAbstains
  BY <1>4, AbstentionPresentable, ConcludeSound DEF ModelAbstains
<1>5. CASE ModelAnswers
  <2>1. PICK n \in 0..MaxHypotheses : \E answer \in [1..n -> Proposals],
              steps \in {{}} \cup {{s} : s \in Steps} : Conclude(Validated(answer, steps))
    BY <1>5 DEF ModelAnswers
  <2>2. PICK answer \in [1..n -> Proposals], steps \in {{}} \cup {{s} : s \in Steps} :
              Conclude(Validated(answer, steps))
    BY <2>1
  <2>3. steps \in SUBSET Steps
    OBVIOUS
  <2> QED
    BY <2>2, <2>3, ValidatedPresentable, ConcludeSound
<1> QED
  BY <1>1, <1>2, <1>3, <1>4, <1>5 DEF Interpret

LEMMA StepSound ==
  ASSUME InterpretationAssumption, ReviewSound, [Next]_vars
  PROVE  ReviewSound'
<1>a. ASSUME UNCHANGED <<picture, failed>> PROVE Assess(picture, failed)' = Assess(picture, failed)
  BY <1>a
<1>1. CASE UNCHANGED vars
  <2>1. UNCHANGED <<picture, truncated, assessment, chain, shown>>
    BY <1>1 DEF vars
  <2>2. Reviewed => Presentable(shown)'
    BY <2>1, PresentableStays DEF ReviewSound
  <2> QED
    BY <1>1, <1>a, <2>2 DEF vars, ReviewSound, Assessed, Reviewed, ExplainedIsChosen
<1>2. CASE Collect
  BY <1>2 DEF Collect, ReviewSound, Assessed, Reviewed, ExplainedIsChosen
<1>3. CASE ScoreCandidates
  BY <1>3, <1>a DEF ScoreCandidates, ReviewSound, Assessed, Reviewed, ExplainedIsChosen
<1>4. CASE Correlate \/ CorrelateWithoutModel
  BY <1>4, <1>a DEF Correlate, CorrelateWithoutModel, ReviewSound, Assessed, Reviewed,
     ExplainedIsChosen
<1>5. CASE NothingNew
  <2>1. node = "integrate" /\ node' \in {"interpret", "correlate"}
    BY <1>5 DEF NothingNew, NextRound
  <2> QED
    BY <1>5, <1>a, <2>1 DEF NothingNew, ReviewSound, Assessed, Reviewed, ExplainedIsChosen
<1>6. CASE Integrate
  <2>1. node' \in {"interpret", "correlate"}
    BY <1>6 DEF Integrate, NextRound
  <2>2. assessment' = Assess(picture', failed') /\ failed' = failed
    BY <1>6 DEF Integrate, Rescored
  <2>3. Assess(picture, failed)' = Assess(picture', failed')
    OBVIOUS
  <2> QED
    BY <2>1, <2>2, <2>3 DEF ReviewSound, Assessed, Reviewed, ExplainedIsChosen
<1>7. CASE Interpret
  BY <1>7, InterpretSound
<1>8. ASSUME NEW rank \in 1..3, Approve(rank)
      PROVE  ReviewSound'
  <2>1. UNCHANGED <<picture, failed, truncated, assessment, chain, shown, pending>>
    BY <1>8 DEF Approve
  <2>2. Presentable(shown)' /\ Assessed /\ pending = assessment.candidates
    BY <1>8, <2>1, PresentableStays DEF ReviewSound, Approve, Reviewed, Assessed
  <2> QED
    BY <1>8, <1>a, <2>1, <2>2 DEF Approve, ReviewSound, Reviewed, ExplainedIsChosen
<1>9. CASE Reinvestigate
  BY <1>9, <1>a DEF Reinvestigate, ReviewSound, Assessed, Reviewed, ExplainedIsChosen
<1>10. CASE DeepRca
  <2>1. UNCHANGED <<picture, failed, truncated, assessment, chain, shown, pending, chosen>>
    BY <1>10 DEF DeepRca
  <2>2. Presentable(shown)' /\ Assessed /\ pending = assessment.candidates
    BY <1>10, <2>1, PresentableStays DEF ReviewSound, DeepRca, Reviewed, Assessed
  <2>3. chosen \in DOMAIN pending /\ explained' = pending[chosen]
    BY <1>10, <2>2 DEF DeepRca, ReviewSound, Approved
  <2> QED
    BY <1>10, <1>a, <2>1, <2>2, <2>3 DEF DeepRca, ReviewSound, ExplainedIsChosen
<1> QED
  BY <1>1, <1>2, <1>3, <1>4, <1>5, <1>6, <1>7, <1>8, <1>9, <1>10 DEF Next

LEMMA SoundAlways == Spec => []ReviewSound
<1>1. InterpretationAssumption
  BY InterpretationAssumption
<1> QED
  BY <1>1, InitSound, StepSound, PTL DEF Spec

-----------------------------------------------------------------------------
(* Hypotheses of a review are grounded in the evidence beside them.        *)
THEOREM ReviewsGrounded == Spec => []HypothesesGrounded
<1>1. ReviewSound => HypothesesGrounded
  BY DEF ReviewSound, HypothesesGrounded, Presentable
<1> QED
  BY <1>1, SoundAlways, PTL

(* They are shown only beside evidence with one leading candidate, direct  *)
(* signals of one cause at most, and no source of status "failed": what    *)
(* score_candidates abstains for.  Other gaps and contradictions do not    *)
(* count there, so nothing is said of them.                                *)
THEOREM ReviewsUncontested == Spec => []ShownIsUncontested
<1>1. ReviewSound => ShownIsUncontested
  <2> SUFFICES ASSUME ReviewSound, Reviewed, shown.hypotheses # {}
               PROVE  /\ ~failed
                      /\ \E c \in Merged(picture) :
                            \A d \in Merged(picture) : c = d \/ c.score - d.score >= 15
                      /\ \A g, h \in GroupsOf(picture) :
                            g.signal # None /\ h.signal # None => g.signal = h.signal
    BY DEF ShownIsUncontested
  <2>1. ~Abstains(picture, failed)
    <3>1. ~assessment.abstain /\ assessment = Assess(picture, failed)
      BY DEF ReviewSound, Presentable, Assessed
    <3> QED
      BY <3>1 DEF Assess
  <2> QED
    BY <2>1 DEF Abstains, Leads, ObservedCauses
<1> QED
  BY <1>1, SoundAlways, PTL

(* The explained candidate is the chosen one of the pending row.           *)
THEOREM ExplanationsChosen == Spec => []ExplainedIsChosen
<1>1. ReviewSound => ExplainedIsChosen
  BY DEF ReviewSound
<1> QED
  BY <1>1, SoundAlways, PTL
-----------------------------------------------------------------------------
LEMMA ConcludeTyped ==
  ASSUME InterpretationAssumption, TypeOK, NEW result, Conclude(result),
         result.status \in {"abstained", "supported"}, result.passed \in BOOLEAN
  PROVE  TypeOK'
BY DEF Conclude, TypeOK

LEMMA ValidatedTyped ==
  ASSUME NEW answer, NEW steps
  PROVE  /\ Validated(answer, steps).status \in {"abstained", "supported"}
         /\ Validated(answer, steps).passed \in BOOLEAN
BY DEF Validated, Abstained

(* Every variable has the values its code gives it.                        *)
THEOREM TypeCorrect == Spec => []TypeOK
<1>1. Init => TypeOK
  <2> SUFFICES ASSUME Init PROVE TypeOK
    OBVIOUS
  <2>1. shown.status = "abstained" /\ shown.passed = FALSE
    BY DEF Init, Abstained
  <2>2. rounds \in 0..MaxRounds /\ reviews \in 0..MaxReviews /\ runs \in 0..MaxRuns
    BY InterpretationAssumption, SMT DEF Init
  <2>3. chosen \in 1..3
    BY DEF Init
  <2>4. picture \in Pictures \cup {[groups |-> <<>>, traffic |-> 0]} /\ chain \subseteq Links
    BY Zenon DEF Init
  <2>5. failed \in BOOLEAN /\ truncated \in BOOLEAN
    BY DEF Init
  <2>6. node = "new"
    BY DEF Init
  <2> QED
    BY <2>1, <2>2, <2>3, <2>4, <2>5, <2>6 DEF TypeOK
<1>2. ASSUME TypeOK, [Next]_vars PROVE TypeOK'
  <2> USE InterpretationAssumption
  <2>1. CASE UNCHANGED vars
    BY <1>2, <2>1 DEF vars, TypeOK
  <2>2. CASE Collect
    BY <1>2, <2>2 DEF Collect, TypeOK, InterpretationAssumption
  <2>3. CASE ScoreCandidates
    BY <1>2, <2>3 DEF ScoreCandidates, TypeOK
  <2>4. CASE Correlate
    BY <1>2, <2>4 DEF Correlate, TypeOK
  <2>5. CASE CorrelateWithoutModel
    BY <1>2, <2>5 DEF CorrelateWithoutModel, TypeOK
  <2>6. CASE NothingNew
    BY <1>2, <2>6 DEF NothingNew, NextRound, TypeOK, InterpretationAssumption
  <2>7. CASE Integrate
    BY <1>2, <2>7 DEF Integrate, NextRound, TypeOK, InterpretationAssumption
  <2>8. CASE Interpret
    <3>1. \A passed \in BOOLEAN : /\ Abstained(passed).status \in {"abstained", "supported"}
                                  /\ Abstained(passed).passed \in BOOLEAN
      BY DEF Abstained
    <3>2. CASE AbstainFirst \/ ContractBroken \/ ModelAbstains
      BY <1>2, <3>1, <3>2, ConcludeTyped DEF AbstainFirst, ContractBroken, ModelAbstains
    <3>3. CASE ModelUnavailable
      BY <1>2, <3>3, ValidatedTyped, ConcludeTyped DEF ModelUnavailable
    <3>4. CASE ModelAnswers
      BY <1>2, <3>4, ValidatedTyped, ConcludeTyped DEF ModelAnswers
    <3> QED
      BY <2>8, <3>2, <3>3, <3>4 DEF Interpret
  <2>9. ASSUME NEW rank \in 1..3, Approve(rank) PROVE TypeOK'
    BY <1>2, <2>9 DEF Approve, TypeOK
  <2>10. CASE Reinvestigate
    BY <1>2, <2>10 DEF Reinvestigate, TypeOK, InterpretationAssumption
  <2>11. CASE DeepRca
    BY <1>2, <2>11 DEF DeepRca, TypeOK
  <2> QED
    BY <1>2, <2>1, <2>2, <2>3, <2>4, <2>5, <2>6, <2>7, <2>8, <2>9, <2>10, <2>11 DEF Next
<1> QED
  BY <1>1, <1>2, PTL DEF Spec
=============================================================================
