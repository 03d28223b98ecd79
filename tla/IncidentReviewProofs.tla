-------------------------- MODULE IncidentReviewProofs --------------------------
(***************************************************************************)
(* What holds of IncidentReview for any number of requests, reviewers,     *)
(* drafts, jobs and losses.                                                *)
(***************************************************************************)
EXTENDS IncidentReview, TLAPS

LEMMA InitTypeOK == Init => TypeOK
BY ReviewAssumption
   DEF Init, TypeOK, Versions, PendingRow, WorkerRow, ApiRow, JobRow, Checkpoint,
       Places, NoPending, NoCheckpoint, WorkerIdle, ApiIdle, NoJob, Answers

(* Redaction keeps the shape of a draft and is done once.                  *)
LEMMA DisplayFacts ==
  ASSUME NEW d \in Drafts \cup {None}
  PROVE  Display(d) \in Drafts \cup {None} /\ Display(Display(d)) = Display(d)
BY ReviewAssumption DEF Display

-----------------------------------------------------------------------------
(* The shape of checkpoints a run starts from and leaves behind.           *)
LEMMA RunTypes ==
  ASSUME TypeOK, NEW c \in Checkpoint, NEW d \in Drafts \cup {None}, FinishRun(c, d)
  PROVE  /\ graph' \in Checkpoint /\ analyses' \in 0..MaxAnalyses
         /\ published' \subseteq Drafts \cup {None}
<1>1. /\ c.at \in Places \cup {None} /\ c.draft \in Drafts \cup {None}
      /\ c.analysis \in 0..MaxAnalyses
      /\ analyses \in 0..MaxAnalyses /\ published \subseteq Drafts \cup {None}
  BY DEF Checkpoint, TypeOK
<1>2. c.at = "collect" => analyses + 1 \in 0..MaxAnalyses
  BY <1>1, ReviewAssumption DEF FinishRun
<1>3. RunEnds(c, d) \in Checkpoint
  BY <1>1, <1>2 DEF RunEnds, Checkpoint, Places
<1>4. Display(c.draft) \in Drafts \cup {None}
  BY <1>1, DisplayFacts
<1> QED
  BY <1>1, <1>2, <1>3, <1>4 DEF FinishRun

LEMMA NewRunType == ASSUME NEW c \in Checkpoint PROVE NewRun(c) \in Checkpoint
BY DEF NewRun, Checkpoint, Places

LEMMA ResumedType ==
  ASSUME NEW c \in Checkpoint, NEW answer PROVE Resumed(c, answer) \in Checkpoint
BY DEF Resumed, Checkpoint, Places

LEMMA AddPendingType ==
  ASSUME TypeOK, NEW c \in Checkpoint, AddPending(c)
  PROVE  pending' \in PendingRow /\ pending'.draft = Display(c.draft)
<1>1. Display(c.draft) \in Drafts \cup {None}
  BY DisplayFacts DEF Checkpoint
<1> QED
  BY <1>1, ReviewAssumption
     DEF AddPending, StageOf, PendingRow, Versions, Checkpoint, TypeOK

LEMMA MoveType ==
  ASSUME TypeOK, NEW target, CanMove(target), MoveTo(target)
  PROVE  lifecycle' \in Statuses /\ readers' \subseteq Requests \cup {"worker"}
BY DEF CanMove, MoveTo, Allowed, AllowedFrom, Statuses, TypeOK

-----------------------------------------------------------------------------
LEMMA WorkerKeepsTypes == TypeOK /\ (Worker \/ WorkerFails) => TypeOK'
<1> SUFFICES ASSUME TypeOK, Worker \/ WorkerFails PROVE TypeOK'
  OBVIOUS
<1>w. worker \in WorkerRow /\ worker.run \in Checkpoint /\ graph \in Checkpoint /\ job \in JobRow
  BY DEF TypeOK, WorkerRow
<1>1. CASE StartJob
  <2>j. job' \in JobRow
    BY <1>1, <1>w, ReviewAssumption DEF StartJob, Attempted, JobRow
  <2>1. FirstStep(lifecycle) \in {"done", "resolve", "receive", "reopen", "revise", "invoke"}
    BY DEF FirstStep
  <2> QED
    BY <1>1, <1>w, <2>1, <2>j
       DEF StartJob, WorkerStep, ReadLifecycle, records, thread, budget, TypeOK, WorkerRow
<1>2. ASSUME NEW step, NEW next \in {"collect", "analyze", "invoke", "done"},
             WorkerMove(step, next)
      PROVE  TypeOK'
  <2>1. worker' \in WorkerRow
    BY <1>2, <1>w DEF WorkerMove, WorkerStep, WorkerRow
  <2>2. lifecycle' \in Statuses /\ readers' \subseteq Requests \cup {"worker"}
    BY <1>2, MoveType DEF WorkerMove, WorkerMayMove
  <2> QED
    BY <1>2, <2>1, <2>2 DEF WorkerMove, records, thread, budget, TypeOK
<1>3. CASE Reopen
  BY <1>3, <1>w DEF Reopen, WorkerStep, MoveTo, Statuses, records, thread, budget, TypeOK, WorkerRow
<1>4. CASE Invoke
  BY <1>4, <1>w, NewRunType DEF Invoke, status, records, budget, TypeOK, WorkerRow
<1>5. CASE WorkerRunEnds
  <2>1. /\ graph' \in Checkpoint /\ analyses' \in 0..MaxAnalyses
        /\ published' \subseteq Drafts \cup {None}
    BY <1>5, <1>w, RunTypes DEF WorkerRunEnds
  <2> QED
    BY <1>5, <2>1 DEF WorkerRunEnds, status, records, budget, TypeOK, WorkerRow
<1>6. CASE WorkerSync
  <2>1. pending' \in PendingRow
    BY <1>6, <1>w, AddPendingType DEF WorkerSync
  <2>2. worker' \in WorkerRow
    BY <1>6, <1>w DEF WorkerSync, WorkerStep, WorkerRow
  <2> QED
    BY <1>6, <2>1, <2>2 DEF WorkerSync, status, thread, budget, TypeOK
<1>7. CASE JobDone
  BY <1>7, ReviewAssumption
     DEF JobDone, WorkerIdle, NoCheckpoint, NoJob, JobRow, Checkpoint, WorkerRow, status,
         records, thread, budget, TypeOK
<1>8. CASE JobRaises
  <2>1. job' \in JobRow
    BY <1>8, <1>w, ReviewAssumption DEF JobRaises, Failed, JobRow
  <2>2. worker' \in WorkerRow
    BY <1>8, ReviewAssumption DEF JobRaises, WorkerIdle, NoCheckpoint, Checkpoint, WorkerRow
  <2> QED
    BY <1>8, <2>1, <2>2 DEF JobRaises, status, records, thread, budget, TypeOK
<1>9. CASE DeadLettered
  BY <1>9, ReviewAssumption
     DEF DeadLettered, NoJob, JobRow, status, records, thread, budget, TypeOK
<1>10. CASE WorkerLost
  BY <1>10, ReviewAssumption
     DEF WorkerLost, WorkerIdle, NoCheckpoint, Checkpoint, WorkerRow, status, records,
         thread, TypeOK
<1>11. ASSUME NEW limit, HandlerFails(limit) PROVE TypeOK'
  <2>1. job' \in JobRow
    BY <1>11, <1>w, ReviewAssumption DEF HandlerFails, Failed, JobRow
  <2>2. worker' \in WorkerRow /\ faults' \in 0..MaxFaults
    BY <1>11, ReviewAssumption
       DEF HandlerFails, WorkerIdle, NoCheckpoint, Checkpoint, WorkerRow, TypeOK
  <2> QED
    BY <1>11, <2>1, <2>2 DEF HandlerFails, status, records, thread, TypeOK
<1> QED
  BY <1>1, <1>2, <1>3, <1>4, <1>5, <1>6, <1>7, <1>8, <1>9, <1>10, <1>11
     DEF WorkerFails, Worker, Receive, Collect, Analyze, Revise, Resolve, Finish

-----------------------------------------------------------------------------
(* The request handlers.                                                   *)
LEMMA ApiStepType ==
  ASSUME TypeOK, NEW q \in Requests, NEW from, NEW to,
         to \in {"read", "advance", "resume", "settle", "settled"}, ApiStep(q, from, to)
  PROVE  api' \in [Requests -> ApiRow]
BY DEF ApiStep, ApiRow, TypeOK

LEMMA ApiIdleType == ApiIdle \in ApiRow
BY ReviewAssumption
   DEF ApiIdle, ApiRow, NoPending, PendingRow, Versions, NoCheckpoint, Checkpoint

LEMMA ApiEndsType ==
  ASSUME TypeOK, NEW q \in Requests, ApiEnds(q) PROVE api' \in [Requests -> ApiRow]
BY ApiIdleType DEF ApiEnds, TypeOK

LEMMA SubmitKeepsTypes == ASSUME TypeOK, NEW q \in Requests, Submit(q) PROVE TypeOK'
<1> DEFINE row(kind, pc, answer) ==
             [ApiIdle EXCEPT !.pc = pc, !.kind = kind, !.seen = pending, !.answer = answer]
<1>1. ASSUME NEW kind \in {"review", "publish"}, NEW pc \in {"decide", "audit"},
             NEW answer \in Answers
      PROVE  row(kind, pc, answer) \in ApiRow
  BY ApiIdleType DEF ApiIdle, ApiRow, TypeOK
<1>s. submitsLeft > 0 /\ submitsLeft' = submitsLeft - 1 => submitsLeft' \in 0..MaxSubmits
  BY ReviewAssumption DEF TypeOK
<1>2. ASSUME NEW answer \in Answers, SubmitReview(q, answer) PROVE TypeOK'
  <2>1. api' = [api EXCEPT ![q] = row("review", "decide", answer)]
    BY <1>2 DEF SubmitReview
  <2>2. row("review", "decide", answer) \in ApiRow
    BY <1>1
  <2> HIDE DEF row
  <2> QED
    BY <1>2, <2>1, <2>2, <1>s DEF SubmitReview, status, records, thread, TypeOK
<1>3. ASSUME NEW answer \in PublicationAnswers, SubmitPublication(q, answer) PROVE TypeOK'
  <2>1. api' = [api EXCEPT ![q] = row("publish", "audit", answer)]
    BY <1>3 DEF SubmitPublication
  <2>2. answer \in Answers
    BY ReviewAssumption DEF Answers
  <2>3. row("publish", "audit", answer) \in ApiRow
    BY <1>1, <2>2
  <2> HIDE DEF row
  <2> QED
    BY <1>3, <2>1, <2>3, <1>s DEF SubmitPublication, status, records, thread, TypeOK
<1> QED
  BY <1>2, <1>3 DEF Submit

LEMMA HandleKeepsTypes ==
  ASSUME TypeOK, Answered, NEW q \in Requests, Handle(q) \/ ApiLost(q) PROVE TypeOK'
<1>q. api[q] \in ApiRow /\ api[q].run \in Checkpoint /\ api[q].seen \in PendingRow
  BY DEF TypeOK, ApiRow
<1>1. ASSUME NEW by \in Reviewers, Decide(q, by) PROVE TypeOK'
  <2>1. api' \in [Requests -> ApiRow]
    BY <1>1, ApiStepType DEF Decide
  <2>2. [answer |-> api[q].answer, by |-> by] \in Decision
    BY <1>1, <1>q DEF Answered, Decide, ApiStep, Decision
  <2>3. decisions' \in [Versions -> Decision \cup {None}]
    BY <1>1, <2>2 DEF Decide, TypeOK
  <2> QED
    BY <1>1, <2>1, <2>3 DEF Decide, status, thread, budget, TypeOK
<1>2. CASE DecideRefused(q)
  BY <1>2, ApiEndsType DEF DecideRefused, status, records, thread, budget, TypeOK
<1>3. ASSUME NEW from, NEW to \in {"advance", "settled"}, ReadBeforeMove(q, from, to)
      PROVE  TypeOK'
  <2>1. api' \in [Requests -> ApiRow]
    BY <1>3, ApiStepType DEF ReadBeforeMove
  <2> QED
    BY <1>3, <2>1 DEF ReadBeforeMove, ReadLifecycle, records, thread, budget, TypeOK
<1>4. ASSUME NEW from, NEW target, NEW to \in {"resume", "idle"}, ApiMove(q, from, target, to)
      PROVE  TypeOK'
  <2>1. api' \in [Requests -> ApiRow]
    BY <1>4, ApiEndsType, ApiStepType DEF ApiMove
  <2>2. lifecycle' \in Statuses /\ readers' \subseteq Requests \cup {"worker"}
    BY <1>4, MoveType DEF ApiMove, CanMoveFrom
  <2> QED
    BY <1>4, <2>1, <2>2 DEF ApiMove, records, thread, budget, TypeOK
<1>5. ASSUME NEW from, NEW target, ApiMoveRefused(q, from, target) PROVE TypeOK'
  BY <1>5, ApiEndsType DEF ApiMoveRefused, status, records, thread, budget, TypeOK
<1>6. CASE AppendPublicationEvent(q)
  <2>1. api' \in [Requests -> ApiRow]
    BY <1>6, ApiStepType DEF AppendPublicationEvent
  <2>s. api[q].seen.draft \in Drafts \cup {None}
    BY <1>q DEF PendingRow
  <2>2. /\ approvals' \in [Versions -> Drafts \cup {None}]
        /\ approved' \subseteq Drafts \cup {None}
    BY <1>6, <2>s DEF AppendPublicationEvent, TypeOK
  <2> QED
    BY <1>6, <2>1, <2>2 DEF AppendPublicationEvent, status, thread, budget, TypeOK
<1>7. CASE Resume(q)
  <2>1. graph' \in Checkpoint
    BY <1>7, ResumedType DEF Resume, TypeOK
  <2>2. api' \in [Requests -> ApiRow]
    BY <1>7, <1>q, <2>1 DEF Resume, ApiRow, TypeOK
  <2> QED
    BY <1>7, <2>1, <2>2 DEF Resume, status, records, budget, TypeOK
<1>8. CASE ResumeRefused(q)
  BY <1>8, ApiEndsType DEF ResumeRefused, status, records, thread, budget, TypeOK
<1>9. ASSUME NEW d \in Drafts, ApiRunEnds(q, d) PROVE TypeOK'
  <2>1. /\ graph' \in Checkpoint /\ analyses' \in 0..MaxAnalyses
        /\ published' \subseteq Drafts \cup {None}
    BY <1>9, <1>q, RunTypes DEF ApiRunEnds
  <2>2. api' \in [Requests -> ApiRow]
    BY <1>9, <1>q, <2>1 DEF ApiRunEnds, ApiRow, TypeOK
  <2> QED
    BY <1>9, <2>1, <2>2 DEF ApiRunEnds, status, records, budget, TypeOK
<1>10. CASE ApiSync(q)
  <2>1. NoPending \in PendingRow
    BY ReviewAssumption DEF NoPending, PendingRow, Versions
  <2>2. pending' \in PendingRow
    BY <1>10, <1>q, <2>1, AddPendingType DEF ApiSync
  <2>3. api' \in [Requests -> ApiRow]
    BY <1>10, ApiStepType DEF ApiSync
  <2> QED
    BY <1>10, <2>2, <2>3 DEF ApiSync, status, thread, budget, TypeOK
<1>11. CASE ApiSyncRefused(q)
  BY <1>11, ApiEndsType DEF ApiSyncRefused, status, records, thread, budget, TypeOK
<1>12. CASE ApiLost(q)
  <2>1. faults' \in 0..MaxFaults
    BY <1>12, ReviewAssumption DEF ApiLost, TypeOK
  <2> QED
    BY <1>12, <2>1, ApiEndsType DEF ApiLost, status, records, thread, TypeOK
<1>a. ReadForDecision(q) \/ ReadToSettle(q) => TypeOK'
  BY <1>3 DEF ReadForDecision, ReadToSettle
<1>b. Advance(q) \/ Settle(q) => TypeOK'
  BY <1>4 DEF Advance, Settle
<1>c. AdvanceRefused(q) \/ SettleRefused(q) => TypeOK'
  BY <1>5 DEF AdvanceRefused, SettleRefused
<1> QED
  BY <1>1, <1>2, <1>6, <1>7, <1>8, <1>9, <1>10, <1>11, <1>12, <1>a, <1>b, <1>c DEF Handle

LEMMA StepKeepsTypes == TypeOK /\ Answered /\ [Next]_vars => TypeOK'
<1> SUFFICES ASSUME TypeOK, Answered, [Next]_vars PROVE TypeOK'
  OBVIOUS
<1>1. CASE UNCHANGED vars
  BY <1>1 DEF vars, status, records, thread, budget, TypeOK
<1>2. ASSUME NEW kind \in JobKinds, Deliver(kind) PROVE TypeOK'
  <2>1. job' \in JobRow /\ jobsLeft' \in 0..MaxJobs
    BY <1>2, ReviewAssumption DEF Deliver, JobRow, TypeOK
  <2> QED
    BY <1>2, <2>1 DEF Deliver, status, records, thread, TypeOK
<1> QED
  BY <1>1, <1>2, WorkerKeepsTypes, SubmitKeepsTypes, HandleKeepsTypes DEF Next

-----------------------------------------------------------------------------
(* What a step does to the request handlers: nothing, or a change of one   *)
(* of them that starts it, ends it or moves it on with what it holds.      *)
Started(q) == /\ api'[q].pc \in {"decide", "audit"} /\ api'[q].answer \in Answers
              /\ api'[q].seen = pending /\ api'[q].run = NoCheckpoint
              /\ api'[q].kind = IF api'[q].pc = "decide" THEN "review" ELSE "publish"
MovedOn(q) == /\ api[q].pc # "idle" /\ api'[q].pc # "idle"
              /\ api'[q].kind = api[q].kind /\ api'[q].seen = api[q].seen
              /\ api'[q].answer = api[q].answer
Moved(q) == Started(q) \/ api'[q] = ApiIdle \/ MovedOn(q)

LEMMA SubmitStarts ==
  ASSUME TypeOK, NEW q \in Requests, Submit(q) PROVE Started(q) /\ api[q].pc = "idle"
<1>1. ASSUME NEW answer \in Answers, SubmitReview(q, answer) PROVE Started(q)
  BY <1>1 DEF SubmitReview, ApiIdle, Started, TypeOK
<1>2. ASSUME NEW answer \in PublicationAnswers, SubmitPublication(q, answer) PROVE Started(q)
  BY <1>2, ReviewAssumption DEF SubmitPublication, ApiIdle, Started, TypeOK, Answers
<1>3. api[q] = ApiIdle
  BY DEF Submit, SubmitReview, SubmitPublication
<1>4. ApiIdle.pc = "idle"
  BY DEF ApiIdle
<1> QED
  BY <1>1, <1>2, <1>3, <1>4 DEF Submit

LEMMA ApiMoves ==
  ASSUME TypeOK, NEW q \in Requests, Submit(q) \/ Handle(q) \/ ApiLost(q)
  PROVE  /\ Moved(q)
         /\ \A p \in Requests \ {q} : api'[p] = api[p]
         /\ UNCHANGED <<worker, job>>
<1>1. ASSUME NEW from, NEW to, from # "idle", to # "idle", ApiStep(q, from, to)
      PROVE  MovedOn(q) /\ \A p \in Requests \ {q} : api'[p] = api[p]
  BY <1>1 DEF ApiStep, MovedOn, TypeOK, ApiRow
<1>2. ASSUME ApiEnds(q)
      PROVE  api'[q] = ApiIdle /\ \A p \in Requests \ {q} : api'[p] = api[p]
  BY <1>2 DEF ApiEnds, TypeOK
<1>3. CASE Submit(q)
  <2>1. (\A p \in Requests \ {q} : api'[p] = api[p]) /\ UNCHANGED <<worker, job>>
    BY <1>3 DEF Submit, SubmitReview, SubmitPublication, TypeOK
  <2> QED
    BY <1>3, <2>1, SubmitStarts DEF Moved
<1>5. CASE \E by \in Reviewers : Decide(q, by)
  BY <1>5, <1>1 DEF Decide, Moved
<1>6. CASE DecideRefused(q) \/ ResumeRefused(q) \/ ApiSyncRefused(q) \/ ApiLost(q)
  BY <1>6, <1>2 DEF DecideRefused, ResumeRefused, ApiSyncRefused, ApiLost, Moved
<1>7. CASE ReadForDecision(q) \/ ReadToSettle(q)
  BY <1>7, <1>1 DEF ReadForDecision, ReadToSettle, ReadBeforeMove, Moved
<1>8. CASE Advance(q)
  BY <1>8, <1>1 DEF Advance, ApiMove, Moved
<1>9. CASE Settle(q)
  BY <1>9, <1>2 DEF Settle, ApiMove, Moved
<1>10. CASE AdvanceRefused(q) \/ SettleRefused(q)
  BY <1>10, <1>2 DEF AdvanceRefused, SettleRefused, ApiMoveRefused, Moved
<1>11. CASE AppendPublicationEvent(q)
  BY <1>11, <1>1 DEF AppendPublicationEvent, Moved
<1>12. CASE Resume(q)
  BY <1>12 DEF Resume, MovedOn, Moved, TypeOK, ApiRow
<1>13. CASE \E d \in Drafts : ApiRunEnds(q, d)
  BY <1>13 DEF ApiRunEnds, MovedOn, Moved, TypeOK, ApiRow
<1>14. CASE ApiSync(q)
  BY <1>14, <1>1 DEF ApiSync, Moved
<1> QED
  BY <1>3, <1>5, <1>6, <1>7, <1>8, <1>9, <1>10, <1>11, <1>12, <1>13, <1>14 DEF Handle

LEMMA AnsweredKept == TypeOK /\ Answered /\ [Next]_vars => Answered'
<1> SUFFICES ASSUME TypeOK, Answered, [Next]_vars PROVE Answered'
  OBVIOUS
<1>1. CASE \E q \in Requests : Submit(q) \/ Handle(q) \/ ApiLost(q)
  BY <1>1, ApiMoves DEF Answered, Moved, Started, MovedOn, ApiIdle
<1>2. CASE api' = api
  BY <1>2 DEF Answered
<1>3. UNCHANGED vars \/ (\E kind \in JobKinds : Deliver(kind)) \/ Worker \/ WorkerFails => api' = api
  BY DEF vars, Deliver, Worker, WorkerFails, WorkerLost, HandlerFails, StartJob, WorkerMove, Receive, Collect, Analyze,
         Revise, Resolve, Reopen, Invoke, WorkerRunEnds, WorkerSync, Finish, JobDone,
         JobRaises, DeadLettered
<1> QED
  BY <1>1, <1>2, <1>3 DEF Next

(* What only some of the handlers' steps change.                           *)
GraphSteps(q) == Resume(q) \/ \E d \in Drafts : ApiRunEnds(q, d)
OtherRecords == UNCHANGED <<decisions, approved, graph, analyses, published>>
LEMMA ApiWrites ==
  ASSUME TypeOK, NEW q \in Requests, Submit(q) \/ Handle(q) \/ ApiLost(q)
  PROVE  \/ \E by \in Reviewers : Decide(q, by)
         \/ AppendPublicationEvent(q)
         \/ GraphSteps(q)
         \/ /\ OtherRecords
            /\ api'[q].run \in {NoCheckpoint, api[q].run}
            /\ api'[q].pc # "decide" \/ Started(q)
            /\ api'[q].pc = "resume" => api[q].pc = "advance"
            /\ api'[q].pc \in {"read", "advance"} => api[q].pc = "read"
            /\ api'[q].pc # "audit" \/ Started(q)
            /\ MovedOn(q) => api[q].pc # "decide"
<1> DEFINE quiet == /\ OtherRecords
                    /\ api'[q].run \in {NoCheckpoint, api[q].run}
                    /\ api'[q].pc # "decide" \/ Started(q)
                    /\ api'[q].pc = "resume" => api[q].pc = "advance"
                    /\ api'[q].pc \in {"read", "advance"} => api[q].pc = "read"
                    /\ api'[q].pc # "audit" \/ Started(q)
                    /\ MovedOn(q) => api[q].pc # "decide"
<1>0. api \in [Requests -> ApiRow]
  BY DEF TypeOK
<1>1. ASSUME ApiEnds(q), OtherRecords PROVE quiet
  BY <1>0, <1>1 DEF ApiEnds, ApiIdle, MovedOn
<1>2. CASE DecideRefused(q) \/ ResumeRefused(q) \/ ApiSyncRefused(q) \/ ApiLost(q)
  BY <1>2, <1>1
     DEF DecideRefused, ResumeRefused, ApiSyncRefused, ApiLost, OtherRecords, records, thread
<1>3. CASE AdvanceRefused(q) \/ SettleRefused(q) \/ Settle(q)
  BY <1>3, <1>1
     DEF AdvanceRefused, SettleRefused, Settle, ApiMove, ApiMoveRefused, OtherRecords,
         records, thread
<1>4. CASE Submit(q)
  <2>1. OtherRecords
    BY <1>4 DEF Submit, SubmitReview, SubmitPublication, OtherRecords, records, thread
  <2>2. Started(q) /\ api[q].pc = "idle"
    BY <1>4, SubmitStarts
  <2> QED
    BY <2>1, <2>2 DEF Started, MovedOn
<1>5. CASE ReadForDecision(q) \/ ReadToSettle(q) \/ Advance(q) \/ ApiSync(q)
  <2>1. OtherRecords
    BY <1>5 DEF ReadForDecision, ReadToSettle, ReadBeforeMove, Advance, ApiMove, ApiSync,
                OtherRecords, records, thread
  <2>2. \/ ApiStep(q, "read", "advance") \/ ApiStep(q, "settle", "settled")
        \/ ApiStep(q, "advance", "resume") \/ ApiStep(q, "sync", "settle")
    BY <1>5 DEF ReadForDecision, ReadToSettle, ReadBeforeMove, Advance, ApiMove, ApiSync
  <2> QED
    BY <1>0, <2>1, <2>2 DEF ApiStep, ApiRow
<1> QED
  BY <1>2, <1>3, <1>4, <1>5 DEF Handle, GraphSteps

-----------------------------------------------------------------------------
(* Approval reaches the publish node.                                      *)
ApprovedInv == RunsApproved /\ ResumesApproved /\ PublishedWasApproved

LEMMA FinishApproved ==
  ASSUME TypeOK, NEW c \in Checkpoint, NEW d, ApprovedAt(c), PublishedWasApproved,
         FinishRun(c, d), c.at = "collect" \/ d # None, approved' = approved
  PROVE  ApprovedAt(graph)' /\ PublishedWasApproved'
<1>1. graph' = RunEnds(c, d) /\ c.at \in Places \cup {None}
  BY DEF FinishRun, Checkpoint
<1>2. ApprovedAt(graph)'
  BY <1>1 DEF RunEnds, ApprovedAt, Checkpoint
<1>3. PublishedWasApproved'
  BY DEF FinishRun, ApprovedAt, PublishedWasApproved
<1> QED
  BY <1>2, <1>3

LEMMA WorkerApproved ==
  ASSUME TypeOK, ApprovedInv, Worker \/ WorkerFails \/ \E kind \in JobKinds : Deliver(kind)
  PROVE  ApprovedInv'
<1>1. approved' = approved /\ api' = api
  BY DEF Deliver, Worker, WorkerFails, WorkerLost, HandlerFails, StartJob, WorkerMove, Receive, Collect, Analyze,
         Revise, Resolve, Reopen, Invoke, WorkerRunEnds, WorkerSync, Finish, JobDone,
         JobRaises, DeadLettered, records
<1>2. ResumesApproved' /\ \A q \in Requests : ApprovedAt(api[q].run)'
  BY <1>1 DEF ApprovedInv, RunsApproved, ResumesApproved, KindOk, ApprovedAt
<1>3. CASE Invoke
  <2>1. graph \in Checkpoint /\ published' = published
    BY <1>3 DEF Invoke, TypeOK
  <2>2. graph'.at = "collect" /\ worker'.run.at = "collect"
    BY <1>3, <2>1 DEF Invoke, NewRun, Checkpoint
  <2> QED
    BY <1>1, <1>2, <2>1, <2>2 DEF ApprovedInv, RunsApproved, ApprovedAt, PublishedWasApproved
<1>4. CASE WorkerRunEnds
  <2>1. /\ worker.run \in Checkpoint /\ worker.run.at = "collect"
        /\ FinishRun(worker.run, None) /\ worker'.pc = "sync"
    BY <1>4 DEF WorkerRunEnds, ApprovedInv, RunsApproved, TypeOK, WorkerRow
  <2>2. ApprovedAt(worker.run)
    BY <2>1 DEF ApprovedAt
  <2>3. ApprovedAt(graph)' /\ PublishedWasApproved'
    BY <1>1, <2>1, <2>2, FinishApproved DEF ApprovedInv
  <2> QED
    BY <1>2, <2>1, <2>3 DEF ApprovedInv, RunsApproved
<1>5. CASE ~Invoke /\ ~WorkerRunEnds
  <2>1. graph' = graph /\ published' = published
    BY <1>5 DEF Deliver, Worker, WorkerFails, WorkerLost, HandlerFails, StartJob, WorkerMove, Receive, Collect, Analyze,
         Revise, Resolve, Reopen, WorkerSync, Finish, JobDone, JobRaises, DeadLettered, thread
  <2>2. worker'.pc = "running" => worker' = worker
    BY <1>5 DEF Deliver, Worker, WorkerFails, WorkerLost, HandlerFails, StartJob, WorkerMove, Receive, Collect, Analyze,
         Revise, Resolve, Reopen, WorkerSync, Finish, JobDone, JobRaises, DeadLettered,
         WorkerStep, FirstStep, WorkerIdle, TypeOK, WorkerRow
  <2> QED
    BY <1>1, <1>2, <2>1, <2>2 DEF ApprovedInv, RunsApproved, ApprovedAt, PublishedWasApproved
<1> QED
  BY <1>3, <1>4, <1>5

(* What a resume may do: only the publication's own digest publishes.      *)
LEMMA ResumeApproved ==
  ASSUME TypeOK, ApprovedInv, ShownRedacted, NEW q \in Requests, Resume(q)
  PROVE  ApprovedAt(Resumed(graph, api[q].answer))
<1>1. ApprovedAt(graph) /\ KindOk(q) /\ api[q].pc = "resume" /\ graph \in Checkpoint
  BY DEF ApprovedInv, RunsApproved, ResumesApproved, Resume, TypeOK
<1>2. CASE graph.at = "publish_review" /\ api[q].answer = "approved"
  <2>1. graph.draft = Shown(q) /\ graph.draft # None
    BY <1>1, <1>2 DEF Resume, Refused, DigestOk, ApprovedAt
  <2>2. api[q].kind = "publish" /\ graph.draft = api[q].seen.draft
    BY <2>1 DEF Shown
  <2>3. Display(graph.draft) \in approved
    BY <1>1, <1>2, <2>2 DEF ApprovedInv, ResumesApproved, ShownRedacted, Shows
  <2> QED
    BY <1>1, <1>2, <2>1, <2>3 DEF Resumed, ApprovedAt, Checkpoint
<1>3. CASE ~(graph.at = "publish_review" /\ api[q].answer = "approved")
  BY <1>1, <1>3 DEF Resumed, ApprovedAt, Checkpoint
<1> QED
  BY <1>2, <1>3

LEMMA KindsKept ==
  ASSUME TypeOK, ResumesApproved, NEW q \in Requests, Submit(q) \/ Handle(q) \/ ApiLost(q)
  PROVE  \A p \in Requests : KindOk(p)'
<1>1. Moved(q) /\ \A p \in Requests \ {q} : api'[p] = api[p]
  BY ApiMoves
<1>2. KindOk(q)'
  <2>1. KindOk(q)
    BY DEF ResumesApproved
  <2>2. CASE Started(q) \/ api'[q] = ApiIdle
    BY <2>2 DEF Started, ApiIdle, KindOk
  <2>3. CASE MovedOn(q) /\ ~Started(q)
    <3>1. /\ api'[q].kind = api[q].kind
          /\ api'[q].kind \in {"review", "publish"}
      BY <2>1, <2>3 DEF MovedOn, KindOk
    <3>2. CASE \E by \in Reviewers : Decide(q, by)
      <4>1. api[q].pc = "decide" /\ api'[q].pc = "read"
        BY <3>2 DEF Decide, ApiStep, TypeOK, ApiRow
      <4> QED
        BY <2>1, <3>1, <4>1 DEF KindOk
    <3>3. CASE AppendPublicationEvent(q)
      <4>1. api'[q].pc = "resume"
        BY <3>3 DEF AppendPublicationEvent, ApiStep, TypeOK, ApiRow
      <4> QED
        BY <3>1, <4>1 DEF KindOk
    <3>4. CASE GraphSteps(q)
      <4>1. api'[q].pc \in {"running", "sync"}
        BY <3>4 DEF GraphSteps, Resume, ApiRunEnds, TypeOK, ApiRow
      <4> QED
        BY <3>1, <4>1 DEF KindOk
    <3>5. CASE ~GraphSteps(q) /\ ~AppendPublicationEvent(q) /\ ~\E by \in Reviewers : Decide(q, by)
      <4>1. /\ api'[q].pc # "decide" /\ api'[q].pc # "audit"
            /\ api'[q].pc \in {"read", "advance"} => api[q].pc = "read"
        BY <2>3, <3>5, ApiWrites
      <4> QED
        BY <2>1, <3>1, <4>1 DEF KindOk
    <3> QED
      BY <3>2, <3>3, <3>4, <3>5
  <2> QED
    BY <1>1, <2>2, <2>3 DEF Moved
<1> QED
  BY <1>1, <1>2 DEF ResumesApproved, KindOk

LEMMA HandleApproved ==
  ASSUME TypeOK, ApprovedInv, ShownRedacted, NEW q \in Requests,
         Submit(q) \/ Handle(q) \/ ApiLost(q)
  PROVE  ApprovedInv'
<1>1. /\ Moved(q) /\ worker' = worker
      /\ \A p \in Requests \ {q} : api'[p] = api[p]
  BY ApiMoves
<1>2. /\ RunsApproved /\ ResumesApproved /\ PublishedWasApproved /\ KindOk(q)
      /\ api[q].run \in Checkpoint /\ graph \in Checkpoint /\ api[q] \in ApiRow
  BY DEF ApprovedInv, ResumesApproved, TypeOK, ApiRow
<1>3. \A p \in Requests : KindOk(p)'
  BY <1>2, KindsKept
<1>4. CASE AppendPublicationEvent(q)
  <2>1. /\ approved \subseteq approved'
        /\ api[q].answer = "approved" => api[q].seen.draft \in approved'
        /\ UNCHANGED <<graph, analyses, published>>
        /\ api' = [api EXCEPT ![q].pc = "resume"]
    BY <1>4 DEF AppendPublicationEvent, ApiStep, thread
  <2>2. /\ api'[q].run = api[q].run /\ api'[q].seen = api[q].seen
        /\ api'[q].answer = api[q].answer
    BY <1>2, <2>1 DEF TypeOK, ApiRow
  <2>3. RunsApproved' /\ PublishedWasApproved'
    BY <1>1, <1>2, <2>1, <2>2 DEF RunsApproved, ApprovedAt, PublishedWasApproved
  <2>4. ResumesApproved'
    BY <1>1, <1>2, <1>3, <2>1, <2>2 DEF ResumesApproved
  <2> QED
    BY <2>3, <2>4 DEF ApprovedInv
<1>5. CASE Resume(q)
  <2>1. ApprovedAt(Resumed(graph, api[q].answer))
    BY <1>5, ResumeApproved
  <2>2. /\ graph' = Resumed(graph, api[q].answer) /\ UNCHANGED <<approved, published>>
        /\ api'[q].run = graph' /\ api'[q].pc = "running"
    BY <1>5, <1>2 DEF Resume, records, TypeOK, ApiRow
  <2>3. RunsApproved' /\ PublishedWasApproved'
    BY <1>1, <1>2, <2>1, <2>2 DEF RunsApproved, ApprovedAt, PublishedWasApproved
  <2>4. ResumesApproved'
    BY <1>1, <1>2, <1>3, <2>2 DEF ResumesApproved
  <2> QED
    BY <2>3, <2>4 DEF ApprovedInv
<1>6. ASSUME NEW d \in Drafts, ApiRunEnds(q, d) PROVE ApprovedInv'
  <2>1. /\ FinishRun(api[q].run, d) /\ approved' = approved /\ d # None
        /\ api'[q].run = graph' /\ api'[q].pc = "sync"
    BY <1>6, <1>2, ReviewAssumption DEF ApiRunEnds, records, TypeOK, ApiRow
  <2>2. ApprovedAt(api[q].run)
    BY <1>2 DEF RunsApproved
  <2>3. ApprovedAt(graph)' /\ PublishedWasApproved'
    BY <1>2, <2>1, <2>2, FinishApproved
  <2>4. RunsApproved'
    BY <1>1, <1>2, <2>1, <2>3 DEF RunsApproved, ApprovedAt
  <2>5. ResumesApproved'
    BY <1>1, <1>2, <1>3, <2>1 DEF ResumesApproved
  <2> QED
    BY <2>3, <2>4, <2>5 DEF ApprovedInv
<1>7. CASE /\ OtherRecords
           /\ api'[q].run \in {NoCheckpoint, api[q].run}
           /\ api'[q].pc = "resume" => api[q].pc = "advance"
  <2>1. UNCHANGED <<approved, graph, published>>
    BY <1>7 DEF OtherRecords
  <2>2. ApprovedAt(api[q].run)'
    BY <1>2, <1>7, <2>1, ReviewAssumption DEF RunsApproved, ApprovedAt, NoCheckpoint
  <2>3. RunsApproved' /\ PublishedWasApproved'
    BY <1>1, <1>2, <2>1, <2>2 DEF RunsApproved, ApprovedAt, PublishedWasApproved
  <2>4. api'[q].pc = "resume" => api'[q].kind = "review"
    BY <1>1, <1>2, <1>7 DEF Moved, Started, ApiIdle, MovedOn, KindOk
  <2>5. ResumesApproved'
    BY <1>1, <1>2, <1>3, <2>1, <2>4 DEF ResumesApproved
  <2> QED
    BY <2>3, <2>5 DEF ApprovedInv
<1>8. CASE \E by \in Reviewers : Decide(q, by)
  <2>2. UNCHANGED <<approved, graph, published>>
    BY <1>8 DEF Decide, thread
  <2>3. api'[q].run = api[q].run /\ api'[q].pc = "read"
    BY <1>8, <1>2 DEF Decide, ApiStep, TypeOK, ApiRow
  <2>4. RunsApproved' /\ PublishedWasApproved'
    BY <1>1, <1>2, <2>2, <2>3 DEF RunsApproved, ApprovedAt, PublishedWasApproved
  <2>5. ResumesApproved'
    BY <1>1, <1>2, <1>3, <2>2, <2>3 DEF ResumesApproved
  <2> QED
    BY <2>4, <2>5 DEF ApprovedInv
<1> QED
  BY <1>4, <1>5, <1>6, <1>7, <1>8, ApiWrites DEF GraphSteps

-----------------------------------------------------------------------------
(* What reviewers are shown went through redaction.                        *)
LEMMA ShownKept == TypeOK /\ ShownRedacted /\ [Next]_vars => ShownRedacted'
<1> SUFFICES ASSUME TypeOK, ShownRedacted, [Next]_vars PROVE ShownRedacted'
  OBVIOUS
<1>1. ASSUME NEW c \in Checkpoint, AddPending(c) PROVE Shows(pending)'
  <2>1. pending'.draft = Display(c.draft)
    BY <1>1, AddPendingType
  <2>2. c.draft \in Drafts \cup {None}
    BY DEF Checkpoint
  <2> QED
    BY <2>1, <2>2, DisplayFacts DEF Shows
<1>2. Shows(NoPending)
  BY ReviewAssumption DEF Shows, Display, NoPending
<1>3. CASE \E q \in Requests : Submit(q) \/ Handle(q) \/ ApiLost(q)
  <2>1. PICK q \in Requests : Submit(q) \/ Handle(q) \/ ApiLost(q)
    BY <1>3
  <2>2. Moved(q) /\ \A p \in Requests \ {q} : api'[p] = api[p]
    BY <2>1, ApiMoves
  <2>3. ApiIdle.seen = NoPending
    BY DEF ApiIdle
  <2>4. \A p \in Requests : Shows(api[p].seen)'
    BY <1>2, <2>2, <2>3 DEF ShownRedacted, Shows, Moved, Started, MovedOn
  <2>5. CASE ApiSync(q)
    <3>1. api[q].run \in Checkpoint
      BY DEF TypeOK, ApiRow
    <3>2. AddPending(api[q].run) \/ pending' = NoPending
      BY <2>5 DEF ApiSync
    <3> QED
      BY <1>1, <1>2, <2>4, <3>1, <3>2 DEF ShownRedacted, Shows
  <2>6. CASE ~ApiSync(q)
    <3>1. pending' = pending
      BY <2>1, <2>6
         DEF Submit, SubmitReview, SubmitPublication, Handle, Decide, DecideRefused,
             ReadForDecision, ReadToSettle, ReadBeforeMove, Advance, Settle, ApiMove,
             AdvanceRefused, SettleRefused, ApiMoveRefused, AppendPublicationEvent, Resume,
             ResumeRefused, ApiRunEnds, ApiSyncRefused, ApiLost, records
    <3> QED
      BY <2>4, <3>1 DEF ShownRedacted, Shows
  <2> QED
    BY <2>5, <2>6
<1>4. CASE WorkerSync
  <2>1. worker.run \in Checkpoint /\ AddPending(worker.run) /\ api' = api
    BY <1>4 DEF WorkerSync, TypeOK, WorkerRow
  <2> QED
    BY <1>1, <2>1 DEF ShownRedacted, Shows
<1>5. CASE /\ ~WorkerSync
           /\ Worker \/ WorkerFails \/ UNCHANGED vars \/ \E kind \in JobKinds : Deliver(kind)
  <2>1. pending' = pending /\ api' = api
    BY <1>5
       DEF vars, Deliver, Worker, WorkerFails, WorkerLost, HandlerFails, StartJob, WorkerMove, Receive, Collect, Analyze,
           Revise, Resolve, Reopen, Invoke, WorkerRunEnds, Finish, JobDone, JobRaises,
           DeadLettered, records
  <2> QED
    BY <2>1 DEF ShownRedacted, Shows
<1> QED
  BY <1>3, <1>4, <1>5 DEF Next

-----------------------------------------------------------------------------
(* One decision for a pending revision.                                    *)
LEMMA OneWinnerKept == TypeOK /\ Answered /\ ResumesApproved /\ OneWinner /\ [Next]_vars => OneWinner'
<1> SUFFICES ASSUME TypeOK, Answered, ResumesApproved, OneWinner, [Next]_vars PROVE OneWinner'
  OBVIOUS
<1>1. CASE UNCHANGED <<api, decisions>>
  BY <1>1 DEF OneWinner, Deciding
<1>2. ASSUME NEW q \in Requests, Submit(q) \/ Handle(q) \/ ApiLost(q) PROVE OneWinner'
  <2>1. Moved(q) /\ \A p \in Requests \ {q} : api'[p] = api[p]
    BY <1>2, ApiMoves
  <2>2. \A p \in Requests \ {q} :
           /\ Deciding(p)' <=> Deciding(p)
           /\ api'[p].seen = api[p].seen /\ api'[p].answer = api[p].answer
    BY <2>1 DEF Deciding
  <2>3. ASSUME NEW by \in Reviewers, Decide(q, by) PROVE OneWinner'
    <3> DEFINE v == api[q].seen.version
    <3>1. /\ api[q].pc = "decide" /\ api' = [api EXCEPT ![q].pc = "read"]
          /\ decisions[v] = None
          /\ decisions' = [decisions EXCEPT ![v] = [answer |-> api[q].answer, by |-> by]]
      BY <2>3 DEF Decide, ApiStep, MayDecide
    <3>2. api[q] \in ApiRow /\ v \in Versions
      BY DEF TypeOK, ApiRow, PendingRow
    <3>3. /\ api'[q].pc = "read" /\ api'[q].seen = api[q].seen
          /\ api'[q].answer = api[q].answer /\ api'[q].kind = api[q].kind
      BY <3>1, <3>2 DEF TypeOK, ApiRow
    <3>4. /\ decisions'[v] = [answer |-> api[q].answer, by |-> by]
          /\ \A u \in Versions \ {v} : decisions'[u] = decisions[u]
      BY <3>1, <3>2 DEF TypeOK
    <3>5. \A p \in Requests : api[p].seen.version \in Versions
      BY DEF TypeOK, ApiRow, PendingRow
    <3>6. \A p \in Requests \ {q} : Deciding(p) => api[p].seen.version # v
      BY <3>1 DEF OneWinner
    <3>7. decisions'[v] # None /\ decisions'[v].answer = api[q].answer
      <4>1. api[q].answer \in {"approved", "rejected"}
        BY <3>1 DEF Answered, Answers
      <4> QED
        BY <3>4, <4>1, ReviewAssumption
    <3>8. \A p \in Requests : Deciding(p)' =>
             decisions'[api'[p].seen.version] # None
             /\ decisions'[api'[p].seen.version].answer = api'[p].answer
      BY <2>2, <3>3, <3>4, <3>5, <3>6, <3>7 DEF OneWinner
    <3>9. \A p, r \in Requests : Deciding(p)' /\ Deciding(r)' /\ p # r =>
             api'[p].seen.version # api'[r].seen.version
      BY <2>2, <3>3, <3>6 DEF OneWinner
    <3> QED
      BY <3>8, <3>9 DEF OneWinner
  <2>4. CASE decisions' = decisions /\ (MovedOn(q) => api[q].pc # "decide")
    <3>1. Deciding(q)' => Deciding(q) /\ api'[q].seen = api[q].seen /\ api'[q].answer = api[q].answer
      BY <2>1, <2>4 DEF Deciding, Moved, MovedOn, ApiIdle, Started
    <3> QED
      BY <2>2, <2>4, <3>1 DEF OneWinner
  <2>5. CASE AppendPublicationEvent(q) \/ GraphSteps(q)
    <3>1. decisions' = decisions /\ api[q].pc # "decide"
      BY <2>5 DEF AppendPublicationEvent, GraphSteps, Resume, ApiRunEnds, ApiStep, records
    <3> QED
      BY <2>4, <3>1
  <2> QED
    BY <1>2, <2>3, <2>4, <2>5, ApiWrites DEF OtherRecords
<1>3. CASE Worker \/ WorkerFails \/ \E kind \in JobKinds : Deliver(kind)
  <2>1. UNCHANGED <<api, decisions>>
    BY <1>3
       DEF Deliver, Worker, WorkerFails, WorkerLost, HandlerFails, StartJob, WorkerMove, Receive, Collect, Analyze,
           Revise, Resolve, Reopen, Invoke, WorkerRunEnds, WorkerSync, Finish, JobDone,
           JobRaises, DeadLettered, records
  <2> QED
    BY <1>1, <2>1
<1>4. CASE UNCHANGED vars
  BY <1>1, <1>4 DEF vars, records
<1> QED
  BY <1>2, <1>3, <1>4 DEF Next

-----------------------------------------------------------------------------
(* "received" is where a first alert or a reopening puts an incident, and  *)
(* the requests never do.                                                  *)
ReviewTargets == Statuses \ {"received", "resolved"}

LEMMA ApiLifecycle ==
  ASSUME TypeOK, NEW q \in Requests, Submit(q) \/ Handle(q) \/ ApiLost(q)
  PROVE  lifecycle' # lifecycle =>
            lifecycle # None /\ lifecycle # "resolved"
<1>1. ASSUME NEW from, NEW target \in ReviewTargets, NEW to, ApiMove(q, from, target, to)
      PROVE  lifecycle # None /\ lifecycle # "resolved"
  <2>1. target \in Allowed(lifecycle) /\ target # "received"
    BY <1>1 DEF ApiMove, CanMoveFrom, CanMove, ReviewTargets
  <2> QED
    BY <2>1 DEF Allowed, AllowedFrom
<1>2. CASE Advance(q)
  BY <1>2, <1>1 DEF Advance, ReviewTarget, ReviewTargets, Statuses
<1>3. CASE Settle(q)
  BY <1>3, <1>1 DEF Settle, FinalStatus, ReviewTargets, Statuses
<1>4. CASE ~Advance(q) /\ ~Settle(q)
  BY <1>4
     DEF Submit, SubmitReview, SubmitPublication, Handle, Decide, DecideRefused,
         ReadForDecision, ReadToSettle, ReadBeforeMove, ReadLifecycle, AdvanceRefused,
         SettleRefused, ApiMoveRefused, AppendPublicationEvent, Resume, ResumeRefused,
         ApiRunEnds, ApiSync, ApiSyncRefused, ApiLost, status
<1> QED
  BY <1>2, <1>3, <1>4

LEMMA WorkerLifecycle ==
  ASSUME TypeOK, FirstReceived, Worker \/ WorkerFails \/ \E kind \in JobKinds : Deliver(kind)
  PROVE  /\ lifecycle = "resolved" /\ lifecycle' # "resolved" =>
               worker.pc = "reopen" /\ worker'.pc = "invoke"
         /\ FirstReceived'
<1>w. worker \in WorkerRow
  BY DEF TypeOK
<1>1. CASE StartJob
  <2>1. lifecycle' = lifecycle /\ worker'.pc = FirstStep(lifecycle)
    BY <1>1, <1>w DEF StartJob, WorkerStep, ReadLifecycle, WorkerRow
  <2> QED
    BY <1>1, <2>1 DEF StartJob, FirstStep, FirstReceived
<1>2. CASE Receive
  <2>1. lifecycle = None /\ worker'.pc = "collect"
    BY <1>2, <1>w DEF Receive, WorkerMove, WorkerStep, FirstReceived, WorkerRow
  <2> QED
    BY <2>1, ReviewAssumption DEF FirstReceived
<1>3. ASSUME NEW step \in {"collect", "analyze", "revise", "resolve", "finish"},
             NEW next \in {"analyze", "invoke", "done"}, WorkerMove(step, next)
      PROVE  /\ lifecycle = "resolved" => lifecycle' = "resolved"
             /\ worker'.pc # "receive"
  <2>1. worker'.pc = next
    BY <1>3, <1>w DEF WorkerMove, WorkerStep, WorkerRow
  <2>2. WorkerTarget[step] \in Allowed(lifecycle) /\ WorkerTarget[step] # "received"
    BY <1>3 DEF WorkerMove, WorkerMayMove, CanMove, WorkerTarget
  <2>3. lifecycle # "resolved"
    BY <2>2, ReviewAssumption DEF Allowed, AllowedFrom
  <2> QED
    BY <2>1, <2>3
<1>4. CASE Collect \/ Analyze \/ Revise \/ Resolve \/ Finish
  BY <1>3, <1>4 DEF Collect, Analyze, Revise, Resolve, Finish, FirstReceived
<1>5. CASE Reopen
  BY <1>5, <1>w DEF Reopen, WorkerStep, WorkerRow, FirstReceived
<1>6. CASE \/ Invoke \/ WorkerRunEnds \/ WorkerSync \/ JobDone \/ JobRaises
           \/ DeadLettered \/ WorkerFails \/ \E kind \in JobKinds : Deliver(kind)
  <2>1. lifecycle' = lifecycle
    BY <1>6 DEF Invoke, WorkerRunEnds, WorkerSync, JobDone, JobRaises, DeadLettered,
                WorkerFails, WorkerLost, HandlerFails, Deliver, status
  <2>2. worker'.pc = "receive" => worker.pc = "receive"
    BY <1>6, <1>w DEF Invoke, WorkerRunEnds, WorkerSync, WorkerStep, JobDone, JobRaises,
                DeadLettered, WorkerFails, WorkerLost, HandlerFails, Deliver, WorkerIdle, WorkerRow
  <2> QED
    BY <2>1, <2>2 DEF FirstReceived
<1> QED
  BY <1>1, <1>2, <1>4, <1>5, <1>6 DEF Worker

-----------------------------------------------------------------------------
LEMMA InitReviewInv == Init => ReviewInv
<1> SUFFICES ASSUME Init PROVE ReviewInv
  OBVIOUS
<1>1. Answered /\ FirstReceived /\ ShownRedacted
  BY ReviewAssumption
     DEF Init, Answered, FirstReceived, ShownRedacted, Shows, Display, NoPending, ApiIdle,
         WorkerIdle
<1>2. RunsApproved /\ ResumesApproved /\ PublishedWasApproved
  BY ReviewAssumption
     DEF Init, RunsApproved, ResumesApproved, PublishedWasApproved, KindOk, ApprovedAt,
         NoCheckpoint, ApiIdle, WorkerIdle
<1>3. OneWinner
  BY DEF Init, OneWinner, Deciding, ApiIdle
<1> QED
  BY <1>1, <1>2, <1>3, InitTypeOK DEF ReviewInv

LEMMA ReviewInvStep == ReviewInv /\ [Next]_vars => ReviewInv'
<1> SUFFICES ASSUME ReviewInv, [Next]_vars PROVE ReviewInv'
  OBVIOUS
<1>1. TypeOK /\ Answered /\ ApprovedInv /\ OneWinner /\ FirstReceived /\ ShownRedacted
  BY DEF ReviewInv, ApprovedInv
<1>2. (TypeOK /\ Answered)'
  BY <1>1, StepKeepsTypes, AnsweredKept
<1>3. OneWinner'
  BY <1>1, OneWinnerKept DEF ApprovedInv
<1>4. (ApprovedInv /\ FirstReceived)'
  <2>1. CASE Worker \/ WorkerFails \/ \E kind \in JobKinds : Deliver(kind)
    BY <1>1, <2>1, WorkerApproved, WorkerLifecycle
  <2>2. ASSUME NEW q \in Requests, Submit(q) \/ Handle(q) \/ ApiLost(q)
        PROVE  (ApprovedInv /\ FirstReceived)'
    BY <1>1, <2>2, HandleApproved, ApiLifecycle, ApiMoves DEF FirstReceived
  <2>3. CASE UNCHANGED vars
    BY <1>1, <2>3
       DEF vars, status, records, thread, ApprovedInv, RunsApproved, ResumesApproved,
           PublishedWasApproved, ApprovedAt, KindOk, FirstReceived
  <2> QED
    BY <2>1, <2>2, <2>3 DEF Next
<1>5. ShownRedacted'
  BY <1>1, ShownKept
<1> QED
  BY <1>2, <1>3, <1>4, <1>5 DEF ReviewInv, ApprovedInv

(* The strengthened invariant the other theorems use.                      *)
THEOREM ReviewInvHolds == Spec => []ReviewInv
<1>1. Init => ReviewInv
  BY InitReviewInv
<1>2. ReviewInv /\ [Next]_vars => ReviewInv'
  BY ReviewInvStep
<1> QED
  BY <1>1, <1>2, PTL DEF Spec

(* A draft leaves the system only after a stored approval of exactly that  *)
(* draft, whatever runs, requests, reviewers and losses there are.         *)
THEOREM ApprovedBeforePublished == Spec => []PublishedWasApproved
<1>1. ReviewInv => PublishedWasApproved
  BY DEF ReviewInv
<1> QED
  BY <1>1, ReviewInvHolds, PTL

(* Of any number of reviewers of one pending revision one gets through.    *)
THEOREM OneReviewerWins == Spec => []OneWinner
<1>1. ReviewInv => OneWinner
  BY DEF ReviewInv
<1> QED
  BY <1>1, ReviewInvHolds, PTL

(* No late review moves a resolved incident: only a reopening does.        *)
THEOREM OnlyReopeningUndoesResolved == Spec => ResolvedUntilReopened
<1>1. ReviewInv /\ [Next]_vars =>
         [lifecycle = "resolved" /\ lifecycle' # "resolved" =>
             worker.pc = "reopen" /\ worker'.pc = "invoke"]_vars
  <2> SUFFICES ASSUME ReviewInv, [Next]_vars,
                      lifecycle = "resolved", lifecycle' # "resolved"
               PROVE  worker.pc = "reopen" /\ worker'.pc = "invoke"
    OBVIOUS
  <2>1. TypeOK /\ FirstReceived
    BY DEF ReviewInv
  <2>2. ~(\E q \in Requests : Submit(q) \/ Handle(q) \/ ApiLost(q))
    BY <2>1, ApiLifecycle
  <2>3. ~UNCHANGED vars
    BY DEF vars, status
  <2>4. Worker \/ WorkerFails \/ \E kind \in JobKinds : Deliver(kind)
    BY <2>2, <2>3 DEF Next
  <2> QED
    BY <2>1, <2>4, WorkerLifecycle
<1> QED
  BY <1>1, ReviewInvHolds, PTL DEF Spec, ResolvedUntilReopened

-----------------------------------------------------------------------------
(* The records agree whenever nobody is at work, when one process serves   *)
(* the requests.  The phases an incident goes through between its first    *)
(* event and the next one:                                                 *)
(*   Opening -> AtAnalysis -> Reviewing -> AtAnalysis or AtPublication,    *)
(*   AtPublication -> Closed.                                              *)
OneServer == \A p, q \in Requests : Process[p] = Process[q]

(* The pending row offers what checkpoint c holds.                         *)
Offers(c) == /\ pending.version # 0 /\ pending.stage = StageOf(c)
             /\ pending.draft = Display(c.draft) /\ pending.analysis = c.analysis
Sees(q) == api[q].seen.version = pending.version
Opened == /\ jobsLeft < MaxJobs
          /\ worker.pc \in {"finish", "done"} \/ (worker.pc = "idle" /\ job = NoJob)
ReadersOfNow == \A q \in Requests : api[q].pc = "settled" => q \in readers

(* Until the worker writes the first pending row no request finds anything *)
(* to decide.                                                              *)
OpeningStatus ==
    [idle |-> None, done |-> None, receive |-> None, collect |-> "received",
     analyze |-> "collecting", invoke |-> "analyzing", running |-> "analyzing",
     sync |-> "analyzing"]
OpeningPlace(pc) ==
    CASE pc = "running" -> "collect" [] pc = "sync" -> "human_review" [] OTHER -> None
Opening ==
    /\ \A q \in Requests : api[q].pc = "idle"
    /\ pending = NoPending /\ graph.draft = None
    /\ worker.pc \in DOMAIN OpeningStatus
    /\ lifecycle = OpeningStatus[worker.pc]
    /\ graph.at = OpeningPlace(worker.pc)
    /\ worker.pc \in {"running", "sync"} => worker.run = graph
    /\ jobsLeft = MaxJobs => worker.pc = "idle" /\ job = NoJob

(* The graph waits for the analysis review; nobody has moved on from it.   *)
AtAnalysis ==
    /\ Opened
    /\ lifecycle = IF worker.pc = "finish" THEN "analyzing"
                   ELSE "awaiting_analysis_review"
    /\ graph.at = "human_review" /\ graph.draft = None /\ Offers(graph)
    /\ \A q \in Requests :
          /\ api[q].pc \in {"idle", "decide", "read", "advance"}
          /\ api[q].pc # "idle" => Sees(q)

(* The one decision on record is being carried out by q.                   *)
Outcome(q) ==
    IF api[q].answer = "approved"
    THEN graph.at = "publish_review" /\ graph.draft # None
    ELSE graph.at = "human_review" /\ graph.draft = None
Reviewing(q) ==
    /\ Opened /\ worker.pc # "finish"
    /\ api[q].kind = "review"
    /\ api[q].pc \in {"resume", "running", "sync", "settle", "settled"}
    /\ lifecycle = ReviewTarget(api[q].answer)
    /\ \A p \in Requests \ {q} :
          \/ api[p].pc = "idle"
          \/ api[p].pc = "decide" /\ Sees(p) /\ api[q].pc \in Awaiting
    /\ api[q].pc \in Awaiting => Sees(q) /\ pending.stage = "analysis"
    /\ api[q].pc = "resume" => graph.at = "human_review" /\ graph.draft = None
    /\ api[q].pc = "running" =>
          /\ graph.draft = None
          /\ graph.at = IF api[q].answer = "approved" THEN "drafting" ELSE "collect"
    /\ api[q].pc \in {"sync", "settle", "settled"} => Outcome(q)
    /\ api[q].pc # "resume" => api[q].run = graph
    /\ api[q].pc \in {"settle", "settled"} => Offers(graph)

(* The graph waits for the publication review, or requests that were       *)
(* answered carry it on and none of them has removed the pending row.      *)
Publishing(q) ==
    /\ api[q].kind = "publish"
    /\ api[q].pc = "running" => /\ api[q].run.at \in {"publishing", "end"}
                                /\ api[q].run = [graph EXCEPT !.at = api[q].run.at]
    /\ api[q].pc = "sync" => api[q].run.at = "end"
AtPublication ==
    /\ Opened /\ worker.pc # "finish"
    /\ lifecycle = "awaiting_publish_review"
    /\ graph.at \in {"publish_review", "publishing", "end"}
    /\ graph.draft # None /\ Offers(graph)
    /\ \A q \in Requests : api[q].pc # "idle" =>
          /\ api[q].pc \in {"audit", "resume", "running", "sync"}
          /\ Publishing(q) /\ Sees(q)
    /\ \A q \in Requests : api[q].pc = "sync" => graph.at = "end"
    /\ graph.at # "publish_review" =>
          \E q \in Requests : api[q].pc \in {"running", "sync"}

(* One request has removed the pending row; the others find it gone.       *)
Closed ==
    /\ Opened /\ worker.pc # "finish"
    /\ pending = NoPending /\ graph.at = "end"
    /\ \A q \in Requests : api[q].pc # "idle" =>
          /\ api[q].pc \in {"resume", "running", "sync", "settle", "settled"}
          /\ Publishing(q) /\ api[q].seen.version # 0
    /\ IF \E q \in Requests : api[q].pc \in {"settle", "settled"}
       THEN lifecycle = "awaiting_publish_review"
       ELSE lifecycle \in {"completed", "drafting_postmortem"}

Phase == \/ Opening \/ AtAnalysis \/ \E q \in Requests : Reviewing(q)
         \/ AtPublication \/ Closed
GateInv == Undisturbed => ReadersOfNow /\ Phase

-----------------------------------------------------------------------------
(* The phases only look at these.                                          *)
phaseVars == <<status, pending, graph, worker, api, jobsLeft>>
LEMMA PhaseFrame ==
  ASSUME UNCHANGED phaseVars, job' = job \/ job' = NoJob
  PROVE  /\ Opening => (Opening' \/ (jobsLeft = MaxJobs /\ job' # job))
         /\ AtAnalysis => AtAnalysis'
         /\ \A q \in Requests : Reviewing(q) => Reviewing(q)'
         /\ AtPublication => AtPublication'
         /\ Closed => Closed'
         /\ ReadersOfNow => ReadersOfNow'
<1>1. Opened => Opened'
  BY DEF Opened, phaseVars
<1>2. UNCHANGED <<lifecycle, readers, pending, graph, worker, api, jobsLeft>>
  BY DEF phaseVars, status
<1>3. Offers(graph)' <=> Offers(graph)
  BY <1>2 DEF Offers, StageOf, Display
<1>4. \A q \in Requests : /\ Sees(q)' <=> Sees(q)
                          /\ Publishing(q)' <=> Publishing(q)
                          /\ Outcome(q)' <=> Outcome(q)
  BY <1>2 DEF Sees, Publishing, Outcome
<1>5. Opening => (Opening' \/ (jobsLeft = MaxJobs /\ job' # job))
  BY <1>2 DEF Opening, OpeningStatus, OpeningPlace
<1>6. AtAnalysis => AtAnalysis'
  BY <1>1, <1>2, <1>3, <1>4 DEF AtAnalysis
<1>7. \A q \in Requests : Reviewing(q) => Reviewing(q)'
  BY <1>1, <1>2, <1>3, <1>4 DEF Reviewing, ReviewTarget
<1>8. AtPublication => AtPublication'
  BY <1>1, <1>2, <1>3, <1>4 DEF AtPublication
<1>9. Closed => Closed'
  BY <1>1, <1>2, <1>4 DEF Closed
<1>10. ReadersOfNow => ReadersOfNow'
  BY <1>2 DEF ReadersOfNow
<1> QED
  BY <1>5, <1>6, <1>7, <1>8, <1>9, <1>10

(* What a handler can do next is settled by where it is.                   *)
Waits(q) == \A p \in Requests \ {q} : api[p].pc \in Awaiting
LEMMA HandleByPlace ==
  ASSUME OneServer, NEW q \in Requests, Handle(q)
  PROVE  /\ api[q].pc # "idle"
         /\ api[q].pc # "running" => Waits(q)
         /\ api[q].pc = "decide" => (\E by \in Reviewers : Decide(q, by)) \/ DecideRefused(q)
         /\ api[q].pc = "read" => ReadForDecision(q)
         /\ api[q].pc = "advance" => Advance(q) \/ AdvanceRefused(q)
         /\ api[q].pc = "audit" => AppendPublicationEvent(q)
         /\ api[q].pc = "resume" => Resume(q) \/ ResumeRefused(q)
         /\ api[q].pc = "running" => \E d \in Drafts : ApiRunEnds(q, d)
         /\ api[q].pc = "sync" => ApiSync(q) \/ ApiSyncRefused(q)
         /\ api[q].pc = "settle" => ReadToSettle(q)
         /\ api[q].pc = "settled" => Settle(q) \/ SettleRefused(q)
<1> DEFINE pc == api[q].pc
<1>0. /\ \A by \in Reviewers : Decide(q, by) => pc = "decide"
      /\ DecideRefused(q) => pc = "decide"
      /\ ReadForDecision(q) => pc = "read"
      /\ Advance(q) \/ AdvanceRefused(q) => pc = "advance"
      /\ AppendPublicationEvent(q) => pc = "audit"
      /\ Resume(q) \/ ResumeRefused(q) => pc = "resume"
      /\ ApiSync(q) \/ ApiSyncRefused(q) => pc = "sync"
      /\ ReadToSettle(q) => pc = "settle"
      /\ Settle(q) \/ SettleRefused(q) => pc = "settled"
      /\ \A d \in Drafts : ApiRunEnds(q, d) => pc = "running"
  BY DEF Decide, DecideRefused, ReadForDecision, ReadToSettle, ReadBeforeMove,
         Advance, Settle, ApiMove, AdvanceRefused, SettleRefused, ApiMoveRefused,
         AppendPublicationEvent, Resume, ResumeRefused, ApiRunEnds, ApiSync,
         ApiSyncRefused, ApiStep
<1>1. \/ (\E by \in Reviewers : Decide(q, by)) /\ pc = "decide"
      \/ DecideRefused(q) /\ pc = "decide"
      \/ ReadForDecision(q) /\ pc = "read"
      \/ Advance(q) /\ pc = "advance"
      \/ AdvanceRefused(q) /\ pc = "advance"
      \/ AppendPublicationEvent(q) /\ pc = "audit"
      \/ Resume(q) /\ pc = "resume"
      \/ ResumeRefused(q) /\ pc = "resume"
      \/ ApiSync(q) /\ pc = "sync"
      \/ ApiSyncRefused(q) /\ pc = "sync"
      \/ ReadToSettle(q) /\ pc = "settle"
      \/ Settle(q) /\ pc = "settled"
      \/ SettleRefused(q) /\ pc = "settled"
      \/ (\E d \in Drafts : ApiRunEnds(q, d)) /\ pc = "running"
  BY <1>0 DEF Handle
<1>2. pc # "running" => Turn(q)
  BY <1>1 DEF Handle, ApiRunEnds
<1>3. Turn(q) => Waits(q)
  BY DEF Turn, Waits, OneServer
<1> HIDE DEF pc
<1>4. /\ pc # "idle"
      /\ pc = "decide" => (\E by \in Reviewers : Decide(q, by)) \/ DecideRefused(q)
      /\ pc = "read" => ReadForDecision(q)
      /\ pc = "advance" => Advance(q) \/ AdvanceRefused(q)
      /\ pc = "audit" => AppendPublicationEvent(q)
      /\ pc = "resume" => Resume(q) \/ ResumeRefused(q)
      /\ pc = "running" => \E d \in Drafts : ApiRunEnds(q, d)
      /\ pc = "sync" => ApiSync(q) \/ ApiSyncRefused(q)
      /\ pc = "settle" => ReadToSettle(q)
      /\ pc = "settled" => Settle(q) \/ SettleRefused(q)
  BY <1>1
<1> QED
  BY <1>2, <1>3, <1>4 DEF pc

(* A submission finds the stage it is for in the pending row.              *)
LEMMA SubmitByStage ==
  ASSUME TypeOK, OneServer, NEW q \in Requests, Submit(q)
  PROVE  /\ Waits(q) /\ api[q].pc = "idle" /\ Started(q)
         /\ pending.stage = IF api'[q].pc = "decide" THEN "analysis" ELSE "publish"
         /\ UNCHANGED <<lifecycle, readers, pending, decisions, graph, worker, job, jobsLeft>>
<1>1. Started(q) /\ api[q].pc = "idle"
  BY SubmitStarts
<1>2. Turn(q)
  BY DEF Submit
<1>3. ASSUME NEW answer, SubmitReview(q, answer) \/ SubmitPublication(q, answer)
      PROVE  UNCHANGED <<lifecycle, readers, pending, decisions, graph, worker, job, jobsLeft>>
  BY <1>3 DEF SubmitReview, SubmitPublication, status, records, thread
<1>4. ASSUME NEW answer, SubmitReview(q, answer)
      PROVE  pending.stage = "analysis" /\ api'[q].pc = "decide"
  BY <1>4 DEF SubmitReview, ApiIdle, TypeOK
<1>5. ASSUME NEW answer, SubmitPublication(q, answer)
      PROVE  pending.stage = "publish" /\ api'[q].pc = "audit"
  BY <1>5 DEF SubmitPublication, ApiIdle, TypeOK
<1>6. pending.stage = IF api'[q].pc = "decide" THEN "analysis" ELSE "publish"
  BY <1>4, <1>5 DEF Submit
<1> QED
  BY <1>1, <1>2, <1>3, <1>6 DEF Turn, Waits, OneServer, Submit

(* A step from one place of the handler to the next.                       *)
Goes(q, to) == /\ api'[q].pc = to /\ api'[q].run = api[q].run
               /\ api'[q].kind = api[q].kind /\ api'[q].seen = api[q].seen
               /\ api'[q].answer = api[q].answer
LEMMA StepGoes ==
  ASSUME TypeOK, NEW q \in Requests, NEW from, NEW to, ApiStep(q, from, to)
  PROVE  Goes(q, to)
BY DEF ApiStep, Goes, TypeOK, ApiRow

(* While the analysis waits for its review a handler ends, or comes closer *)
(* to the transition that starts carrying the decision out.                *)
LEMMA AnalysisHandled ==
  ASSUME ReviewInv, OneServer, AtAnalysis, NEW q \in Requests, Submit(q) \/ Handle(q)
  PROVE  AtAnalysis' \/ Reviewing(q)'
<1>i. TypeOK /\ ResumesApproved /\ Answered
  BY DEF ReviewInv
<1>f. (\A p \in Requests \ {q} : api'[p] = api[p]) /\ UNCHANGED <<worker, job>>
  BY <1>i, ApiMoves
<1>0. ApiIdle.pc = "idle"
  BY DEF ApiIdle
<1>1. ASSUME UNCHANGED <<lifecycle, pending, graph, jobsLeft>>,
             api'[q].pc \in {"idle", "decide", "read", "advance"},
             api'[q].pc # "idle" => api'[q].seen.version = pending.version
      PROVE  AtAnalysis'
  <2>1. Opened'
    BY <1>1, <1>f DEF AtAnalysis, Opened
  <2>2. Offers(graph)'
    BY <1>1 DEF AtAnalysis, Offers, StageOf, Display
  <2>3. \A p \in Requests : /\ api'[p].pc \in {"idle", "decide", "read", "advance"}
                            /\ api'[p].pc # "idle" => Sees(p)'
    BY <1>1, <1>f DEF AtAnalysis, Sees
  <2> QED
    BY <1>1, <1>f, <2>1, <2>2, <2>3 DEF AtAnalysis
<1>2. CASE Submit(q)
  <2>1. pending.stage = "analysis"
    BY DEF AtAnalysis, Offers, StageOf
  <2>2. api'[q].pc = "decide" /\ api'[q].seen = pending
    BY <1>i, <1>2, <2>1, SubmitByStage DEF Started
  <2>3. UNCHANGED <<lifecycle, pending, graph, jobsLeft>>
    BY <1>i, <1>2, SubmitByStage
  <2> QED
    BY <1>1, <2>2, <2>3
<1>3. ASSUME NEW from, NEW to \in {"read", "advance"}, ApiStep(q, from, to), api[q].pc # "idle",
             UNCHANGED <<lifecycle, pending, graph, jobsLeft>>
      PROVE  AtAnalysis'
  <2>1. Goes(q, to)
    BY <1>i, <1>3, StepGoes
  <2>2. api[q].seen.version = pending.version
    BY <1>3 DEF AtAnalysis, Sees
  <2> QED
    BY <1>1, <1>3, <2>1, <2>2 DEF Goes
<1>4. ASSUME ApiEnds(q), UNCHANGED <<lifecycle, pending, graph, jobsLeft>> PROVE AtAnalysis'
  <2>1. api'[q] = ApiIdle
    BY <1>i, <1>4 DEF ApiEnds, TypeOK
  <2> QED
    BY <1>0, <1>1, <1>4, <2>1
<1>5. CASE Handle(q)
  <2>0. api[q].pc \in {"decide", "read", "advance"} /\ Waits(q)
    BY <1>5, HandleByPlace DEF AtAnalysis
  <2>1. ASSUME NEW by \in Reviewers, Decide(q, by) PROVE AtAnalysis'
    BY <2>0, <2>1, <1>3 DEF Decide, status, thread, budget
  <2>2. CASE DecideRefused(q) \/ AdvanceRefused(q)
    BY <2>2, <1>4 DEF DecideRefused, AdvanceRefused, ApiMoveRefused, status, records, thread, budget
  <2>3. CASE ReadForDecision(q)
    BY <2>0, <2>3, <1>3
       DEF ReadForDecision, ReadBeforeMove, ReadLifecycle, records, thread, budget
  <2>4. CASE Advance(q)
    <3>1. /\ ApiStep(q, "advance", "resume") /\ CanMove(ReviewTarget(api[q].answer))
          /\ lifecycle' = ReviewTarget(api[q].answer)
          /\ UNCHANGED <<pending, graph, jobsLeft>> /\ api[q].pc = "advance"
      BY <2>4 DEF Advance, ApiMove, CanMoveFrom, MoveTo, records, thread, budget
    <3>2. Goes(q, "resume")
      BY <1>i, <3>1, StepGoes
    <3>3. worker.pc # "finish"
      <4>1. ASSUME worker.pc = "finish" PROVE FALSE
        <5>1. lifecycle = "analyzing"
          BY <4>1 DEF AtAnalysis
        <5>2. ReviewTarget(api[q].answer) \in {"drafting_postmortem", "analyzing"}
          BY DEF ReviewTarget
        <5> QED
          BY <3>1, <5>1, <5>2, NoneAssumption DEF CanMove, Allowed, AllowedFrom, Statuses
      <4> QED
        BY <4>1
    <3>4. \A p \in Requests \ {q} : api'[p].pc = "idle"
      BY <1>f, <2>0 DEF AtAnalysis, Waits, Awaiting
    <3>5. api'[q].kind = "review" /\ api'[q].seen.version = pending.version
      BY <1>i, <3>1, <3>2 DEF ResumesApproved, KindOk, Goes, AtAnalysis, Sees
    <3>6. Opened' /\ worker'.pc # "finish"
      BY <1>f, <3>1, <3>3 DEF AtAnalysis, Opened
    <3>7. /\ graph'.at = "human_review" /\ graph'.draft = None /\ pending'.stage = "analysis"
          /\ pending' = pending
      BY <3>1 DEF AtAnalysis, Offers, StageOf
    <3>8. lifecycle' = ReviewTarget(api'[q].answer) /\ api'[q].pc = "resume"
      BY <3>1, <3>2 DEF Goes
    <3> QED
      BY <3>4, <3>5, <3>6, <3>7, <3>8 DEF Reviewing, Sees, Awaiting
  <2> QED
    BY <1>5, <2>0, <2>1, <2>2, <2>3, <2>4, HandleByPlace
<1> QED
  BY <1>2, <1>5

(* While q carries out the decision on record, every other review of the   *)
(* revision is refused.                                                    *)
LEMMA ReviewingOthers ==
  ASSUME ReviewInv, OneServer, NEW q \in Requests, Reviewing(q),
         NEW p \in Requests \ {q}, Submit(p) \/ Handle(p)
  PROVE  Reviewing(q)'
<1>i. TypeOK /\ OneWinner
  BY DEF ReviewInv
<1>f. (\A r \in Requests \ {p} : api'[r] = api[r]) /\ UNCHANGED <<worker, job>>
  BY <1>i, ApiMoves
<1>1. ASSUME UNCHANGED <<lifecycle, pending, graph, jobsLeft>>,
             \/ api'[p].pc = "idle"
             \/ /\ api'[p].pc = "decide" /\ api'[p].seen.version = pending.version
                /\ api[q].pc \in Awaiting
      PROVE  Reviewing(q)'
  <2>1. Opened'
    BY <1>1, <1>f DEF Reviewing, Opened
  <2>2. Offers(graph)' <=> Offers(graph)
    BY <1>1 DEF Offers, StageOf, Display
  <2>3. Outcome(q)' <=> Outcome(q)
    BY <1>1, <1>f DEF Outcome
  <2>4. api'[q] = api[q] /\ (Sees(q)' <=> Sees(q))
    BY <1>1, <1>f DEF Sees
  <2>5. \A r \in Requests \ {q} :
           \/ api'[r].pc = "idle"
           \/ api'[r].pc = "decide" /\ Sees(r)' /\ api'[q].pc \in Awaiting
    BY <1>1, <1>f, <2>4 DEF Reviewing, Sees
  <2> QED
    BY <1>1, <1>f, <2>1, <2>2, <2>3, <2>4, <2>5 DEF Reviewing, ReviewTarget
<1>2. CASE Submit(p)
  <2>1. api[q].pc \in Awaiting
    BY <1>i, <1>2, SubmitByStage DEF Waits
  <2>2. pending.stage = "analysis"
    BY <2>1 DEF Reviewing
  <2>3. api'[p].pc = "decide" /\ api'[p].seen = pending
    BY <1>i, <1>2, <2>2, SubmitByStage DEF Started
  <2>4. UNCHANGED <<lifecycle, pending, graph, jobsLeft>>
    BY <1>i, <1>2, SubmitByStage
  <2> QED
    BY <1>1, <2>1, <2>3, <2>4
<1>3. CASE Handle(p)
  <2>1. api[p].pc = "decide" /\ Sees(p) /\ api[q].pc \in Awaiting
    BY <1>3, HandleByPlace DEF Reviewing
  <2>2. Deciding(q) /\ Sees(q)
    BY <2>1 DEF Reviewing, Deciding, Awaiting
  <2>3. decisions[pending.version] # None
    BY <1>i, <2>2 DEF OneWinner, Sees
  <2>4. ~\E by \in Reviewers : Decide(p, by)
    BY <2>3 DEF Decide, MayDecide
  <2>5. DecideRefused(p)
    BY <1>3, <2>1, <2>4, HandleByPlace
  <2>6. api'[p].pc = "idle" /\ UNCHANGED <<lifecycle, pending, graph, jobsLeft>>
    BY <1>i, <2>5 DEF DecideRefused, ApiEnds, ApiIdle, status, records, thread, budget, TypeOK
  <2> QED
    BY <1>1, <2>6
<1> QED
  BY <1>2, <1>3

(* The handler of the decision goes on to the gate its answer leads to.    *)
LEMMA ReviewingGoesOn ==
  ASSUME ReviewInv, OneServer, ReadersOfNow, NEW q \in Requests, Reviewing(q),
         Submit(q) \/ Handle(q)
  PROVE  Reviewing(q)' \/ AtAnalysis' \/ AtPublication'
<1>i. TypeOK /\ Answered
  BY DEF ReviewInv
<1>t. /\ api[q] \in ApiRow /\ graph \in Checkpoint /\ api[q].run \in Checkpoint
      /\ pending \in PendingRow
  BY <1>i DEF TypeOK, ApiRow
<1>f. (\A p \in Requests \ {q} : api'[p] = api[p]) /\ UNCHANGED <<worker, job>>
  BY <1>i, ApiMoves
<1>h. Handle(q)
  BY <1>i, SubmitByStage DEF Reviewing
<1>a. api[q].answer \in {"approved", "rejected"}
  BY <1>i DEF Answered, Answers, Reviewing
<1>o. ASSUME jobsLeft' = jobsLeft PROVE Opened' /\ worker'.pc # "finish"
  BY <1>o, <1>f DEF Reviewing, Opened
<1>1. CASE api[q].pc = "resume"
  <2>0. ~Refused(graph, api[q].answer, Shown(q))
    BY <1>1 DEF Reviewing, Refused
  <2>1. Resume(q)
    BY <1>1, <1>h, <2>0, HandleByPlace DEF ResumeRefused
  <2>2. /\ graph' = Resumed(graph, api[q].answer)
        /\ api'[q] = [api[q] EXCEPT !.pc = "running", !.run = graph']
        /\ UNCHANGED <<lifecycle, pending, jobsLeft>>
    BY <1>i, <2>1 DEF Resume, status, records, budget, TypeOK
  <2>3. /\ api'[q].pc = "running" /\ api'[q].run = graph' /\ api'[q].kind = "review"
        /\ api'[q].answer = api[q].answer /\ api'[q].seen = api[q].seen
    BY <1>t, <2>2 DEF ApiRow, Reviewing
  <2>4. graph'.draft = None /\ graph'.at = IF api[q].answer = "approved" THEN "drafting" ELSE "collect"
    BY <1>1, <1>t, <2>2 DEF Resumed, Reviewing, Checkpoint
  <2>5. Sees(q)' /\ pending'.stage = "analysis"
    BY <1>1, <2>2, <2>3 DEF Reviewing, Sees, Awaiting
  <2>6. \A p \in Requests \ {q} :
           api'[p].pc = "idle" \/ (api'[p].pc = "decide" /\ Sees(p)' /\ api'[q].pc \in Awaiting)
    BY <1>f, <2>2, <2>3 DEF Reviewing, Sees, Awaiting
  <2>7. lifecycle' = ReviewTarget(api'[q].answer)
    BY <2>2, <2>3 DEF Reviewing
  <2> QED
    BY <1>o, <2>2, <2>3, <2>4, <2>5, <2>6, <2>7 DEF Reviewing
<1>2. CASE api[q].pc = "running"
  <2>1. PICK d \in Drafts : ApiRunEnds(q, d)
    BY <1>2, <1>h, HandleByPlace
  <2>2. /\ graph' = RunEnds(graph, d)
        /\ api'[q] = [api[q] EXCEPT !.pc = "sync", !.run = graph']
        /\ UNCHANGED <<lifecycle, pending, jobsLeft>>
    BY <1>i, <1>2, <2>1 DEF ApiRunEnds, FinishRun, Reviewing, status, records, budget, TypeOK
  <2>3. /\ api'[q].pc = "sync" /\ api'[q].run = graph' /\ api'[q].kind = "review"
        /\ api'[q].answer = api[q].answer /\ api'[q].seen = api[q].seen
    BY <1>t, <2>2 DEF ApiRow, Reviewing
  <2>4. d # None
    BY ReviewAssumption
  <2>5. Outcome(q)'
    BY <1>2, <1>t, <2>2, <2>3, <2>4 DEF RunEnds, Reviewing, Checkpoint, Outcome
  <2>6. Sees(q)' /\ pending'.stage = "analysis"
    BY <1>2, <2>2, <2>3 DEF Reviewing, Sees, Awaiting
  <2>7. \A p \in Requests \ {q} :
           api'[p].pc = "idle" \/ (api'[p].pc = "decide" /\ Sees(p)' /\ api'[q].pc \in Awaiting)
    BY <1>f, <2>2, <2>3 DEF Reviewing, Sees, Awaiting
  <2>8. lifecycle' = ReviewTarget(api'[q].answer)
    BY <2>2, <2>3 DEF Reviewing
  <2> QED
    BY <1>o, <2>2, <2>3, <2>5, <2>6, <2>7, <2>8 DEF Reviewing
<1>3. CASE api[q].pc = "sync"
  <2>0. Sees(q) /\ Waits(q) /\ Interrupted(graph.at) /\ api[q].run = graph
    BY <1>3, <1>h, HandleByPlace DEF Reviewing, Awaiting, Outcome, Interrupted
  <2>1. ApiSync(q)
    BY <1>3, <1>h, <2>0, HandleByPlace DEF ApiSyncRefused, PendingUnchanged, Sees
  <2>2. AddPending(graph) /\ ApiStep(q, "sync", "settle") /\ UNCHANGED <<lifecycle, graph, jobsLeft>>
    BY <2>0, <2>1 DEF ApiSync, status, thread, budget
  <2>3. Goes(q, "settle")
    BY <1>i, <2>2, StepGoes
  <2>4. Offers(graph)'
    <3>1. pending.version + 1 # 0
      BY <1>t, ReviewAssumption DEF PendingRow, Versions
    <3>2. /\ pending'.version = pending.version + 1 /\ pending'.stage = StageOf(graph)
          /\ pending'.draft = Display(graph.draft) /\ pending'.analysis = graph.analysis
      BY <2>2 DEF AddPending
    <3>3. StageOf(graph)' = StageOf(graph) /\ Display(graph.draft)' = Display(graph.draft)
      BY <2>2 DEF StageOf, Display
    <3> QED
      BY <2>2, <3>1, <3>2, <3>3 DEF Offers
  <2>5. Outcome(q)'
    BY <1>3, <2>2, <2>3 DEF Outcome, Reviewing, Goes
  <2>6. \A p \in Requests \ {q} : api'[p].pc = "idle"
    BY <1>f, <2>0 DEF Reviewing, Waits, Awaiting
  <2>7. lifecycle' = ReviewTarget(api'[q].answer) /\ api'[q].run = graph' /\ api'[q].kind = "review"
    BY <2>0, <2>2, <2>3 DEF Reviewing, Goes
  <2> QED
    BY <1>o, <2>2, <2>3, <2>4, <2>5, <2>6, <2>7 DEF Reviewing, Goes, Awaiting
<1>4. CASE api[q].pc = "settle"
  <2>1. ApiStep(q, "settle", "settled") /\ UNCHANGED <<lifecycle, pending, graph, jobsLeft>>
    BY <1>4, <1>h, HandleByPlace
       DEF ReadToSettle, ReadBeforeMove, ReadLifecycle, records, thread, budget
  <2>2. Goes(q, "settled")
    BY <1>i, <2>1, StepGoes
  <2>3. Offers(graph)'
    BY <1>4, <2>1 DEF Reviewing, Offers, StageOf, Display
  <2>5. Outcome(q)'
    BY <1>4, <2>1, <2>2 DEF Outcome, Reviewing, Goes
  <2>6. \A p \in Requests \ {q} : api'[p].pc = "idle"
    BY <1>4, <1>f DEF Reviewing, Awaiting
  <2>7. lifecycle' = ReviewTarget(api'[q].answer) /\ api'[q].run = graph' /\ api'[q].kind = "review"
    BY <1>4, <2>1, <2>2 DEF Reviewing, Goes
  <2> QED
    BY <1>o, <2>1, <2>2, <2>3, <2>5, <2>6, <2>7 DEF Reviewing, Goes, Awaiting
<1>5. CASE api[q].pc = "settled"
  <2>0. /\ q \in readers /\ Offers(graph) /\ Outcome(q) /\ api[q].run = graph
        /\ api[q].kind = "review" /\ lifecycle = ReviewTarget(api[q].answer)
    BY <1>5 DEF ReadersOfNow, Reviewing
  <2>1. FinalStatus(q) = IF api[q].answer = "approved" THEN "awaiting_publish_review"
                         ELSE "awaiting_analysis_review"
    BY <2>0 DEF FinalStatus, Outcome, Interrupted
  <2>2. CanMoveFrom(q, FinalStatus(q))
    BY <1>a, <2>0, <2>1, NoneAssumption
       DEF CanMoveFrom, CanMove, Allowed, AllowedFrom, ReviewTarget, Statuses
  <2>3. Settle(q)
    BY <1>5, <1>h, <2>2, HandleByPlace DEF SettleRefused, ApiMoveRefused
  <2>4. ApiEnds(q) /\ lifecycle' = FinalStatus(q) /\ UNCHANGED <<pending, graph, jobsLeft>>
    BY <2>3 DEF Settle, ApiMove, MoveTo, records, thread, budget
  <2>5. \A p \in Requests : api'[p].pc = "idle"
    BY <1>5, <1>f, <1>i, <2>4 DEF ApiEnds, ApiIdle, Reviewing, Awaiting, TypeOK
  <2>6. Offers(graph)'
    BY <2>0, <2>4 DEF Offers, StageOf, Display
  <2>7. CASE api[q].answer = "approved"
    BY <1>o, <2>0, <2>1, <2>4, <2>5, <2>6, <2>7 DEF AtPublication, Outcome
  <2>8. CASE api[q].answer # "approved"
    BY <1>o, <2>0, <2>1, <2>4, <2>5, <2>6, <2>8 DEF AtAnalysis, Outcome
  <2> QED
    BY <2>7, <2>8
<1> QED
  BY <1>1, <1>2, <1>3, <1>4, <1>5 DEF Reviewing

(* A run of a publication only closes the thread, and keeps its draft.     *)
LEMMA PublishingRuns ==
  ASSUME TypeOK, NEW q \in Requests, Publishing(q),
         graph.at \in {"publish_review", "publishing", "end"},
         \/ Resume(q)
         \/ api[q].pc = "running" /\ \E d \in Drafts : ApiRunEnds(q, d)
  PROVE  /\ graph' = [graph EXCEPT !.at = graph'.at]
         /\ graph'.at \in {"publishing", "end"} /\ api'[q].run = graph'
         /\ Resume(q) /\ graph.at = "end" => graph'.at = "end"
         /\ Resume(q) => api'[q].pc = "running"
         /\ ~Resume(q) => graph'.at = "end" /\ api'[q].pc = "sync"
         /\ api'[q].kind = api[q].kind /\ api'[q].seen = api[q].seen
         /\ Publishing(q)'
         /\ UNCHANGED <<lifecycle, readers, pending, jobsLeft>>
<1>t. /\ graph \in Checkpoint /\ api[q] \in ApiRow /\ api[q].run \in Checkpoint
      /\ api \in [Requests -> ApiRow] /\ api[q].kind = "publish"
  BY DEF TypeOK, ApiRow, Publishing
<1>1. CASE Resume(q)
  <2>1. /\ graph' = Resumed(graph, api[q].answer)
        /\ api'[q] = [api[q] EXCEPT !.pc = "running", !.run = graph']
        /\ UNCHANGED <<lifecycle, readers, pending, jobsLeft>>
    BY <1>1, <1>t DEF Resume, status, records, budget
  <2>2. /\ api'[q].pc = "running" /\ api'[q].run = graph' /\ api'[q].kind = api[q].kind
        /\ api'[q].seen = api[q].seen
    BY <1>t, <2>1 DEF ApiRow
  <2>3. /\ graph' = [graph EXCEPT !.at = graph'.at] /\ graph'.at \in {"publishing", "end"}
        /\ graph.at = "end" => graph'.at = "end"
    BY <1>t, <2>1 DEF Resumed, Checkpoint
  <2>4. graph' = [graph' EXCEPT !.at = graph'.at]
    BY <1>t, <2>3 DEF Checkpoint
  <2> QED
    BY <1>1, <1>t, <2>1, <2>2, <2>3, <2>4 DEF Publishing
<1>2. CASE ~Resume(q)
  <2>0. PICK d \in Drafts : ApiRunEnds(q, d) /\ api[q].pc = "running"
    BY <1>2
  <2>1. /\ graph' = RunEnds(api[q].run, d)
        /\ api'[q] = [api[q] EXCEPT !.pc = "sync", !.run = graph']
        /\ UNCHANGED <<lifecycle, readers, pending, jobsLeft>>
    BY <2>0, <1>t DEF ApiRunEnds, FinishRun, status, records, budget
  <2>2. /\ api'[q].pc = "sync" /\ api'[q].run = graph' /\ api'[q].kind = api[q].kind
        /\ api'[q].seen = api[q].seen
    BY <1>t, <2>1 DEF ApiRow
  <2>3. /\ api[q].run.at \in {"publishing", "end"}
        /\ api[q].run = [graph EXCEPT !.at = api[q].run.at]
    BY <2>0 DEF Publishing
  <2>4. graph'.at = "end" /\ graph' = [graph EXCEPT !.at = graph'.at]
    BY <1>t, <2>1, <2>3 DEF RunEnds, Checkpoint
  <2> QED
    BY <1>2, <1>t, <2>1, <2>2, <2>4 DEF Publishing
<1> QED
  BY <1>1, <1>2

(* What the others carry stays what it was.                                *)
LEMMA PublishingOthers ==
  ASSUME TypeOK, NEW p \in Requests, Publishing(p), api'[p] = api[p],
         graph' = [graph EXCEPT !.at = graph'.at]
  PROVE  Publishing(p)'
<1>1. graph \in Checkpoint
  BY DEF TypeOK
<1>2. \A at : [graph' EXCEPT !.at = at] = [graph EXCEPT !.at = at]
  BY <1>1 DEF Checkpoint
<1> QED
  BY <1>2 DEF Publishing

(* Of the requests that answer the publication review one removes the      *)
(* pending row.                                                            *)
LEMMA PublicationHandled ==
  ASSUME ReviewInv, OneServer, AtPublication, NEW q \in Requests, Submit(q) \/ Handle(q)
  PROVE  AtPublication' \/ Closed'
<1>i. TypeOK /\ Answered
  BY DEF ReviewInv
<1>t. /\ api[q] \in ApiRow /\ graph \in Checkpoint /\ pending.version # 0
      /\ pending.stage = "publish" /\ graph.at \in {"publish_review", "publishing", "end"}
  BY <1>i DEF TypeOK, AtPublication, Offers, StageOf
<1>f. (\A p \in Requests \ {q} : api'[p] = api[p]) /\ UNCHANGED <<worker, job>>
  BY <1>i, ApiMoves
<1>o. ASSUME jobsLeft' = jobsLeft PROVE Opened' /\ worker'.pc # "finish"
  BY <1>o, <1>f DEF AtPublication, Opened
<1>p. ASSUME UNCHANGED pending, graph' = [graph EXCEPT !.at = graph'.at] PROVE Offers(graph)' /\ graph'.draft # None
  <2>1. graph'.draft = graph.draft /\ graph'.analysis = graph.analysis
    BY <1>p, <1>t DEF Checkpoint
  <2> QED
    BY <1>p, <2>1 DEF AtPublication, Offers, StageOf, Display
<1>r. graph' = graph => graph' = [graph EXCEPT !.at = graph'.at]
  BY <1>t DEF Checkpoint
<1>1. ASSUME UNCHANGED <<lifecycle, pending, graph, jobsLeft>>,
             api[q].pc \notin {"running", "sync"},
             api'[q].pc # "idle" =>
                /\ api'[q].pc \in {"audit", "resume"} /\ api'[q].kind = "publish"
                /\ api'[q].seen.version = pending.version
      PROVE  AtPublication'
  <2>1. \A p \in Requests : api'[p].pc # "idle" =>
           /\ api'[p].pc \in {"audit", "resume", "running", "sync"}
           /\ Publishing(p)' /\ Sees(p)'
    <3> TAKE p \in Requests
    <3>1. CASE p = q
      BY <1>1, <3>1 DEF Publishing, Sees
    <3>2. CASE p # q
      BY <1>1, <1>f, <1>i, <1>r, <3>2, PublishingOthers DEF AtPublication, Sees
    <3> QED
      BY <3>1, <3>2
  <2>2. \A p \in Requests : api'[p].pc = "sync" => graph'.at = "end"
    BY <1>1, <1>f DEF AtPublication
  <2>3. graph'.at # "publish_review" => \E p \in Requests : api'[p].pc \in {"running", "sync"}
    BY <1>1, <1>f DEF AtPublication
  <2> QED
    BY <1>1, <1>o, <1>p, <1>r, <2>1, <2>2, <2>3 DEF AtPublication
<1>2. CASE Submit(q)
  <2>1. api'[q].pc = "audit" /\ api'[q].seen = pending /\ api'[q].kind = "publish"
    BY <1>i, <1>2, <1>t, SubmitByStage DEF Started
  <2>2. UNCHANGED <<lifecycle, pending, graph, jobsLeft>> /\ api[q].pc = "idle"
    BY <1>i, <1>2, SubmitByStage
  <2> QED
    BY <1>1, <2>1, <2>2
<1>3. ASSUME Handle(q) PROVE /\ api[q].pc \in {"audit", "resume", "running", "sync"}
                             /\ Publishing(q) /\ Sees(q)
  BY <1>3, HandleByPlace DEF AtPublication
<1>4. CASE Handle(q) /\ api[q].pc = "audit"
  <2>1. ApiStep(q, "audit", "resume") /\ UNCHANGED <<lifecycle, pending, graph, jobsLeft>>
    BY <1>4, HandleByPlace DEF AppendPublicationEvent, status, thread, budget
  <2>2. Goes(q, "resume")
    BY <1>i, <2>1, StepGoes
  <2> QED
    BY <1>1, <1>3, <1>4, <2>1, <2>2 DEF Goes, Publishing, Sees
<1>5. CASE ResumeRefused(q)
  <2>1. api'[q].pc = "idle" /\ UNCHANGED <<lifecycle, pending, graph, jobsLeft>> /\ api[q].pc = "resume"
    BY <1>i, <1>5 DEF ResumeRefused, ApiEnds, ApiIdle, status, records, thread, budget, TypeOK
  <2> QED
    BY <1>1, <2>1
<1>6. CASE Handle(q) /\ (Resume(q) \/ api[q].pc = "running")
  <2>0. Resume(q) \/ (api[q].pc = "running" /\ \E d \in Drafts : ApiRunEnds(q, d))
    BY <1>6, HandleByPlace
  <2>1. /\ graph' = [graph EXCEPT !.at = graph'.at]
        /\ graph'.at \in {"publishing", "end"}
        /\ graph.at = "end" => graph'.at = "end"
        /\ api'[q].pc \in {"running", "sync"}
        /\ api'[q].pc = "sync" => graph'.at = "end"
        /\ api'[q].seen = api[q].seen /\ Publishing(q)'
        /\ UNCHANGED <<lifecycle, pending, jobsLeft>>
    BY <1>3, <1>6, <1>i, <1>t, <2>0, PublishingRuns
  <2>2. \A p \in Requests : api'[p].pc # "idle" =>
           /\ api'[p].pc \in {"audit", "resume", "running", "sync"}
           /\ Publishing(p)' /\ Sees(p)'
    <3> TAKE p \in Requests
    <3>1. CASE p = q
      BY <1>3, <1>6, <2>1, <3>1 DEF Sees
    <3>2. CASE p # q
      BY <1>f, <1>i, <2>1, <3>2, PublishingOthers DEF AtPublication, Sees
    <3> QED
      BY <3>1, <3>2
  <2>3. \A p \in Requests : api'[p].pc = "sync" => graph'.at = "end"
    BY <2>1, <1>f DEF AtPublication
  <2> QED
    BY <1>o, <1>p, <2>1, <2>2, <2>3 DEF AtPublication
<1>7. CASE Handle(q) /\ api[q].pc = "sync"
  <2>0. Sees(q) /\ Waits(q) /\ api[q].run.at = "end" /\ graph.at = "end"
    BY <1>3, <1>7, HandleByPlace DEF AtPublication, Publishing
  <2>1. ApiSync(q)
    BY <1>7, <2>0, HandleByPlace DEF ApiSyncRefused, PendingUnchanged, Sees
  <2>2. /\ pending' = NoPending /\ ApiStep(q, "sync", "settle")
        /\ UNCHANGED <<lifecycle, graph, jobsLeft>>
    BY <2>0, <2>1 DEF ApiSync, Interrupted, status, thread, budget
  <2>3. Goes(q, "settle")
    BY <1>i, <2>2, StepGoes
  <2>4. \A p \in Requests : api'[p].pc # "idle" =>
          /\ api'[p].pc \in {"resume", "running", "sync", "settle", "settled"}
          /\ Publishing(p)' /\ api'[p].seen.version # 0
    <3> TAKE p \in Requests
    <3>1. CASE p = q
      BY <1>3, <1>7, <1>t, <2>3, <3>1 DEF Goes, Publishing, Sees
    <3>2. CASE p # q
      BY <1>f, <1>i, <1>r, <1>t, <2>0, <2>2, <3>2, PublishingOthers DEF AtPublication, Sees, Waits, Awaiting
    <3> QED
      BY <3>1, <3>2
  <2>5. \E p \in Requests : api'[p].pc \in {"settle", "settled"}
    BY <2>3 DEF Goes
  <2> QED
    BY <1>o, <2>0, <2>2, <2>4, <2>5 DEF Closed, AtPublication
<1> QED
  BY <1>2, <1>3, <1>4, <1>5, <1>6, <1>7, HandleByPlace

(* The others find the pending row gone.                                   *)
LEMMA ClosedHandled ==
  ASSUME ReviewInv, OneServer, ReadersOfNow, Closed, NEW q \in Requests, Submit(q) \/ Handle(q)
  PROVE  Closed'
<1>i. TypeOK /\ Answered
  BY DEF ReviewInv
<1>t. api[q] \in ApiRow /\ graph \in Checkpoint
  BY <1>i DEF TypeOK
<1>f. (\A p \in Requests \ {q} : api'[p] = api[p]) /\ UNCHANGED <<worker, job>>
  BY <1>i, ApiMoves
<1>o. ASSUME jobsLeft' = jobsLeft PROVE Opened' /\ worker'.pc # "finish"
  BY <1>o, <1>f DEF Closed, Opened
<1>0. ApiIdle.pc = "idle"
  BY DEF ApiIdle
<1>h. Handle(q)
  <2>1. pending.stage = None
    BY DEF Closed, NoPending
  <2> QED
    BY <1>i, <2>1, SubmitByStage, NoneAssumption
<1>p. /\ api[q].pc \in {"resume", "running", "sync", "settle", "settled"}
      /\ Publishing(q) /\ api[q].seen.version # 0
  BY <1>h, HandleByPlace DEF Closed
<1>1. ASSUME UNCHANGED <<pending, jobsLeft>>, graph' = [graph EXCEPT !.at = graph'.at],
             graph'.at = "end",
             api'[q].pc # "idle" =>
                /\ api'[q].pc \in {"resume", "running", "sync", "settle", "settled"}
                /\ Publishing(q)' /\ api'[q].seen = api[q].seen,
             \/ lifecycle' = lifecycle /\ ((api'[q].pc \in {"settle", "settled"}) <=> (api[q].pc \in {"settle", "settled"}))
             \/ /\ lifecycle' \in {"completed", "drafting_postmortem"}
                /\ api'[q].pc = "idle" /\ Waits(q)
      PROVE  Closed'
  <2>1. \A p \in Requests : api'[p].pc # "idle" =>
           /\ api'[p].pc \in {"resume", "running", "sync", "settle", "settled"}
           /\ Publishing(p)' /\ api'[p].seen.version # 0
    <3> TAKE p \in Requests
    <3>1. CASE p = q
      BY <1>1, <1>p, <3>1
    <3>2. CASE p # q
      BY <1>1, <1>f, <1>i, <3>2, PublishingOthers DEF Closed
    <3> QED
      BY <3>1, <3>2
  <2>2. CASE lifecycle' = lifecycle /\ ((api'[q].pc \in {"settle", "settled"}) <=> (api[q].pc \in {"settle", "settled"}))
    <3>1. (\E p \in Requests : api'[p].pc \in {"settle", "settled"}) <=>
             (\E p \in Requests : api[p].pc \in {"settle", "settled"})
      BY <1>f, <2>2
    <3> QED
      BY <1>1, <1>o, <2>1, <2>2, <3>1 DEF Closed
  <2>3. CASE /\ lifecycle' \in {"completed", "drafting_postmortem"}
             /\ api'[q].pc = "idle" /\ Waits(q)
    <3>1. ~\E p \in Requests : api'[p].pc \in {"settle", "settled"}
      BY <1>f, <2>3 DEF Waits, Awaiting
    <3> QED
      BY <1>1, <1>o, <2>1, <2>3, <3>1 DEF Closed
  <2> QED
    BY <1>1, <2>2, <2>3
<1>r. graph' = graph => graph' = [graph EXCEPT !.at = graph'.at] /\ graph'.at = "end"
  BY <1>t DEF Checkpoint, Closed
<1>2. CASE Resume(q) \/ api[q].pc = "running"
  <2>0. Resume(q) \/ (api[q].pc = "running" /\ \E d \in Drafts : ApiRunEnds(q, d))
    BY <1>2, <1>h, HandleByPlace
  <2>1. graph.at = "end" /\ api[q].pc \in {"resume", "running"}
    BY <1>2 DEF Closed, Resume
  <2>2. /\ graph' = [graph EXCEPT !.at = graph'.at] /\ graph'.at = "end"
        /\ api'[q].pc \in {"running", "sync"}
        /\ api'[q].seen = api[q].seen /\ Publishing(q)'
        /\ UNCHANGED <<lifecycle, pending, jobsLeft>>
    BY <1>i, <1>p, <2>0, <2>1, PublishingRuns
  <2> QED
    BY <1>1, <2>1, <2>2
<1>3. CASE ResumeRefused(q) \/ ApiSyncRefused(q)
  <2>1. /\ api'[q].pc = "idle" /\ UNCHANGED <<lifecycle, pending, graph, jobsLeft>>
        /\ api[q].pc \in {"resume", "sync"}
    BY <1>i, <1>3 DEF ResumeRefused, ApiSyncRefused, ApiEnds, ApiIdle, status, records, thread, budget, TypeOK
  <2> QED
    BY <1>1, <1>r, <2>1
<1>4. ~ApiSync(q)
  BY <1>p DEF ApiSync, PendingUnchanged, Closed, NoPending
<1>5. CASE api[q].pc = "settle"
  <2>1. ApiStep(q, "settle", "settled") /\ UNCHANGED <<lifecycle, pending, graph, jobsLeft>>
    BY <1>5, <1>h, HandleByPlace
       DEF ReadToSettle, ReadBeforeMove, ReadLifecycle, records, thread, budget
  <2>2. Goes(q, "settled")
    BY <1>i, <2>1, StepGoes
  <2>3. Publishing(q)'
    BY <1>p, <2>2 DEF Goes, Publishing
  <2> QED
    BY <1>1, <1>5, <1>r, <2>1, <2>2, <2>3 DEF Goes
<1>6. CASE api[q].pc = "settled"
  <2>1. FinalStatus(q) \in {"completed", "drafting_postmortem"}
    BY <1>p DEF FinalStatus, Publishing
  <2>2. q \in readers /\ lifecycle = "awaiting_publish_review"
    BY <1>6 DEF ReadersOfNow, Closed
  <2>3. CanMoveFrom(q, FinalStatus(q))
    BY <2>1, <2>2, NoneAssumption DEF CanMoveFrom, CanMove, Allowed, AllowedFrom, Statuses
  <2>4. Settle(q)
    BY <1>6, <1>h, <2>3, HandleByPlace DEF SettleRefused, ApiMoveRefused
  <2>5. ApiEnds(q) /\ lifecycle' = FinalStatus(q) /\ UNCHANGED <<pending, graph, jobsLeft>>
    BY <2>4 DEF Settle, ApiMove, MoveTo, records, thread, budget
  <2>6. api'[q].pc = "idle" /\ Waits(q)
    BY <1>6, <1>h, <1>i, <2>5, HandleByPlace DEF ApiEnds, ApiIdle, TypeOK
  <2> QED
    BY <1>1, <1>r, <2>1, <2>5, <2>6
<1> QED
  BY <1>2, <1>3, <1>4, <1>5, <1>6, <1>h, <1>p, HandleByPlace

-----------------------------------------------------------------------------
(* The worker takes a first event to the analysis review, and then rests.  *)
LEMMA OpeningWorks ==
  ASSUME TypeOK, Opening, Worker PROVE Opening' \/ AtAnalysis'
<1>t. /\ worker \in WorkerRow /\ graph \in Checkpoint /\ job \in JobRow
      /\ jobsLeft \in Nat /\ MaxJobs \in Nat /\ jobsLeft <= MaxJobs
  BY ReviewAssumption DEF TypeOK
<1>0. WorkerIdle.pc = "idle" /\ NoJob.kind = None
  BY DEF WorkerIdle, NoJob
<1>1. ASSUME UNCHANGED <<api, pending, graph, jobsLeft>>, worker.pc # "running",
             worker'.pc \in {"idle", "done", "receive", "collect", "analyze", "invoke"},
             OpeningPlace(worker.pc) = None,
             lifecycle' = OpeningStatus[worker'.pc],
             jobsLeft = MaxJobs => worker'.pc = "idle" /\ job' = NoJob
      PROVE  Opening'
  BY <1>1 DEF Opening, OpeningStatus, OpeningPlace
<1>2. CASE StartJob
  <2>1. /\ worker'.pc = FirstStep(lifecycle) /\ worker.pc = "idle" /\ lifecycle' = lifecycle
        /\ UNCHANGED <<api, pending, graph, jobsLeft>> /\ job.kind \in {"firing", "resolved"}
    <3>1. WorkerStep("idle", FirstStep(lifecycle)) /\ job.kind \in {"firing", "resolved"}
      BY <1>2 DEF StartJob
    <3>2. lifecycle' = lifecycle /\ UNCHANGED <<api, records, thread, budget>>
      BY <1>2 DEF StartJob, ReadLifecycle
    <3>3. UNCHANGED <<api, pending, graph, jobsLeft>>
      BY <3>2 DEF records, thread, budget
    <3> QED
      BY <1>t, <3>1, <3>2, <3>3 DEF WorkerStep, WorkerRow
  <2>2. lifecycle = None
    BY <2>1 DEF Opening, OpeningStatus
  <2>3. worker'.pc \in {"done", "receive"}
    BY <2>1, <2>2, NoneAssumption DEF FirstStep, Statuses
  <2>4. jobsLeft # MaxJobs
    BY <1>0, <2>1, NoneAssumption DEF Opening, Statuses
  <2> QED
    BY <1>1, <2>1, <2>2, <2>3, <2>4 DEF OpeningStatus, OpeningPlace
<1>3. ASSUME NEW step, NEW next \in {"collect", "analyze", "invoke"}, WorkerMove(step, next),
             step \in {"receive", "collect", "analyze"},
             WorkerTarget[step] = OpeningStatus[next]
      PROVE  Opening'
  <2>1. /\ worker'.pc = next /\ worker.pc = step /\ lifecycle' = OpeningStatus[next]
        /\ UNCHANGED <<api, pending, graph, jobsLeft>>
    BY <1>3, <1>t DEF WorkerMove, WorkerStep, WorkerRow, MoveTo, records, thread, budget
  <2>2. jobsLeft # MaxJobs
    BY <1>3, <2>1 DEF Opening
  <2> QED
    BY <1>1, <1>3, <2>1, <2>2 DEF OpeningPlace
<1>4. Receive \/ Collect \/ Analyze => Opening'
  BY <1>3 DEF Receive, Collect, Analyze, WorkerTarget, OpeningStatus
<1>5. ~Revise /\ ~Resolve /\ ~Reopen /\ ~Finish
  BY DEF Opening, OpeningStatus, Revise, Resolve, Reopen, Finish, WorkerMove, WorkerStep
<1>6. CASE Invoke
  <2>1. /\ worker.pc = "invoke" /\ worker' = [pc |-> "running", run |-> NewRun(graph)]
        /\ graph' = NewRun(graph) /\ UNCHANGED <<lifecycle, api, pending, jobsLeft>>
    BY <1>6 DEF Invoke, status, records, budget
  <2>2. graph'.at = "collect" /\ graph'.draft = None
    BY <1>t, <2>1 DEF NewRun, Checkpoint, Opening
  <2>3. worker'.pc = "running" /\ worker'.run = graph'
    BY <2>1
  <2> QED
    BY <2>1, <2>2, <2>3 DEF Opening, OpeningStatus, OpeningPlace
<1>7. CASE WorkerRunEnds
  <2>1. /\ worker.pc = "running" /\ worker' = [pc |-> "sync", run |-> graph']
        /\ graph' = RunEnds(graph, None) /\ UNCHANGED <<lifecycle, api, pending, jobsLeft>>
    BY <1>7 DEF WorkerRunEnds, FinishRun, Opening, status, records, budget
  <2>2. graph'.at = "human_review" /\ graph'.draft = None
    BY <1>t, <2>1 DEF RunEnds, Checkpoint, Opening, OpeningPlace
  <2>3. worker'.pc = "sync" /\ worker'.run = graph'
    BY <2>1
  <2> QED
    BY <2>1, <2>2, <2>3 DEF Opening, OpeningStatus, OpeningPlace
<1>8. CASE WorkerSync
  <2>1. /\ worker.pc = "sync" /\ worker'.pc = "finish" /\ AddPending(graph)
        /\ UNCHANGED <<lifecycle, api, graph, jobsLeft>>
    BY <1>8, <1>t DEF WorkerSync, WorkerStep, WorkerRow, Opening, status, thread, budget
  <2>2. graph.at = "human_review" /\ graph.draft = None /\ lifecycle = "analyzing"
    BY <2>1 DEF Opening, OpeningStatus, OpeningPlace
  <2>3. Opened'
    BY <1>t, <2>1 DEF Opening, Opened
  <2>4. Offers(graph)'
    BY <2>1 DEF AddPending, Offers, StageOf, Display, Opening, NoPending
  <2> QED
    BY <2>1, <2>2, <2>3, <2>4 DEF AtAnalysis, Opening
<1>9. CASE JobDone
  <2>1. /\ worker.pc = "done" /\ worker'.pc = "idle" /\ job' = NoJob
        /\ UNCHANGED <<lifecycle, api, pending, graph, jobsLeft>>
    BY <1>9 DEF JobDone, WorkerIdle, status, records, thread, budget
  <2>2. lifecycle = None
    BY <2>1 DEF Opening, OpeningStatus
  <2> QED
    BY <1>1, <2>1, <2>2 DEF OpeningStatus, OpeningPlace
<1>10. ~JobRaises
  <2>1. \A step \in {"receive", "collect", "analyze"} :
           lifecycle = OpeningStatus[step] => WorkerMayMove(step)
    BY NoneAssumption
       DEF OpeningStatus, WorkerMayMove, WorkerTarget, CanMove, Allowed, AllowedFrom, Versioned, Statuses
  <2>2. JobRaises => worker.pc \in {"receive", "collect", "analyze"}
    BY DEF JobRaises, Opening, OpeningStatus, WorkerTarget
  <2> QED
    BY <2>1, <2>2 DEF JobRaises, Opening
<1>11. CASE DeadLettered
  BY <1>11 DEF DeadLettered, Opening, OpeningStatus, OpeningPlace, status, records, thread, budget
<1> QED
  BY <1>2, <1>4, <1>5, <1>6, <1>7, <1>8, <1>9, <1>10, <1>11 DEF Worker

LEMMA OpenedWorks ==
  ASSUME TypeOK, Opened, Worker,
         worker.pc = "finish" => lifecycle = "analyzing"
  PROVE  \/ /\ worker.pc = "finish" /\ worker'.pc = "done"
            /\ lifecycle' = "awaiting_analysis_review"
            /\ UNCHANGED <<pending, graph, api, jobsLeft>>
         \/ /\ worker.pc # "finish" /\ worker'.pc # "finish" /\ Opened'
            /\ UNCHANGED <<lifecycle, readers, pending, graph, api, jobsLeft>>
<1>t. worker \in WorkerRow
  BY DEF TypeOK
<1>p. worker.pc \in {"finish", "done", "idle"} /\ (worker.pc = "idle" => job = NoJob)
  BY DEF Opened
<1>1. /\ ~Receive /\ ~Collect /\ ~Analyze /\ ~Revise /\ ~Resolve /\ ~Reopen
      /\ ~Invoke /\ ~WorkerRunEnds /\ ~WorkerSync
  BY <1>p DEF Receive, Collect, Analyze, Revise, Resolve, Reopen, WorkerMove, WorkerStep,
              Invoke, WorkerRunEnds, WorkerSync
<1>2. ~StartJob
  BY <1>p, NoneAssumption DEF StartJob, WorkerStep, NoJob, Statuses
<1>3. CASE Finish
  BY <1>3, <1>t DEF Finish, WorkerMove, WorkerStep, WorkerRow, WorkerTarget, MoveTo,
                    records, thread, budget
<1>4. CASE JobDone
  BY <1>4 DEF JobDone, WorkerIdle, Opened, status, records, thread, budget
<1>5. ~JobRaises
  <2>1. JobRaises => worker.pc = "finish" /\ ~WorkerMayMove("finish")
    BY <1>p DEF JobRaises, WorkerTarget
  <2>2. lifecycle = "analyzing" => WorkerMayMove("finish")
    BY NoneAssumption DEF WorkerMayMove, WorkerTarget, CanMove, Allowed, AllowedFrom, Versioned, Statuses
  <2> QED
    BY <2>1, <2>2
<1>6. CASE DeadLettered
  BY <1>6 DEF DeadLettered, Opened, status, records, thread, budget
<1> QED
  BY <1>1, <1>2, <1>3, <1>4, <1>5, <1>6 DEF Worker

-----------------------------------------------------------------------------
(* No step takes the version it has read from a handler about to settle.   *)
LEMMA ReadersKept ==
  ASSUME ReviewInv, OneServer, ReadersOfNow, Phase,
         Worker \/ \E q \in Requests : Submit(q) \/ Handle(q)
  PROVE  ReadersOfNow'
<1>i. TypeOK
  BY DEF ReviewInv
<1>1. ASSUME NEW q \in Requests, Submit(q) PROVE ReadersOfNow'
  <2>1. api'[q].pc # "settled" /\ readers' = readers /\ \A p \in Requests \ {q} : api'[p] = api[p]
    BY <1>1, <1>i, SubmitByStage, ApiMoves DEF Started
  <2> QED
    BY <2>1 DEF ReadersOfNow
<1>2. ASSUME NEW q \in Requests, Handle(q) PROVE ReadersOfNow'
  <2>f. \A p \in Requests \ {q} : api'[p] = api[p]
    BY <1>2, <1>i, ApiMoves
  <2>e. ASSUME ApiEnds(q) PROVE api'[q].pc = "idle"
    BY <1>i, <2>e DEF ApiEnds, ApiIdle, TypeOK
  <2>s. ASSUME NEW from, NEW to, ApiStep(q, from, to) PROVE api'[q].pc = to
    BY <1>i, <2>s, StepGoes DEF Goes
  <2>1. CASE api[q].pc = "running"
    <3>1. PICK d \in Drafts : ApiRunEnds(q, d)
      BY <1>2, <2>1, HandleByPlace
    <3>2. api'[q].pc = "sync" /\ readers' = readers
      BY <1>i, <3>1 DEF ApiRunEnds, TypeOK, ApiRow, status
    <3> QED
      BY <2>f, <3>2 DEF ReadersOfNow
  <2>2. CASE api[q].pc # "running"
    <3>1. \A p \in Requests \ {q} : api'[p].pc # "settled"
      BY <1>2, <2>2, <2>f, HandleByPlace DEF Waits, Awaiting
    <3>2. CASE ReadToSettle(q)
      <4>1. q \in readers'
        BY <3>2 DEF ReadToSettle, ReadBeforeMove, ReadLifecycle
      <4> QED
        BY <3>1, <4>1 DEF ReadersOfNow
    <3>3. CASE \/ DecideRefused(q) \/ AdvanceRefused(q) \/ ResumeRefused(q)
               \/ ApiSyncRefused(q) \/ SettleRefused(q) \/ Settle(q)
      <4>1. ApiEnds(q)
        BY <3>3 DEF DecideRefused, AdvanceRefused, ResumeRefused, ApiSyncRefused,
                    SettleRefused, ApiMoveRefused, Settle, ApiMove
      <4> QED
        BY <2>e, <3>1, <4>1 DEF ReadersOfNow
    <3>4. CASE \/ (\E by \in Reviewers : Decide(q, by)) \/ ReadForDecision(q)
               \/ Advance(q) \/ AppendPublicationEvent(q) \/ ApiSync(q)
      <4>1. \/ ApiStep(q, "decide", "read") \/ ApiStep(q, "read", "advance")
            \/ ApiStep(q, "advance", "resume") \/ ApiStep(q, "audit", "resume")
            \/ ApiStep(q, "sync", "settle")
        BY <3>4 DEF Decide, ReadForDecision, ReadBeforeMove, Advance, ApiMove,
                    AppendPublicationEvent, ApiSync
      <4> QED
        BY <2>s, <3>1, <4>1 DEF ReadersOfNow
    <3>5. CASE Resume(q)
      <4>1. api'[q].pc = "running"
        BY <1>i, <3>5 DEF Resume, TypeOK, ApiRow
      <4> QED
        BY <3>1, <4>1 DEF ReadersOfNow
    <3>6. \/ (\E by \in Reviewers : Decide(q, by)) \/ DecideRefused(q)
          \/ ReadForDecision(q) \/ Advance(q) \/ AdvanceRefused(q)
          \/ AppendPublicationEvent(q) \/ Resume(q) \/ ResumeRefused(q)
          \/ ApiSync(q) \/ ApiSyncRefused(q) \/ ReadToSettle(q) \/ Settle(q) \/ SettleRefused(q)
      <4>1. ASSUME NEW d \in Drafts PROVE ~ApiRunEnds(q, d)
        BY <2>2 DEF ApiRunEnds
      <4> QED
        BY <1>2, <4>1 DEF Handle
    <3> QED
      BY <3>2, <3>3, <3>4, <3>5, <3>6
  <2> QED
    BY <2>1, <2>2
<1>3. CASE Worker
  <2>0. api' = api
    BY <1>3 DEF Worker, StartJob, WorkerMove, Receive, Collect, Analyze, Revise, Resolve,
         Reopen, Invoke, WorkerRunEnds, WorkerSync, Finish, JobDone, JobRaises, DeadLettered
  <2>1. CASE Opening
    BY <2>0, <2>1 DEF Opening, ReadersOfNow
  <2>2. CASE AtAnalysis
    BY <2>0, <2>2 DEF AtAnalysis, ReadersOfNow
  <2>3. CASE (\E q \in Requests : Reviewing(q)) \/ AtPublication \/ Closed
    <3>1. Opened /\ worker.pc # "finish"
      BY <2>3 DEF Reviewing, AtPublication, Closed
    <3>2. readers' = readers
      BY <1>i, <1>3, <3>1, OpenedWorks
    <3> QED
      BY <2>0, <3>2 DEF ReadersOfNow
  <2> QED
    BY <2>1, <2>2, <2>3 DEF Phase
<1> QED
  BY <1>1, <1>2, <1>3

LEMMA InitGateInv == Init => GateInv
<1> SUFFICES ASSUME Init PROVE Opening /\ ReadersOfNow
  BY DEF GateInv, Phase
<1> QED
  BY DEF Init, Opening, ReadersOfNow, OpeningStatus, OpeningPlace, ApiIdle, WorkerIdle,
         NoCheckpoint

LEMMA WorkerPhases ==
  ASSUME ReviewInv, Phase, Worker PROVE Phase'
<1>i. TypeOK
  BY DEF ReviewInv
<1>1. CASE Opening
  BY <1>1, <1>i, OpeningWorks DEF Phase
<1>2. CASE AtAnalysis
  <2>1. Opened /\ (worker.pc = "finish" => lifecycle = "analyzing")
    BY <1>2 DEF AtAnalysis
  <2>2. UNCHANGED <<pending, graph, api, jobsLeft>>
    BY <1>i, <2>1, OpenedWorks
  <2>3. /\ Opened'
        /\ lifecycle' = IF worker'.pc = "finish" THEN "analyzing" ELSE "awaiting_analysis_review"
    BY <1>2, <1>i, <2>1, OpenedWorks DEF AtAnalysis, Opened
  <2>4. Offers(graph)' /\ \A q \in Requests : Sees(q)' <=> Sees(q)
    BY <1>2, <2>2 DEF AtAnalysis, Offers, StageOf, Display, Sees
  <2> QED
    BY <1>2, <2>2, <2>3, <2>4 DEF AtAnalysis, Phase
<1>3. CASE (\E q \in Requests : Reviewing(q)) \/ AtPublication \/ Closed
  <2>1. Opened /\ worker.pc # "finish"
    BY <1>3 DEF Reviewing, AtPublication, Closed
  <2>2. /\ UNCHANGED <<lifecycle, readers, pending, graph, api, jobsLeft>>
        /\ Opened' /\ worker'.pc # "finish"
    BY <1>i, <2>1, OpenedWorks
  <2>3. Offers(graph)' <=> Offers(graph)
    BY <2>2 DEF Offers, StageOf, Display
  <2>4. \A q \in Requests : /\ Sees(q)' <=> Sees(q)
                            /\ Publishing(q)' <=> Publishing(q)
                            /\ Outcome(q)' <=> Outcome(q)
    BY <2>2 DEF Sees, Publishing, Outcome
  <2>5. \A q \in Requests : Reviewing(q) => Reviewing(q)'
    BY <2>2, <2>3, <2>4 DEF Reviewing, ReviewTarget
  <2>6. AtPublication => AtPublication'
    BY <2>2, <2>3, <2>4 DEF AtPublication
  <2>7. Closed => Closed'
    BY <2>2, <2>4 DEF Closed
  <2> QED
    BY <1>3, <2>5, <2>6, <2>7 DEF Phase
<1> QED
  BY <1>1, <1>2, <1>3 DEF Phase

LEMMA HandlerPhases ==
  ASSUME ReviewInv, OneServer, ReadersOfNow, Phase,
         NEW q \in Requests, Submit(q) \/ Handle(q)
  PROVE  Phase'
<1>i. TypeOK
  BY DEF ReviewInv
<1>1. ~Opening
  <2> SUFFICES ASSUME Opening PROVE FALSE
    OBVIOUS
  <2>1. pending.stage = None /\ api[q].pc = "idle"
    BY DEF Opening, NoPending
  <2> QED
    BY <1>i, <2>1, SubmitByStage, HandleByPlace, NoneAssumption
<1>2. CASE AtAnalysis
  BY <1>2, AnalysisHandled DEF Phase
<1>3. ASSUME NEW p \in Requests, Reviewing(p) PROVE Phase'
  BY <1>3, ReviewingOthers, ReviewingGoesOn DEF Phase
<1>4. CASE AtPublication
  BY <1>4, PublicationHandled DEF Phase
<1>5. CASE Closed
  BY <1>5, ClosedHandled DEF Phase
<1> QED
  BY <1>1, <1>2, <1>3, <1>4, <1>5 DEF Phase

(* Before the second event and without a loss, one of the phases is on.    *)
LEMMA GateInvStep == ReviewInv /\ OneServer /\ GateInv /\ [Next]_vars => GateInv'
<1> SUFFICES ASSUME ReviewInv, OneServer, GateInv, [Next]_vars, Undisturbed'
             PROVE  ReadersOfNow' /\ Phase'
  BY DEF GateInv
<1>i. /\ jobsLeft \in Nat /\ MaxJobs \in Nat /\ jobsLeft <= MaxJobs
      /\ faults \in Nat /\ MaxFaults \in Nat /\ faults <= MaxFaults /\ TypeOK
  BY ReviewAssumption DEF ReviewInv, TypeOK
<1>1. CASE Worker \/ \E q \in Requests : Submit(q) \/ Handle(q)
  <2>1. UNCHANGED <<jobsLeft, faults>>
    <3>1. CASE Worker
      BY <3>1 DEF Worker, StartJob, WorkerMove, Receive, Collect, Analyze, Revise, Resolve,
         Reopen, Invoke, WorkerRunEnds, WorkerSync, Finish, JobDone, JobRaises, DeadLettered,
         budget
    <3>2. ASSUME NEW q \in Requests, Submit(q) PROVE UNCHANGED <<jobsLeft, faults>>
      <4>1. ASSUME NEW answer, SubmitReview(q, answer) \/ SubmitPublication(q, answer)
            PROVE  UNCHANGED <<jobsLeft, faults>>
        BY <4>1 DEF SubmitReview, SubmitPublication
      <4> QED
        BY <3>2, <4>1 DEF Submit
    <3>3. ASSUME NEW q \in Requests, Handle(q) PROVE UNCHANGED <<jobsLeft, faults>>
      <4>1. /\ \A by \in Reviewers : Decide(q, by) => UNCHANGED budget
            /\ \A d \in Drafts : ApiRunEnds(q, d) => UNCHANGED budget
        BY DEF Decide, ApiRunEnds
      <4>2. DecideRefused(q) \/ ReadForDecision(q) \/ Advance(q) \/ AdvanceRefused(q)
               => UNCHANGED budget
        BY DEF DecideRefused, ReadForDecision, ReadBeforeMove, Advance, ApiMove,
               AdvanceRefused, ApiMoveRefused
      <4>3. AppendPublicationEvent(q) \/ Resume(q) \/ ResumeRefused(q) \/ ApiSync(q)
               \/ ApiSyncRefused(q) => UNCHANGED budget
        BY DEF AppendPublicationEvent, Resume, ResumeRefused, ApiSync, ApiSyncRefused
      <4>4. ReadToSettle(q) \/ Settle(q) \/ SettleRefused(q) => UNCHANGED budget
        BY DEF ReadToSettle, ReadBeforeMove, Settle, ApiMove, SettleRefused, ApiMoveRefused
      <4>5. UNCHANGED budget
        BY <3>3, <4>1, <4>2, <4>3, <4>4 DEF Handle
      <4> QED
        BY <4>5 DEF budget
    <3> QED
      BY <1>1, <3>1, <3>2, <3>3
  <2>2. ReadersOfNow /\ Phase
    BY <2>1 DEF GateInv, Undisturbed
  <2> QED
    BY <1>1, <2>2, ReadersKept, WorkerPhases, HandlerPhases
<1>2. CASE WorkerFails \/ \E q \in Requests : ApiLost(q)
  <2>1. faults' = faults - 1 /\ faults > 0
    BY <1>2 DEF WorkerFails, WorkerLost, HandlerFails, ApiLost
  <2>2. faults' # MaxFaults
    BY <1>i, <2>1
  <2> QED
    BY <2>2 DEF Undisturbed
<1>3. ASSUME NEW kind \in JobKinds, Deliver(kind) PROVE ReadersOfNow' /\ Phase'
  <2>1. /\ jobsLeft' = jobsLeft - 1 /\ job' = [kind |-> kind, attempts |-> 0]
        /\ UNCHANGED <<lifecycle, readers, pending, graph, worker, api, faults>>
    BY <1>3 DEF Deliver, status, records, thread
  <2>2. jobsLeft = MaxJobs /\ jobsLeft' # MaxJobs
    BY <1>i, <2>1 DEF Undisturbed
  <2>3. ReadersOfNow /\ Phase
    BY <1>i, <2>1, <2>2 DEF GateInv, Undisturbed
  <2>4. Opening
    BY <1>i, <2>2, <2>3 DEF Phase, AtAnalysis, Reviewing, AtPublication, Closed, Opened
  <2>5. Opening' /\ ReadersOfNow'
    BY <2>1, <2>2, <2>3, <2>4 DEF Opening, OpeningStatus, OpeningPlace, ReadersOfNow
  <2> QED
    BY <2>5 DEF Phase
<1>4. CASE UNCHANGED vars
  <2>1. UNCHANGED phaseVars /\ UNCHANGED <<job, faults>>
    BY <1>4 DEF vars, phaseVars, status, records, thread, budget
  <2>2. ReadersOfNow /\ Phase
    BY <2>1 DEF GateInv, Undisturbed, phaseVars
  <2> QED
    BY <2>1, <2>2, PhaseFrame DEF Phase
<1> QED
  BY <1>1, <1>2, <1>3, <1>4 DEF Next

(* During an incident's first event and as long as no handler was lost:    *)
(* whenever nobody is at work the lifecycle, the gate of the graph and the *)
(* pending row agree, for any number of requests, reviewers and drafts,    *)
(* when one process serves the requests (OneServer): scripts/start_api.py: *)
(* 22 starts uvicorn with no number of workers, so its requests share one  *)
(* event loop. Nothing is said of an incident that a second event or a     *)
(* loss has reached: what it can look like then is in README, Findings.    *)
THEOREM RecordsAgreeInFirstEvent == ASSUME OneServer PROVE Spec => []GatesAgree
<1>1. Init => ReviewInv /\ GateInv
  BY InitReviewInv, InitGateInv
<1>2. ReviewInv /\ GateInv /\ [Next]_vars => (ReviewInv /\ GateInv)'
  BY OneServer, ReviewInvStep, GateInvStep
<1>3. ReviewInv /\ GateInv => GatesAgree
  <2> SUFFICES ASSUME ReviewInv, GateInv, AtRest, Undisturbed
               PROVE  /\ (lifecycle = "awaiting_analysis_review") <=> (graph.at = "human_review")
                      /\ (lifecycle = "awaiting_publish_review") <=> (graph.at = "publish_review")
                      /\ pending.stage = (CASE graph.at = "human_review" -> "analysis"
                                            [] graph.at = "publish_review" -> "publish"
                                            [] OTHER -> None)
                      /\ pending.version # 0 => pending.analysis = graph.analysis
                                                /\ pending.draft = Display(graph.draft)
    BY DEF GatesAgree
  <2>1. worker.pc = "idle" /\ \A q \in Requests : api[q].pc = "idle"
    BY DEF AtRest, WorkerIdle, ApiIdle
  <2>2. CASE Opening
    BY <2>1, <2>2, NoneAssumption
       DEF Opening, OpeningStatus, OpeningPlace, NoPending, Statuses, Places
  <2>3. CASE AtAnalysis
    BY <2>1, <2>3 DEF AtAnalysis, Offers, StageOf
  <2>4. ~\E q \in Requests : Reviewing(q)
    BY <2>1 DEF Reviewing
  <2>5. CASE AtPublication
    BY <2>1, <2>5 DEF AtPublication, Offers, StageOf
  <2>6. CASE Closed
    BY <2>1, <2>6 DEF Closed, NoPending
  <2> QED
    BY <2>2, <2>3, <2>4, <2>5, <2>6 DEF GateInv, Phase
<1> QED
  BY <1>1, <1>2, <1>3, PTL DEF Spec
=============================================================================
