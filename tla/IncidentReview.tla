--------------------------- MODULE IncidentReview ---------------------------
(***************************************************************************)
(* The life of one incident between the job handler of                     *)
(* webhook/job_handler.py and the review and publication endpoints of      *)
(* webhook/api.py: its lifecycle row, its pending-review row, the          *)
(* decisions recorded about it and the LangGraph checkpoint thread that    *)
(* all of them drive.                                                      *)
(*                                                                         *)
(* Each action is one MySQL transaction, or the beginning or the end of a  *)
(* graph run.  The queue gives the incident to one worker at a time (module*)
(* JobQueue), so there is one job handler; API requests run beside it.     *)
(***************************************************************************)
EXTENDS Naturals, FiniteSets

CONSTANTS
    Requests,       \* API requests that may be in flight together
    Process,        \* the API process that serves a request
    Reviewers,      \* whoever (and with whatever rationale) decides
    Drafts,         \* contents of postmortem drafts
    Redacted,       \* what redact_message makes of each of them
    None,           \* no row, no draft, no decision
    JobKinds,       \* kinds of events that arrive: firing, resolved
    PublicationAnswers, \* answers the publication reviewers give
    MaxAttempts,    \* attempts of a job before it is a dead letter
    MaxVersion, MaxAnalyses, MaxJobs, MaxSubmits, MaxFaults  \* bounds, see README

ASSUME ReviewAssumption ==
    /\ None \notin Drafts \cup {"publish_review", "publishing", "resolved"}
    /\ Redacted \in [Drafts -> Drafts]
    /\ \A d \in Drafts : Redacted[Redacted[d]] = Redacted[d]
    /\ None \notin [answer: {"approved", "rejected"}, by: Reviewers]
    /\ "worker" \notin Requests
    /\ JobKinds \subseteq {"firing", "resolved"}
    /\ PublicationAnswers \subseteq {"approved", "rejected"}
    /\ MaxAttempts \in Nat \ {0}
    /\ MaxVersion \in Nat /\ MaxAnalyses \in Nat
    /\ MaxJobs \in Nat /\ MaxSubmits \in Nat /\ MaxFaults \in Nat

VARIABLES
    lifecycle,   \* incident_lifecycle.status, None for no row
    readers,     \* processes whose last read lifecycle version is current
    pending,     \* the pending_reviews row, version 0 for no row
    decisions,   \* incident_review_decisions by pending_revision
    approvals,   \* the stored publication_approved event of each revision
    approved,    \* drafts the publication reviewers have approved
    graph,       \* the latest checkpoint of the thread
    analyses,    \* analyses that reached the review gate so far
    published,   \* drafts the publish node handed over
    job,         \* the queue's current job for the incident
    worker,      \* the job handler
    api,         \* the request handlers
    jobsLeft, submitsLeft, faults  \* jobs, requests and failures still to come

status == <<lifecycle, readers>>
records == <<pending, decisions, approvals, approved>>
thread == <<graph, analyses, published>>
budget == <<jobsLeft, submitsLeft, faults>>
vars == <<status, records, thread, job, worker, api, budget>>

-----------------------------------------------------------------------------
Statuses == {"received", "collecting", "analyzing", "awaiting_analysis_review",
             "drafting_postmortem", "awaiting_publish_review", "degraded",
             "completed", "resolved", "failed"}

(* ALLOWED_TRANSITIONS of webhook/lifecycle.py.                            *)
AllowedFrom ==
    [received |-> {"collecting", "resolved", "failed"},
     collecting |-> {"analyzing", "degraded", "resolved", "failed"},
     analyzing |-> {"awaiting_analysis_review", "degraded", "resolved", "failed"},
     awaiting_analysis_review |->
        {"analyzing", "drafting_postmortem", "resolved", "failed"},
     drafting_postmortem |->
        {"awaiting_publish_review", "completed", "resolved", "failed"},
     awaiting_publish_review |->
        {"completed", "drafting_postmortem", "resolved", "failed"},
     degraded |-> {"analyzing", "awaiting_analysis_review", "resolved", "failed"},
     completed |-> {"resolved"},
     resolved |-> {"received"},
     failed |-> {}]
Allowed(current) == IF current = None THEN {"received"} ELSE AllowedFrom[current]

(* Where the thread's next step is: an interrupt ("human_review",          *)
(* "publish_review"), the middle of a run, or after END.                   *)
Places == {"collect", "human_review", "drafting", "publish_review",
           "publishing", "end"}
Interrupted(place) == place \in {"human_review", "publish_review"}

(* No string equals Python's None.                                         *)
ASSUME NoneAssumption ==
    None \notin Statuses \cup Places \cup {"analysis", "publish", "firing"}

(* One checkpoint: the draft channel outlives the run that wrote it, a new *)
(* alert does not clear it (graph/state.py has no reset).                  *)
Checkpoint == [at: Places \cup {None}, draft: Drafts \cup {None},
               analysis: 0..MaxAnalyses]

NoPending == [version |-> 0, stage |-> None, draft |-> None, analysis |-> 0]
Answers == {"approved", "rejected"}
(* What the pending row shows of a draft, and what publishers are sent.    *)
Display(d) == IF d \in Drafts THEN Redacted[d] ELSE d
Decision == [answer: Answers, by: Reviewers]

NoCheckpoint == [at |-> None, draft |-> None, analysis |-> 0]
WorkerIdle == [pc |-> "idle", run |-> NoCheckpoint]
ApiIdle == [pc |-> "idle", kind |-> None, seen |-> NoPending, answer |-> None,
            run |-> NoCheckpoint]
NoJob == [kind |-> None, attempts |-> 0]

(* transition_lifecycle without and with expected_version.  (A definition  *)
(* named after the next one with a suffix is a mutated form of it: README, *)
(* "Mutations".)                                                           *)
CanMove(target) == target \in Allowed(lifecycle)
CanMoveFrom_VersionOnly(p, target) == p \in readers
CanMoveFrom(p, target) == p \in readers /\ CanMove(target)
MoveTo(target) == lifecycle' = target /\ readers' = {}
ReadLifecycle(p) == readers' = readers \cup {p} /\ UNCHANGED lifecycle

-----------------------------------------------------------------------------
(* The graph of graph/workflow.py.                                         *)

(* graph.ainvoke({"alert": ...}): a new run of the thread from its entry.  *)
NewRun(c) == [c EXCEPT !.at = "collect"]

(* graph.ainvoke(Command(resume=...)): the node that was interrupted takes *)
(* the answer, whoever gave it; in the middle of a run there is nothing to *)
(* answer and the run goes on.  `shown` is the draft whose digest comes    *)
(* with the answer, None from the analysis review.                         *)
DigestOk_Unchecked(c, shown) == TRUE
DigestOk(c, shown) == c.draft = shown

Refused(c, answer, shown) ==
    c.at = "publish_review" /\ answer = "approved" /\ ~DigestOk(c, shown)

Resumed(c, answer) ==
    [c EXCEPT !.at =
        CASE c.at = "human_review" ->
                IF answer = "approved" THEN "drafting" ELSE "collect"
          [] c.at = "publish_review" ->
                IF answer = "approved" THEN "publishing" ELSE "end"
          [] OTHER -> c.at]

(* A run goes on from checkpoint c to the next interrupt or to the end.    *)
RunEnds(c, d) ==
    CASE c.at = "collect" ->
            [c EXCEPT !.at = "human_review", !.analysis = analyses + 1]
      [] c.at = "drafting" -> [c EXCEPT !.at = "publish_review", !.draft = d]
      [] c.at = "publishing" -> [c EXCEPT !.at = "end"]
      [] OTHER -> c

FinishRun(c, d) ==
    /\ c.at = "collect" => analyses < MaxAnalyses
    /\ graph' = RunEnds(c, d)
    /\ analyses' = IF c.at = "collect" THEN analyses + 1 ELSE analyses
    /\ published' = IF c.at = "publishing" THEN published \cup {Display(c.draft)}
                    ELSE published

(* The pending row sync_registry writes for state c, and its removal.      *)
StageOf(c) == IF c.draft # None THEN "publish" ELSE "analysis"
AddPending_Unredacted(c) ==
    /\ pending.version < MaxVersion
    /\ pending' = [version |-> pending.version + 1, stage |-> StageOf(c),
                   draft |-> c.draft, analysis |-> c.analysis]
AddPending(c) ==
    /\ pending.version < MaxVersion
    /\ pending' = [version |-> pending.version + 1, stage |-> StageOf(c),
                   draft |-> Display(c.draft), analysis |-> c.analysis]

-----------------------------------------------------------------------------
(* The job handler.                                                        *)
WorkerStep(from, to) ==
    worker.pc = from /\ worker' = [worker EXCEPT !.pc = to]

Deliver(kind) ==
    /\ job = NoJob
    /\ jobsLeft > 0
    /\ jobsLeft' = jobsLeft - 1
    /\ job' = [kind |-> kind, attempts |-> 0]
    /\ UNCHANGED <<status, records, thread, worker, api, submitsLeft, faults>>

(* The claim counts the attempt; counting stops at the limit.              *)
Attempted == [job EXCEPT !.attempts = IF @ < MaxAttempts THEN @ + 1 ELSE @]

(* run_incident_job up to get_lifecycle.                                   *)
FirstStep(current) ==
    CASE job.kind = "resolved" ->
            IF current \in {None, "resolved"} THEN "done" ELSE "resolve"
      [] OTHER ->
            CASE current = None -> "receive"
              [] current = "resolved" -> "reopen"
              [] current = "awaiting_analysis_review" -> "revise"
              [] OTHER -> "invoke"

StartJob ==
    /\ job.kind \in {"firing", "resolved"}
    /\ job' = Attempted
    /\ WorkerStep("idle", FirstStep(lifecycle))
    /\ ReadLifecycle("worker")
    /\ UNCHANGED <<records, thread, api, budget>>

(* The transition each step asks for; revise and resolve pass the version  *)
(* they read.                                                              *)
WorkerTarget ==
    [receive |-> "received", collect |-> "collecting", analyze |-> "analyzing",
     revise |-> "analyzing", resolve |-> "resolved", reopen |-> "received",
     finish |-> "awaiting_analysis_review"]
Versioned == {"revise", "resolve"}
WorkerMayMove(step) ==
    /\ CanMove(WorkerTarget[step])
    /\ step \in Versioned => "worker" \in readers

WorkerMove(step, next) ==
    /\ WorkerStep(step, next)
    /\ WorkerMayMove(step)
    /\ MoveTo(WorkerTarget[step])
    /\ UNCHANGED <<records, thread, job, api, budget>>

Receive == WorkerMove("receive", "collect")
Collect == WorkerMove("collect", "analyze")
Analyze == WorkerMove("analyze", "invoke")
Revise == WorkerMove("revise", "invoke")
Resolve == WorkerMove("resolve", "done")

(* reopen_incident takes received, collecting and analyzing in one         *)
(* transaction.                                                            *)
Reopen ==
    /\ WorkerStep("reopen", "invoke")
    /\ WorkerMayMove("reopen")
    /\ MoveTo("analyzing")
    /\ UNCHANGED <<records, thread, job, api, budget>>

Invoke ==
    /\ worker.pc = "invoke"
    /\ graph' = NewRun(graph)
    /\ worker' = [pc |-> "running", run |-> NewRun(graph)]
    /\ UNCHANGED <<status, records, analyses, published, job, api, budget>>

WorkerRunEnds ==
    /\ worker.pc = "running"
    /\ FinishRun(worker.run, None)
    /\ worker' = [pc |-> "sync", run |-> graph']
    /\ UNCHANGED <<status, records, job, api, budget>>

WorkerSync ==
    /\ WorkerStep("sync", "finish")
    /\ AddPending(worker.run)
    /\ UNCHANGED <<status, decisions, approvals, approved, thread, job, api, budget>>

Finish == WorkerMove("finish", "done")

JobDone ==
    /\ worker.pc = "done"
    /\ worker' = WorkerIdle
    /\ job' = NoJob
    /\ UNCHANGED <<status, records, thread, api, budget>>

(* fail_job with its limit of attempts: the exception of a refused         *)
(* transition is a ValueError, which the worker does not retry, others may *)
(* be.                                                                     *)
Failed_StaysLeased(limit) == [job EXCEPT !.kind = "leased"]
Failed(limit) == IF job.attempts >= limit THEN [job EXCEPT !.kind = "dead_letter"]
                 ELSE job

JobRaises ==
    /\ worker.pc \in DOMAIN WorkerTarget
    /\ ~WorkerMayMove(worker.pc)
    /\ job' = Failed(1)
    /\ worker' = WorkerIdle
    /\ UNCHANGED <<status, records, thread, api, budget>>

(* A node of the graph, a connector or the database raises.                *)
HandlerFails(limit) ==
    /\ worker.pc # "idle"
    /\ faults > 0 /\ faults' = faults - 1
    /\ job' = Failed(limit)
    /\ worker' = WorkerIdle
    /\ UNCHANGED <<status, records, thread, api, jobsLeft, submitsLeft>>

(* An operator looks at the dead letter; the queue goes on.                *)
DeadLettered ==
    /\ worker.pc = "idle" /\ job.kind = "dead_letter"
    /\ job' = NoJob
    /\ UNCHANGED <<status, records, thread, worker, api, budget>>

WorkerLost ==
    /\ worker.pc # "idle"
    /\ faults > 0 /\ faults' = faults - 1
    /\ worker' = WorkerIdle
    /\ UNCHANGED <<status, records, thread, job, api, jobsLeft, submitsLeft>>

-----------------------------------------------------------------------------
(* The request handlers.  A handler that answers with an error or raises   *)
(* ends where it is; nothing undoes what it has committed.                 *)
ApiStep(q, from, to) ==
    api[q].pc = from /\ api' = [api EXCEPT ![q].pc = to]

(* The handlers of one process are coroutines whose database calls block   *)
(* the event loop: another one runs only while this one awaits its graph.  *)
Awaiting_AsyncDatabase == {"idle", "decide", "read", "advance", "audit", "resume",
                           "running", "sync", "settle", "settled"}
Awaiting == {"idle", "resume", "running", "sync"}
Turn(q) == \A p \in Requests \ {q} :
              Process[p] = Process[q] => api[p].pc \in Awaiting
ApiEnds(q) == api' = [api EXCEPT ![q] = ApiIdle]

(* review: the pending row and the lifecycle are read, the submitted       *)
(* version is the one shown (any other is refused before a write).         *)
SubmitReview(q, answer) ==
    /\ api[q] = ApiIdle
    /\ submitsLeft > 0 /\ submitsLeft' = submitsLeft - 1
    /\ pending.stage = "analysis"
    /\ lifecycle # "resolved"
    /\ api' = [api EXCEPT ![q] = [ApiIdle EXCEPT !.pc = "decide", !.kind = "review",
                            !.seen = pending, !.answer = answer]]
    /\ UNCHANGED <<status, records, thread, job, worker, jobsLeft, faults>>

(* record_review_decision: the row lock, the version, the first decision.  *)
MayDecide_Unchecked(q) == pending.version = api[q].seen.version
MayDecide(q) == /\ pending.version = api[q].seen.version
                /\ decisions[pending.version] = None

Decide(q, by) ==
    /\ ApiStep(q, "decide", "read")
    /\ MayDecide(q)
    /\ decisions' = [decisions EXCEPT ![api[q].seen.version] =
                        [answer |-> api[q].answer, by |-> by]]
    /\ UNCHANGED <<status, pending, approvals, approved, thread, job, worker, budget>>

(* 409 for a stale version or another decision, 202 for the same one.      *)
DecideRefused(q) ==
    /\ api[q].pc = "decide"
    /\ ~MayDecide(q)
    /\ ApiEnds(q)
    /\ UNCHANGED <<status, records, thread, job, worker, budget>>

ReviewTarget(answer) ==
    IF answer = "approved" THEN "drafting_postmortem" ELSE "analyzing"

(* After the decision and after the run the handler reads the lifecycle    *)
(* version and writes the transition with it: two transactions.            *)
ReadBeforeMove(q, from, to) ==
    /\ ApiStep(q, from, to)
    /\ ReadLifecycle(q)
    /\ UNCHANGED <<records, thread, job, worker, budget>>

ApiMove(q, from, target, to) ==
    /\ api[q].pc = from
    /\ CanMoveFrom(q, target)
    /\ MoveTo(target)
    /\ IF to = "idle" THEN ApiEnds(q) ELSE ApiStep(q, from, to)
    /\ UNCHANGED <<records, thread, job, worker, budget>>

ApiMoveRefused(q, from, target) ==
    /\ api[q].pc = from
    /\ ~CanMoveFrom(q, target)
    /\ ApiEnds(q)
    /\ UNCHANGED <<status, records, thread, job, worker, budget>>

ReadForDecision(q) == ReadBeforeMove(q, "read", "advance")
Advance(q) == ApiMove(q, "advance", ReviewTarget(api[q].answer), "resume")
AdvanceRefused(q) == ApiMoveRefused(q, "advance", ReviewTarget(api[q].answer))

(* publish_review_decision up to the graph run.                            *)
SubmitPublication(q, answer) ==
    /\ api[q] = ApiIdle
    /\ submitsLeft > 0 /\ submitsLeft' = submitsLeft - 1
    /\ pending.stage = "publish"
    /\ api' = [api EXCEPT ![q] = [ApiIdle EXCEPT !.pc = "audit", !.kind = "publish",
                            !.seen = pending, !.answer = answer]]
    /\ UNCHANGED <<status, records, thread, job, worker, jobsLeft, faults>>

(* append_event: the key is made of the revision, the answer and the       *)
(* feedback (approvals have none here); an event with the key of a stored  *)
(* one is dropped.                                                         *)
AppendPublicationEvent(q) ==
    /\ ApiStep(q, "audit", "resume")
    /\ IF api[q].answer = "approved"
       THEN /\ approved' = approved \cup {api[q].seen.draft}
            /\ approvals' = [approvals EXCEPT ![api[q].seen.version] =
                                IF @ = None THEN api[q].seen.draft ELSE @]
       ELSE UNCHANGED <<approved, approvals>>
    /\ UNCHANGED <<status, pending, decisions, thread, job, worker, budget>>

(* The digest a resume value carries.                                      *)
Shown(q) == IF api[q].kind = "publish" THEN api[q].seen.draft ELSE None

Resume(q) ==
    /\ api[q].pc = "resume"
    /\ ~Refused(graph, api[q].answer, Shown(q))
    /\ graph' = Resumed(graph, api[q].answer)
    /\ api' = [api EXCEPT ![q].pc = "running", ![q].run = graph']
    /\ UNCHANGED <<status, records, analyses, published, job, worker, budget>>

ResumeRefused(q) ==
    /\ api[q].pc = "resume"
    /\ Refused(graph, api[q].answer, Shown(q))
    /\ ApiEnds(q)
    /\ UNCHANGED <<status, records, thread, job, worker, budget>>

ApiRunEnds(q, d) ==
    /\ api[q].pc = "running"
    /\ FinishRun(api[q].run, d)
    /\ api' = [api EXCEPT ![q].pc = "sync", ![q].run = graph']
    /\ UNCHANGED <<status, records, job, worker, budget>>

(* sync_registry with expected_pending_version.                            *)
PendingUnchanged(q) == pending.version = api[q].seen.version

ApiSync(q) ==
    /\ ApiStep(q, "sync", "settle")
    /\ PendingUnchanged(q)
    /\ IF Interrupted(api[q].run.at) THEN AddPending(api[q].run)
       ELSE pending' = NoPending
    /\ UNCHANGED <<status, decisions, approvals, approved, thread, job, worker, budget>>

ApiSyncRefused(q) ==
    /\ api[q].pc = "sync"
    /\ ~PendingUnchanged(q)
    /\ ApiEnds(q)
    /\ UNCHANGED <<status, records, thread, job, worker, budget>>

(* The status after the run: from the run's state for a review, from the   *)
(* answer alone for a publication.                                         *)
FinalStatus(q) ==
    IF api[q].kind = "publish"
    THEN IF api[q].answer = "approved" THEN "completed" ELSE "drafting_postmortem"
    ELSE IF ~Interrupted(api[q].run.at) THEN "completed"
         ELSE IF api[q].run.draft # None THEN "awaiting_publish_review"
              ELSE "awaiting_analysis_review"

ReadToSettle(q) == ReadBeforeMove(q, "settle", "settled")
Settle(q) == ApiMove(q, "settled", FinalStatus(q), "idle")
SettleRefused(q) == ApiMoveRefused(q, "settled", FinalStatus(q))

(* The API process dies, or the graph raises and the request with it.      *)
ApiLost(q) ==
    /\ api[q].pc # "idle"
    /\ faults > 0 /\ faults' = faults - 1
    /\ ApiEnds(q)
    /\ UNCHANGED <<status, records, thread, job, worker, jobsLeft, submitsLeft>>

-----------------------------------------------------------------------------
Init ==
    /\ lifecycle = None /\ readers = {}
    /\ pending = NoPending
    /\ decisions = [v \in 0..MaxVersion |-> None]
    /\ approvals = [v \in 0..MaxVersion |-> None] /\ approved = {}
    /\ graph = NoCheckpoint
    /\ analyses = 0 /\ published = {}
    /\ job = NoJob /\ worker = WorkerIdle
    /\ api = [q \in Requests |-> ApiIdle]
    /\ jobsLeft = MaxJobs /\ submitsLeft = MaxSubmits /\ faults = MaxFaults

Worker ==
    \/ StartJob \/ Receive \/ Collect \/ Analyze \/ Revise \/ Resolve \/ Reopen
    \/ Invoke \/ WorkerRunEnds \/ WorkerSync \/ Finish \/ JobDone
    \/ JobRaises \/ DeadLettered

WorkerFails == WorkerLost \/ \E limit \in {1, MaxAttempts} : HandlerFails(limit)

Submit(q) ==
    /\ Turn(q)
    /\ \/ \E answer \in Answers : SubmitReview(q, answer)
       \/ \E answer \in PublicationAnswers : SubmitPublication(q, answer)

Handle(q) ==
    \/ /\ Turn(q)
       /\ \/ \E by \in Reviewers : Decide(q, by)
          \/ DecideRefused(q) \/ ReadForDecision(q) \/ Advance(q) \/ AdvanceRefused(q)
          \/ AppendPublicationEvent(q)
          \/ Resume(q) \/ ResumeRefused(q)
          \/ ApiSync(q) \/ ApiSyncRefused(q)
          \/ ReadToSettle(q) \/ Settle(q) \/ SettleRefused(q)
    \/ \E d \in Drafts : ApiRunEnds(q, d)

Next ==
    \/ \E kind \in JobKinds : Deliver(kind)
    \/ Worker
    \/ WorkerFails
    \/ \E q \in Requests : Submit(q) \/ Handle(q) \/ ApiLost(q)

Spec == Init /\ [][Next]_vars

(* The queue hands out its jobs and every handler runs to its end; nobody  *)
(* has to submit anything, and no loss has to happen.                      *)
FairSpec ==
    /\ Spec
    /\ WF_vars(Worker)
    /\ \A q \in Requests : WF_vars(Handle(q))

-----------------------------------------------------------------------------
(* Properties.                                                             *)

Versions == 0..MaxVersion
PendingRow == [version: Versions, stage: {"analysis", "publish", None},
               draft: Drafts \cup {None}, analysis: 0..MaxAnalyses]
WorkerRow == [pc: {"idle", "receive", "collect", "analyze", "revise", "reopen",
                   "resolve", "invoke", "running", "sync", "finish", "done"},
              run: Checkpoint]
ApiRow == [pc: {"idle", "decide", "read", "advance", "audit", "resume",
                "running", "sync", "settle", "settled"},
           kind: {"review", "publish", None}, seen: PendingRow,
           answer: Answers \cup {None}, run: Checkpoint]
JobRow == [kind: {"firing", "resolved", "dead_letter", None},
           attempts: 0..MaxAttempts]

(* Rows, checkpoints and handlers keep the shape the code gives them.      *)
TypeOK ==
    /\ lifecycle \in Statuses \cup {None}
    /\ readers \subseteq Requests \cup {"worker"}
    /\ pending \in PendingRow
    /\ decisions \in [Versions -> Decision \cup {None}]
    /\ approvals \in [Versions -> Drafts \cup {None}]
    /\ approved \subseteq Drafts \cup {None}
    /\ graph \in Checkpoint
    /\ analyses \in 0..MaxAnalyses
    /\ published \subseteq Drafts \cup {None}
    /\ job \in JobRow
    /\ worker \in WorkerRow
    /\ api \in [Requests -> ApiRow]
    /\ jobsLeft \in 0..MaxJobs /\ submitsLeft \in 0..MaxSubmits /\ faults \in 0..MaxFaults

(* A draft leaves the system only if a publication reviewer approved       *)
(* exactly what is sent, whatever alerts, reruns and other reviewers       *)
(* changed between the approval and the run it resumes.                    *)
PublishedWasApproved == published \subseteq approved

Deciding(q) == api[q].kind = "review" /\ api[q].pc \notin {"idle", "decide"}

(* Of all reviewers of one pending revision one gets through; the decision *)
(* on record is the one it acts on.                                        *)
OneWinner ==
    /\ \A p, q \in Requests :
          Deciding(p) /\ Deciding(q) /\ p # q =>
             api[p].seen.version # api[q].seen.version
    /\ \A q \in Requests : Deciding(q) =>
          /\ decisions[api[q].seen.version] # None
          /\ decisions[api[q].seen.version].answer = api[q].answer

AtRest == /\ worker = WorkerIdle /\ job = NoJob
          /\ \A q \in Requests : api[q] = ApiIdle

(* During an incident's first event and as long as no handler was lost:    *)
(* whenever nobody is at work the records of the incident agree, what its  *)
(* lifecycle waits for, the gate its graph is interrupted at, and the stage,*)
(* the analysis and the draft the pending row offers to decide. It is about *)
(* requests that race each other through both gates; a second event, be it *)
(* an alert or a resolution, and a lost handler end the promise (README,   *)
(* Findings).                                                              *)
Undisturbed == jobsLeft >= MaxJobs - 1 /\ faults = MaxFaults
GatesAgree ==
    AtRest /\ Undisturbed =>
       /\ (lifecycle = "awaiting_analysis_review") <=> (graph.at = "human_review")
       /\ (lifecycle = "awaiting_publish_review") <=> (graph.at = "publish_review")
       /\ pending.stage = (CASE graph.at = "human_review" -> "analysis"
                             [] graph.at = "publish_review" -> "publish"
                             [] OTHER -> None)
       /\ pending.version # 0 =>
             pending.analysis = graph.analysis /\ pending.draft = Display(graph.draft)

(* A reviewer who answers late does not move an incident that was resolved *)
(* meanwhile: it leaves "resolved" only when a firing event reopens it.    *)
ResolvedUntilReopened ==
    [][lifecycle = "resolved" /\ lifecycle' # "resolved" =>
          worker.pc = "reopen" /\ worker'.pc = "invoke"]_vars

(* A job for the incident ends: done, or a dead letter, after any finite   *)
(* number of failures and of transitions other handlers made illegal.      *)
JobEnds == job # NoJob ~> job = NoJob

(* The parts of the inductive invariant (IncidentReviewProofs).  A request *)
(* in flight has an answer.  A checkpoint, stored or carried by a run,     *)
(* offers a draft for publication only if it has one, and publishes one    *)
(* only if it was approved; the worker's runs stop before that.  A         *)
(* publication that goes to the graph has been approved.  Only a first     *)
(* alert, before any row, receives an incident.  What was ever shown is    *)
(* redacted.                                                               *)
Answered == \A q \in Requests : api[q].pc # "idle" => api[q].answer \in Answers
ApprovedAt(c) ==
    /\ c.at = "publish_review" => c.draft # None
    /\ c.at = "publishing" => Display(c.draft) \in approved
Shows(row) == row.draft = Display(row.draft)
RunsApproved ==
    /\ ApprovedAt(graph)
    /\ \A q \in Requests : ApprovedAt(api[q].run)
    /\ worker.pc = "running" => worker.run.at = "collect"
ShownRedacted == Shows(pending) /\ \A q \in Requests : Shows(api[q].seen)
KindOk(q) ==
    /\ api[q].pc \in {"decide", "read", "advance"} => api[q].kind = "review"
    /\ api[q].pc = "audit" => api[q].kind = "publish"
    /\ api[q].pc # "idle" => api[q].kind \in {"review", "publish"}
ResumesApproved ==
    \A q \in Requests :
       /\ KindOk(q)
       /\ api[q].pc = "resume" /\ api[q].kind = "publish" /\ api[q].answer = "approved"
             => api[q].seen.draft \in approved
FirstReceived == worker.pc = "receive" => lifecycle = None
ReviewInv ==
    /\ TypeOK /\ Answered
    /\ RunsApproved /\ ResumesApproved /\ PublishedWasApproved
    /\ OneWinner
    /\ FirstReceived /\ ShownRedacted

-----------------------------------------------------------------------------
(* What the documentation says and the code does not keep (README).        *)

(* A resume that approves the analysis at the gate is of a decision about  *)
(* that analysis. OPENAPI_CONTRACT.md: "A stale decision receives `409`    *)
(* instead of applying to a newer analysis or draft." Command(resume=...)  *)
(* of the review endpoint (api.py:1753) does not name an analysis: a new   *)
(* alert's run that ends between the decision and the resume has put a     *)
(* newer one at the gate, and it is approved unseen.                       *)
DecisionsHitWhatTheyShow ==
    [][\A q \in Requests :
          /\ api[q].pc = "resume" /\ api'[q].pc = "running"
          /\ graph.at = "human_review" /\ graph'.at = "drafting"
          => api[q].seen.analysis = graph.analysis]_vars
=============================================================================
