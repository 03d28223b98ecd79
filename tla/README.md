# incidentAgent: a TLA+ verification project

incidentAgent receives alerts over HTTP, queues them in MySQL, lets workers run a LangGraph analysis
of each incident, interrupts that graph twice for a human decision (the analysis, then the
postmortem), and publishes the approved postmortem to Slack, GitHub and Jira. This directory models
the parts of it whose correctness depends on the order of steps of several processes or on what
fails half-way.

| module | models | proofs | TLC instance |
|---|---|---|---|
| `Intake` | a signed webhook request: replay guard, rate limits, incident ids, admission of its batch | `IntakeProofs` | `MCIntake` |
| `JobQueue` | admission, leases, retries, dead letters, worker loop | `JobQueueProofs` | `MCJobQueue` |
| `Collection` | the collection nodes and their clients, retries, the circuit of a source | `CollectionProofs` | `MCCollection` |
| `Investigation` | the loop of targeted queries, the tool budget, the model budget, the nodes after collection | `InvestigationProofs` | `MCInvestigation` |
| `Interpretation` | the deterministic assessment, the links and answers of a model after validation, what a review shows, what is explained | `InterpretationProofs` | `MCInterpretation` |
| `RevisionStore` | revisions, analysis snapshots, evidence versions, differences, evidence of approvals | `RevisionStoreProofs` | `MCRevisionStore` |
| `IncidentReview` | lifecycle, pending review, decisions, the two interrupts of the graph, job handler, review endpoints | `IncidentReviewProofs` | `MCIncidentReview` |
| `Publication` | the publish node, its claims table, the request loop | `PublicationProofs` | `MCPublication` |
| `JobTurns` | abstract: what the job tables promise the workers | refined in `JobQueueProofs` | - |
| `PublicationGuard` | abstract: what the claims table promises | refined in `PublicationProofs` | - |

To repeat a run: `tlc -config <Run>.cfg MC<Module>`; to repeat the proofs: `tlapm <Module>Proofs.tla`.
Line numbers are those of the commit these modules were written for; `PROJECT.json` maps every
definition to its lines.

## 1. Inventory

### Components, their state and operations

**Durable job queue** (`webhook/incident_store.py` 566-692, 1443-1686; `webhook/worker.py`).
State: tables `incident_events` (unique idempotency key), `incident_jobs` (unique job key, status,
`attempt_count`, `available_at`, `worker_id`, `leased_until`), `incident_job_locks` (one row per
incident), `incident_dead_letters`; per worker process, the job snapshot it got from its claim.
Operations: `record_event_and_enqueue`, `append_event`, `claim_next_job`, `renew_job_lease`,
`complete_job`, `fail_job`, `replay_dead_letter`, `enqueue_reprocessing`; the worker's poll,
heartbeat and cancellation. Correct when: an event and its job are committed together; the queue is
bounded; one unexpired lease per incident; only the owner finishes a job; no job is lost; an alert
that joins a job is the one the job runs; every job ends.

**Incident lifecycle and human review** (`webhook/lifecycle.py`, `registry.py`, `job_handler.py`,
`state_sync.py`, `api.py` 1640-1910; `graph/nodes/human_review.py`, `publish_review.py`,
`graph/routing.py`). State: `incident_lifecycle` (status and version), `pending_reviews` (one
versioned row), `incident_review_decisions` (one per pending revision), audit events, the LangGraph
checkpoint thread, and what each handler remembers across its awaits. Operations: the job handler
for firing and resolved events, the review endpoint, the publication endpoint, `sync_registry`.
Correct when: nothing is published that was not approved; one decision per revision is acted on; a
decision hits what the reviewer was shown; a late reviewer does not undo a resolution; the lifecycle,
the graph and the pending row name the same gate.

**Publication guard and publish node** (`graph/nodes/publish.py`, `incident_store.py` 1688-1817).
State: `incident_publications` (status, attempt token). Operations: `begin_publication`, one request
per destination, `complete_publication`, `mark_publication_uncertain`. Correct when: a draft is
attempted once, reported as published only when every destination has it, and never repeated after
an uncertain answer.

**Intake guards** (`api.py` 1381-1581, `replay.py`, `rate_limit.py`, `alert_contract.py`). State:
`webhook_nonces`, `webhook_rate_limits` (one row per key and window). Correct when: no window admits
more than its limit from any mix of processes; a nonce is not taken again while the timestamp signed with it is
valid (which the code keeps with exceptions, see "Findings"); what is answered 200 is stored.

**Incident id allocation** (`incident_store.py` 484-555). State: `incident_id_map`,
`incident_id_sequence`. Correct when: a bucket has one id and an id one bucket, also for first alerts that race.

**Connector requests, circuit breaker, collection** (`utils/resilience.py`, `clients/loki_client.py`,
`prometheus_client.py`, `github_client.py`, `graph/nodes/gather_*.py`). State: per process and source,
failures counted and the time the circuit is open until; per collection, what was sampled and counted. Correct
when: a sample reaches over the whole window; what is missing shows in the status; an open circuit
ends the traffic.

**Investigation loop, tool budget, model call budget** (`graph/workflow.py`, `utils/investigation_loop.py`,
`tool_budget.py`, `model_usage.py`, `clients/openai_client.py`). State: channels `investigation_budget`,
`model_usage_ledger` and `analysis_deadline`, per pass a session's copy of them. Correct when: allowances hold although failed
passes forget what they spent; the provider's bill stays within the incident's budget; a stopped loop
stays stopped; every run comes to rest.

**Assessment, interpretation and grounding** (`utils/signal_observations.py`, `candidate_scoring.py`, `candidate_contract.py`,
`semantic_report.py`, `interpretation_contract.py`; `graph/nodes/score_candidates.py`, `semantic_correlate.py`, `integrate_targeted_evidence.py`,
`interpret_incident.py`, `deep_rca.py`; `utils/review_gate.py`). State: channels with the log groups, the assessment, the chain of links, the structured
interpretation, the chosen rank; the candidates in the pending row. Operations: score, correlate, integrate targeted evidence, interpret, approve, explain.
Correct when: a shown hypothesis rests on the evidence shown beside it, whatever the model says and whatever has changed since it was asked; nothing is shown
while the assessment of that evidence abstains (what makes it abstain is less than the contracts name, see "Findings"); the explained hypothesis is the approved one; an abstention is not approved.

**Revisions and evidence** (`incident_store.py` 694-1336). State: head row per incident, revisions, analysis
snapshots with their evidence links, evidence versions. Correct when: numbers form a chain without gaps, one revision
per job; stored snapshots stay valid and exact; differences shown are true; approvals keep their evidence.

**Checkpoint store** (`graph/checkpointer.py`): a thread's checkpoints and pending writes, read and written by LangGraph.
**MySQL connection pool** (`utils/mysql.py`): threads of a process share at most `pool_size` connections.
**Analysis graph** (`graph/workflow.py`): a linear part up to the evidence pack, then the loop. The rest is reads,
rendering, conversions, computations on one alert's data, configuration, tests and scripts.
`PROJECT.json` lists all of them with their status.

### Interactions

A signed request passes the replay guard and the rate limits; each alert of its batch gets its incident id. An API process stores an alert and its job in one transaction. A worker process claims the job, runs
`run_incident_job`, which moves the lifecycle, invokes the graph (checkpoints in MySQL; it collects from the sources, lets the
model ask for more within its budgets), writes the analysis snapshot of the job's revision and the pending row. A reviewer's request, in an API process, reads the pending row, records a decision,
moves the lifecycle and resumes the *same* checkpoint thread, then writes the next pending row and
the next status. The second resume runs the publish node, which claims the draft in
`incident_publications` and calls the providers. Worker and API processes share nothing but MySQL;
requests of one API process share its event loop.

### What is hard

* several transactions make one handler, and nothing undoes the first when a later one is refused
  or the process dies;
* a lease, an incident lock and a worker's memory of its job are three records of one fact that
  expire or are lost separately;
* reviewers, alerts and resolutions change the row a handler has read, and the graph they resume;
* retries of requests whose answer is lost; exceptions after a commit;
* a full queue, a full claim batch, a debounce window that alerts keep extending.

`PROJECT.json` lists these as hazards with the line where each bites and the property that covers it.

## 2. The models and the code

### JobQueue

One action is one transaction at its commit. MySQL runs at READ-COMMITTED (`compose.yaml:79`) and
the transactions lock the rows they decide on, so their decisions are taken on committed state. The
one that *waits* for a lock half-way, `record_event_and_enqueue`, is split: `InsertEvent` gets the
event its id, then `CoalesceAlert`, `EnqueueAlert` or `RejectAlert` runs under the incident's
admission lock. `AbortIntake` is the API process dying in between. What runs under the incident's admission row
(`incident_store.py:607-612`) or the queue-control row (577-580) is one step, so that these locks exclude others is
assumed: `FreshPendingUnique` and `CapacityRespected` are about what is found and counted under them, in every order in
which the transactions get them.

| code | TLA+ |
|---|---|
| `record_event_and_enqueue` | `InsertEvent`, `CoalesceAlert`, `EnqueueAlert`, `RejectAlert`, `AbortIntake` |
| `append_event` | `AppendEvent` |
| `claim_next_job` | `Claim(w, skip)`; `skip` is the set of rows SKIP LOCKED leaves out, `FirstBatch` its LIMIT |
| `renew_job_lease`, heartbeat task | `Renew`, `LeaseLost`, `OnTime` |
| `complete_job`, `fail_job` | `Complete`, `Retry(w, limit)`, `DeadLetter(w, limit)`; `limit` is 1 for an error that is not retryable |
| worker process dies, heartbeat meets a database error | `Abandon` |
| `replay_dead_letter`, `enqueue_reprocessing` | `ReplayDeadLetter`, `EnqueueReprocessing` |
| passing of time | `Tick`; `StalledTick` when a lease runs out under a worker that still holds it |

DATETIME columns are only ever compared with the current time, so they are kept as distances from
now. A lease that has run out is `Expired = -1`, because `leased_until < now` is strict.

`JobTurns` states what the two tables promise together: a job is admitted while there is room, an incident has at most one
turn at a time, a turn is never taken over while its worker holds it, it ends with an outcome or runs out, and an outcome is final.
It knows no lock rows and no clock. `JobQueue` implements it (`TurnSpec`): a job's holder is the worker of its row while the
lease has not run out. An outcome may come after the turn ran out, also while another job of the incident has its turn (see "Findings").

### IncidentReview

One incident; one job handler (the queue gives an incident to one worker at a time while the lease
is renewed; what happens otherwise is `JobQueue`'s subject), any number of API requests. Each action
is one transaction, or the start or the end of a graph run.

* *Lifecycle versions.* Optimistic versions are compared for equality only, so instead of counters
  `readers` holds the processes whose last read is still current; any move empties it.
* *The graph.* LangGraph is not in `src/`. The code relies on this: `ainvoke` with a new input starts
  a new run of the thread and keeps its channels (the draft of an earlier run stays);
  `Command(resume=...)` is taken by whichever interrupt the thread is at; an exception of the resumed
  node leaves the checkpoint as it was. `RunEnds` is one run from a node to the next interrupt or END.
* *Event loop.* The handlers are coroutines whose database calls block; a request of the same
  `Process` runs only while another awaits its graph (`Turn`, `Awaiting`).
* *Requests.* A request that is refused before its first write (wrong version, nothing pending) is
  one that was not submitted. `SubmitReview` merges the reads before it. `Answers` has `approved` and
  `rejected`; `request_more_evidence` takes the same steps as `rejected`. `approvals` is the stored
  audit event of each pending revision: a second one with the same key is dropped.
* *Errors.* A refused transition raises `LifecycleTransitionError` or `RevisionConflictError`, both
  `ValueError`s, which the worker does not retry: `JobRaises` is a dead letter at once. Anything else
  a node or connector raises is `HandlerFails(limit)`.

| code | TLA+ |
|---|---|
| `run_incident_job` | `StartJob`, `Receive`, `Collect`, `Analyze`, `Revise`, `Reopen`, `Resolve`, `Invoke`, `WorkerRunEnds`, `WorkerSync`, `Finish`, `JobDone` |
| `review` | `SubmitReview`, `Decide`/`DecideRefused`, `ReadForDecision`, `Advance`/`AdvanceRefused`, `Resume`, `ApiRunEnds`, `ApiSync`/`ApiSyncRefused`, `ReadToSettle`, `Settle`/`SettleRefused` |
| `publish_review_decision` | `SubmitPublication`, `AppendPublicationEvent`, `Resume`/`ResumeRefused`, and from there as `review` |
| `sync_registry`, `add_pending` | `AddPending`, `ApiSync`, `WorkerSync` |
| `publish_review` node | `Refused`, `DigestOk`, `Resumed` |
| worker or request lost, graph raises | `WorkerLost`, `ApiLost`, `HandlerFails` |

### Publication

A run is one execution of the publish node with publishing enabled. Its random attempt token is
modelled by the run itself. Destinations are called in the code's order (Slack, GitHub, Jira); every
request reaches its provider or not, independently of what the run learns about it. A crash is
possible at any time after the claim. `Complete(r, "failing")` is a commit whose acknowledgement is lost; the
exception handler then finds a row it must not touch. `Attempts` is `retry_attempts` per client.

`PublicationGuard` states what the table promises: one attempt per draft, deliveries to a destination
only during it and at most `Limit` of them, completion only when every destination has the draft.
`Publication` implements it (`GuardSpec`) with a row's status as the stage (no row: "new"),
`delivered` as the effects and `Attempts` as the limit.

### RevisionStore

A worker may run any job that is not completed, also one that another worker still runs: what `JobQueue` shows of
stalled leases is an assumption here. A transaction is split where it reads something its later statements rely on;
its writes are visible together at the commit. At READ-COMMITTED a locking read of a row that is not there locks nothing, so
`record_analysis_revision` is two steps (`ReadLatest`, `WriteSnapshot`) and the unique keys decide (`Collides`).

| code | TLA+ |
|---|---|
| `create_revision` | `LockHead`, `AllocateAgain`, `Allocate`, `InsertRevision`; `MaxLegacy` gives an incident revisions from before the head table |
| `run_incident_job` | `StartRun`, `Resolved`, `Analyze`, `Complete`, `Lose` |
| `record_analysis_revision` | `ReadBack`, `ReadLatest`, `WriteSnapshot`, `Collides` |
| `validate_analysis_evidence`, `get_analysis_revision_diff` | `Valid`, `Diff`, used by `AddPending` |
| `sync_registry`, `add_pending` | `AddPending` |
| review endpoint | `Approve`, `AnalyzeAgain`; the requests it refuses are the subject of `IncidentReview` |

### Investigation

One thread of the graph. A node works on a copy of the channels (`pass`) and its result is checkpointed when it
returns; `Lost` is the process dying or a node raising, which leaves the checkpoint before it. `sent` and `bill` are
history: what really went out, to which the properties compare the code's own counters.

| code | TLA+ |
|---|---|
| `plan_collection` (deadline), `build_investigation_budget` | `StartRun`, `BuildContext` |
| `create_response`, `authorize_model_call`, `record_*` | `TryAgain`, `LastTryFails`, `CallRefused`, `Answered`, `CircuitCloses` |
| `ToolSession.run` | `ToolAnsweredLocally`, `ToolExecuted`, `Barred`, `Charged` |
| `semantic_correlate`, `integrate_targeted_evidence`, `expansion_router` | `StartCorrelation`, `CorrelateWithoutModel`, `CorrelationReported`, `CorrelationFails`, `CompleteRound` |
| `interpret_incident` | `Abstain`, `StartInterpretation`, `InterpretWithoutTools`, `InterpretationReported`, `InterpretationDegraded` |
| `human_review` and what follows | `Review(node)`, `Reinvestigate`, `StartWriting`, `Written` |
| time | `DeadlinePasses`, `LoopTimePasses` |

What a query finds is a choice, and so is whether a cached result holds records that are new to the incident: after a lost run or a failed
pass it may. Tokens are one number: the code compares input, output, total and cost limits alike. An answer costs at most what was reserved for it, which is
an assumption: the reservation counts the bytes of the input and the output allowed, not the schemas of the tools sent along (`openai_client.py:80-85`).

### Interpretation

One thread of the graph. A picture is what aggregation leaves of the logs, as far as the scoring looks at it: per group its direct signal, its lifecycle
outcome, scope (`workload` stands for workload, host and pod), times, and the points of its detection rule. `Assess` is `score_candidates` whole: signals with their impact, detections, the
dependency and the traffic, merged by their events, ranked, capped, cut to three, and the reasons to abstain. An answer of the model is any choice of hypotheses from
`Proposals`; `Kept`, `Hypothesis` and `Settled` are what `validate_and_ground` makes of it. `failed` is a source with status "failed", the only one
`incident_features.py:93-97` collects into `source_failures`; the statuses for other gaps (`connector_result.py:24-33`) do not change the assessment and are in `Collection`.
A group has at most one direct signal where the code's may have several (`signal_observations.py:640`); two groups give two. The conflict between error logs and an
error rate of zero (`candidate_scoring.py:375-392`) is left out: it adds a weakness to the text and changes no score and no abstention.

| code | TLA+ |
|---|---|
| `build_observed_signals`, `_impact_assessment`, `_lifecycle_relation`, `_entity_match` | `Accepted`, `Linked`, `Contradicting`, `Eligible`, `Impact` |
| `score_candidates`, `_merge_same_event_candidates`, `finalize_candidates` | `Collected`, `Merged`, `Ranked`, `Abstains`; `ScoreCandidates` |
| `validate_semantic_report`, `_clean_link` | `Correlate`, `Referable`; `CorrelateWithoutModel` |
| `integrate_targeted_evidence`, `expansion_router` | `Integrate`, `NothingNew`, `NextRound` |
| `validate_and_ground`, `_candidate_evidence_roles`, `_claim`, `_action_class` | `Validated`, `CauseRole`, `MechanismRole`, `ImpactRole`, `Settled`, `StepKept` |
| `interpret_incident` | `AbstainFirst`, `ModelUnavailable`, `ContractBroken`, `ModelAbstains`, `ModelAnswers` |
| `_review_resume_payload`, `reinvestigate_feedback`, `build_approved_context` | `Approve`, `Reinvestigate`, `DeepRca` |

Channels that a node does not write keep their value: after `Integrate` the chain is still that of the older evidence, after `Collect` everything from the last
run is. Which rounds and budgets allow another correlation is in `Investigation`; several reviewers of one row are in `IncidentReview`.

### Collection

Collectors are threads of one process: a job whose lease is lost is cancelled while the thread of its node goes on, and the
worker claims the next job, so one source is queried by several at once. `request()` looks at the circuit once, before its
attempts (`CheckCircuit`), and counts a failure after them, under the lock again (`CountFailure`).

| code | TLA+ |
|---|---|
| `request` | `CheckCircuit`, `Answered`, `RefusedBySource`, `AttemptFails`, `CountFailure`, `CircuitExpires` |
| `query_logs`, `get_log_stats` | `Plan`, `Sampling`, `Ahead`, `Fetched`, `TopUp`, `Onward`, `Concluded` |
| `gather_logs`, `gather_metrics`, `gather_deploys` | `Start`, `AfterError`, `LogStatus`, `MetricStatus`, `Truncated` |
| Loki (external) | `Earliest`, `Latest`, `LineArrives` |

A log line is its time. The plan's arithmetic (three quarters for the window, the rest for signals, two to four slices with
quotas of both ends) is translated as it is, because `SampleCovers` is about it.

### Intake

A process has one request at work (its handlers are synchronous inside); processes interleave between statements.
The clock a check has read travels with it, so that a slow process can count in a window that is over.

| code | TLA+ |
|---|---|
| `validate_and_record_nonce` | `Arrive` (timestamp), `RecordNonce` |
| `allow` | `ReadClock`, `SelectCount`, `InsertCount`; once for all callers, once for the caller |
| `normalize_*`, contract errors | `Malformed` |
| tenant check, `get_or_create_incident_id` | `LookUp`, `LockSequence`, `Allocate` |
| `record_event_and_enqueue` | `Enqueue`, one step here, `JobQueue` has it in detail |
| process or database lost | `Fail` |

`used`, `passed` and `answered` are history variables.

### Mutations

A definition named after the next one with a suffix (`HasCapacity_CountsPendingOnly` before
`HasCapacity`) is a form of it that a plausible bug would give. It is used by no action. Replacing the
original's body by it makes the property `PROJECT.json` names fail in its run, which shows that the
property depends on that line of the code.

## 3. Runs

### Runs that pass

| run | what it checks | distinct states |
|---|---|---|
| `JobQueueTwoIncidents` | two incidents, two places, two of three alerts against replays and reprocessing: capacity, dead letters recorded, event and job together, the newest alert is carried by a job | 2,255,368 |
| `JobQueueBurst` | three alerts of one incident, two intakes in flight, two workers, one fault: lock and lease agree, exclusive leases, the owner's snapshot is current, one fresh pending job, debounce bound, only the owner finishes, the refinement of `JobTurns`, every job ends | 707,154 |
| `RevisionStore` | two workers, three jobs of one incident (one a resolution), four runs, one review, a legacy revision: allocations free, the chain of revisions, snapshots exact, differences true, approvals keep their evidence, nothing rewritten | 879,140 |
| `Investigation` | one thread, two runs, one review that asks for more, one loss, a free and a paid query, two rounds of two tool calls, four model calls: allowances, the model budget, stopped until reviewed, every run ends | 515,851 |
| `Interpretation` | one thread, two alerts, a round of targeted queries, a second look; eight pictures, five links, eight hypotheses: shown hypotheses are grounded, the evidence beside them has one leading candidate, one cause and no failed source, the explained candidate is the chosen one | 61,873 |
| `Collection` | two threads, three sources, three windows of eight times, limits 4 and 6, one late line: samples cover, gaps are shown, outages are not hammered | 965,284 |
| `Intake` | two processes, three requests, four alerts over two buckets, two rate windows, one fault: ids converge, answered is stored, no window over its limit, a nonce that was not stamped ahead is not taken again by a request that reads the clock and stores within its timestamp's window | 3,794,081 |
| `ReviewStorm` | three jobs (firing and resolved in any order, so incidents are resolved and reopened), two requests in two processes, one fault: the inductive invariant, approved before published, one winner, resolved until reopened | 950,653 |
| `ReviewRace` | two events, three requests of one process, one failure: every job ends, and during the first event, before the failure, all records of an incident at rest name the same gate | 891,339 |
| `PublicationClaims` | three runs, two drafts, three destinations: reports are true, the refinement of `PublicationGuard` | 59,350 |

### The runs that find a violation

`ReviewStaleDecision` (one request, two alerts, no fault) and `InterpretationApproval` each check one statement of a document that the code does not keep; see "Findings".

### Bounds

Every bound is a constant and appears in a guard.

* `MaxJobs`, `MaxEvents` bound the AUTO_INCREMENT ids: two jobs of one incident are what a follow-up
  plus a retried job need, a third one of another incident is needed to compete for capacity; three alerts give a
  merge, a follow-up and a merge into the follow-up.
* `MaxIntakes` is the number of transactions waiting for an admission lock: two make a race.
  `NewestAlertQueued` is checked with one, because with two the later id may commit first; a
  deployment with one API process has one (its handlers block the event loop).
* `MaxFaults` bounds crashes, stalls and lost requests, beside which handlers may fail at every attempt: one is
  a stalled or dead worker whose job is reclaimed by one that fails. That leases stay exclusive after any number of faults is proved.
* `MaxCount` saturates `attempt_count`, above `MaxAttempts`, so no comparison with the limit changes.
* Times are 0 to 2 seconds: what matters is only whether a deadline lies before, at or after another.
* `MaxPending = 2` is a queue that fills; `ClaimBatch = 1` makes the batch hide the second job.
* `MaxVersion`, `MaxAnalyses` bound the pending version and the number of runs that reach the gate.
  In `ReviewRace` they are at least what the jobs and requests can use, so that no behaviour stops because of a bound; elsewhere
  behaviours stop there, which is why those runs check safety only and deadlock is not checked.
* `MaxJobs`, `MaxSubmits` of the review module are the jobs that arrive and the requests that are made: an alert after the draft
  exists (two jobs) with decisions at both gates (two or more requests) is where the stages are mixed up; a reopening takes three jobs. `ReviewStaleDecision`
  has one request, so that the decision in its trace is one about an analysis.
* `ReviewRace` serves its requests from one process. That `GatesAgree` holds there rests on the event loop: its mutation
  `Awaiting_AsyncDatabase` lets handlers interleave at their database calls, as they do in two processes, and then a publication
  that ends between another request's pending row and its status leaves the incident waiting for a review of nothing.
* Three runs and two drafts in `Publication`: a claimer, a competitor and a later rerun, and a second draft that does not
  share their row.

* `RevisionStore`: four runs of three jobs are a job that is run again while another worker has it, and a later job that finishes first;
  four revisions are one legacy revision and one per job; two contents of one piece of evidence give a change, a return to an
  earlier content (the collision) and no change. `MaxReviews = 1` is an approval or a re-analysis in between.
* `Investigation`: two rounds of two tool calls with one free and one paid query reach every limit (units, bytes, cache, rounds);
  four calls and six tokens at two reserved run out both ways; two runs and one review are an alert on a stopped loop, and a renewed allowance.
* `Interpretation`: the pictures are a clear cause with its failure, two tied candidates, a recovered condition, two causes at once, a detection and a signal on one
  event, a failure with a later start, a failure of another execution, and one before its signal; the hypotheses cite the right events, wrong ones, unknown ones or too many,
  with every claim overstated. `MaxHypotheses = 2` has a second hypothesis of a rank; one round and one review change the evidence under an interpretation and
  interpret again. `LiveState` leaves out of a state's identity what the thread writes again before it reads it (the last interpretation, the pending row and the choice, until the next review).
* `Collection`: eight times in two to four slices make slices of unequal quota (limit 4: three lines of the window in one slice; limit 6: two
  slices); two tries and three counted failures open a circuit while the other thread is at its attempts; `MaxRuns = 2` collections, one per
  thread or one after the other.
* `Intake`: `RateWindow = ReplayWindow = 1` with times 0 to 2 gives three windows, the sweep of the one before last, and nonces that expire;
  three sends are a request and its repetition beside another one. Limits 2 and 1 are reached.

The system may stop (no more alerts, reviewers or runs), so only the queue runs check
deadlock: time always passes there.

### Fairness

`JobQueue!FairSpec`: a worker process polls for ever and a poll infinitely often meets no row locked by somebody
else (`WF` of `Claim(w, {})`), its handler ends by completing, failing or losing its lease (`WF` of `Finish`; the code's
time limits and bounded loops make a run finite), and time passes (`WF` of `Tick`). Renewals are not fair:
`OnTime` lets time pass only if no live owner's lease would run out, which is what `runtime_config.py:203-219`
enforces (twice the heartbeat interval is below the lease). A worker that misses this is a fault (`StalledTick`), as is
a crash, and a behaviour has finitely many faults.

`IncidentReview!FairSpec`: the job handler and every request handler that was started run to their ends (`WF` of
`Worker` and of `Handle(q)`). Nobody has to send an alert or to decide.

`Investigation!FairSpec`: a run goes on until it rests (`WF` of `Progress`), because a model call has a timeout and a number of tries, a tool
call goes through `request()` with the same, and nodes do not wait for each other. Alerts, reviews and the passing of time are not fair: `RunEnds`
holds without the deadline ever passing, by the rounds, the tool calls of a pass and the tries alone.

The other specifications have no fairness and check safety.

## 4. Proofs

The proofs hold for every value of the constants that the modules' named assumptions allow
(each module states them: `QueueAssumption`, `ReviewAssumption`, ...); TLC evaluates those on every run.
Every safety invariant and action property that a passing run checks is the subject of a theorem; the modules' type
invariants (`TypeOK`) are proved as well. `Init => Inv`, `Inv /\ [Next]_vars => Inv'` and what follows from `Inv` are separate
lemmas everywhere, with one step per action.

**JobQueueProofs.** `TypeCorrect` (`TypeOK`), `LocksAlwaysMatch` (`LockMatchesLease`), `LeasesExclusive`
(`LeaseExclusive`), `CapacityNeverExceeded` (`CapacityRespected`). `LockMatchesLease` is not inductive: a new job must
not appear under a lock that names its number, and the owner of a leased row must be some worker. The
inductive `LeaseInv` is `TypeOK`, `RowsLinked` (rows above the counters are absent, a lock names a job of its own incident, a
snapshot a row that exists) and `LockMatchesLease`. Exclusive leases follow: two leased jobs of one incident
would both be *the* job of its lock. Capacity is an induction of its own over the cardinality of the active set: every action
either leaves the set alone, removes from it, or adds one element under the guard that it is below the limit. A retry
moves a job from leased to pending, which is why counting both is necessary (the mutation that counts
pending jobs only breaks it).

The other properties of the queue look at rows and snapshots, not at leases. `StepKinds` says once what any step does to
them (nothing but time and workers that let go, a merge, an insertion, a claim, an end), and each proof is one case per kind:

* `SnapshotsCurrent` (`OwnerSnapshotCurrent`) is inductive beside `LeaseInv`, because a merge takes pending jobs only;
* `DeadLettersAreRecorded` (`DeadLettersRecorded`) rests on it: `fail_job` writes the snapshot's event, not the row's;
* `EventsAndJobsTogether` (`EventAndJobTogether`) needs the dead letters, which a replay turns into jobs, and that no event row is
  ahead of its counter (`EventsBehindCount`), so that an insertion overwrites none;
* `DebounceIsBounded` (`DebounceBounded`) and `OneFreshPending` (`FreshPendingUnique`) need `AttemptsCounted`: a leased job has at
  least one attempt, so a retry makes no job fresh;
* `NewestIsQueued` (`NewestAlertQueued`) is proved under `MaxIntakes = 1`, which the run has too (see "Bounds"): an open event is
  then newer than every stored one of its incident (`OpenIsNewest`), and a merge can only replace an older event (`Carried`);
* `OwnersFinish` (`OnlyOwnerFinishes`) is an action property under `LeaseInv`.

`TablesImplementTurns` (`TurnSpec`) maps every action to a step of `JobTurns` or a stutter under `LeaseInv`. A claim starts a turn because
an unexpired lease of another job of the incident would show in the lock row (`HeldIsLocked`). A renewal is a stutter or, on a lease
that ran out and that nobody took over, a new turn; there is none of another job because the lock row still names this one.

**IncidentReviewProofs.** `ReviewInvHolds`, and from it `ApprovedBeforePublished` (`PublishedWasApproved`), `OneReviewerWins` (`OneWinner`) and `OnlyReopeningUndoesResolved`
(`ResolvedUntilReopened`). That nothing is published unapproved needs to know where an approved draft can be: in a
checkpoint whose next step is `publishing`, stored or carried by a run (`ApprovedAt`), because a resume compares the digest of
the row the reviewer saw with the checkpoint's draft; and that what was seen is redacted (`ShownRedacted`), since publishing redacts
once more. `OneWinner` needs that a handler past its decision still has the stored decision of its version: decisions
are never overwritten.

`RecordsAgreeInFirstEvent` (`GatesAgree`) is about an incident's first event as long as no handler was lost, and says nothing of what comes after (see "Findings"). It follows the incident through that event: `Opening` (the worker), `AtAnalysis`, `Reviewing(q)` (request q carries
the decision out), then `AtAnalysis` again or `AtPublication`, then `Closed`. Each phase says where the lifecycle, the thread, the
pending row and every handler are; `GateInv` is that the incident is in one of them unless it was disturbed, and that `readers` holds
only handlers whose last read is the present status. In `Reviewing(q)` every other review of the revision is refused, because its
decision is not the one on record. The theorem assumes `OneServer`: one process serves the requests, so a handler that does not await its graph is
not interrupted (`scripts/start_api.py:22` starts uvicorn with no number of workers, and the handlers' database calls
block). Without it the property fails (see `ReviewRace` under "Bounds"). TLC checked `GateInv` on the constants of `ReviewRace` before it was proved, and on three
requests with both publication answers and a draft that redaction changes. `NoneAssumption` says that the absent value is no status, place or answer.

**PublicationProofs.** `GuardKept` (`GuardInv`), `ReportsAreTrue` (`ReportedIsDelivered`) and `NodeImplementsGuard` (`GuardSpec`): the initial state
maps to the guard's, and each action to a guard action or a stutter. A delivery is within `Limit` because
a destination that is still to be sent to has got no more than the tries its run counted (`CountsTries`), and the
row has one owner (`OwnsRow`).

**RevisionStoreProofs.** `TypeCorrect`, `AllocationsAreFree`, `RevisionsFormAChain`, `SnapshotsFollowTheChain`, `SnapshotsAreExact`,
`DiffsAreTrue`, `ApprovalsKeepTheirEvidence`, `StoredStays`. A free allocation needs the lock: a worker past `LockHead` is alone at its incident's head, and
what it read there is at least the last number used. The chain follows because a number is one more than the last and legacy revisions are consecutive.
Differences are true only because a record never holds a content twice (the second unique key): equal links are then equal contents.

**InvestigationProofs.** `TypeCorrect`, `AllowanceHolds`, `ModelBudgetHolds`, `StoppedStays`. The units sent are not the units used: a pass that fails forgets what it
spent. The invariant bounds what is sent by what the checkpoint knows plus what the pass at work has spent, and says that a failed pass has ended the loop's
chances (its round is completed with nothing fresh). The model budget is an invariant between three numbers: the bill is at most what was charged, what was charged is within the
budget before each call, and a failed call is charged all it reserved. It rests on `Answered`, where no call costs more than its reservation.

**InterpretationProofs.** `TypeCorrect`, `ReviewsGrounded` (`HypothesesGrounded`), `ReviewsUncontested` (`ShownIsUncontested`), `ExplanationsChosen` (`ExplainedIsChosen`), for any pictures, links
and answers. One lemma says that what passes the grounding is grounded (`KeptIsGrounded`: roles hold known events only, and a link with two known ends joins two events). The inductive
`ReviewSound` adds that the assessment is that of the *present* picture from the correlation on; it fails if `Integrate` does not score again, which is the mutation of `ShownIsUncontested`. That property is about the reasons
the code abstains for, and no further: a source that failed in another way than with status "failed", and contradicting events, do not keep a hypothesis from being shown (see "Findings").

**CollectionProofs.** `TypeCorrect`, `GapsAreShown` (`GapsShown`), `OutageLimited` (`OutageNotHammered`), `SamplesCover` (`SampleCovers`). Gaps: a collection's `total` is the number of lines at its count, and all it sampled was there
at the count or has come since, so a sample of `total` lines of an unchanged window is the window; cardinalities of finite sets do the rest. Outages: while a circuit is
open, a thread on its way to send has sent less than its try.

`SamplesCover` holds for any window and limit. Its invariant `SampleInv` says of every request of the plan that was served that the
sample has what it promised (`Met`), and that the sample is no larger than the quotas asked so far (`Asked`): a closed form
(`Prior`), so that no induction over the plan is needed, and at the end exactly the limit, so the final cut takes nothing away.
A request that the plan skips has a quota of zero; the next one is the least one ahead (`Onward`), and what lies between is not
ahead, hence promised nothing. A query that is not made because the count was zero promised nothing either: no line was there
before the count.

**IntakeProofs.** `TypeCorrect`, `IdsUnique`, `StoredUnderItsId`, `AdmissionHolds`. Ids: only the holder of the sequence's lock is between its read and its insert, and its
number is the sequence's. Admission: a row counts what its window has let through as long as it is not swept, and no process whose clock is in a swept window
is still to count (`ShortWaits`). Nonces: a row outlives the window of its first use, so a second acceptance
of a request that was not stamped ahead of the clock is stored only when its own timestamp's window is over.

**Only model-checked:** liveness (`JobsFinish`, `JobEnds`, `RunEnds`), which needs `ENABLED` and fairness, out of the prover's reach. Not proved for
every value of the constants: `NewestAlertQueued` with several intakes and `GatesAgree` with several API processes, where they are false (see "Bounds").

## 5. Findings

Backed by runs. `ReviewStaleDecision`: **a decision about one analysis approves a newer one.** The review endpoint checks the version of the pending row, records the decision,
moves the lifecycle, and only then resumes the thread; `Command(resume=...)` (`api.py:1753`) names no analysis and is taken by whatever gate the thread is at. The trace: analysis 1 is
pending and a second alert is queued; a reviewer approves analysis 1, its decision is recorded and the lifecycle goes to `drafting_postmortem`; a worker starts the second job, for
which that status has no branch (`job_handler.py:28-39`), so it invokes the graph at once, and the run stops at `human_review` with analysis 2 before the pending row is written again;
the resume starts the draft of analysis 2. `OPENAPI_CONTRACT.md:50-52`: "A stale decision receives `409` instead of applying to a newer analysis or draft."

`InterpretationApproval`: **an analysis that abstained can be approved.** The pending row keeps the candidates of an assessment that abstains, and of an analysis no
hypothesis of which was grounded; the endpoint permits every rank among them (`api.py:514-520`), and `can_approve` is only asked when the status and the page are made (`api.py:981`, 1162).
`PROJECT_MASTER_CHECKLIST.md:51-52` says that the gate is shared by API and HTML and that an abstention cannot be approved. The trace: a model's answer breaks its contract, the review shows
an abstention, and an approval of rank 1 goes on to the root-cause report.

Met while modelling, without a run of their own. In the queue, the review and the publication:

* A publication decision can approve a newer analysis, and nobody need be at work beside it: an alert after the draft restarts the thread and does not clear the draft, which `state_sync.py:141` takes for the stage, so the pending row offers a publication while the thread waits at `human_review`, and that gate takes the resume of `api.py:1878`.
* `complete_job` and `fail_job` look at the job row, not at the incident lock (`incident_store.py:1559`): after a stall, two workers can both commit results of one incident; `incident_store.py:1508` promises at most one active owner.
* The decision is committed before the transition and the graph run (`api.py:1714`); a request that fails in between leaves a revision that answers "already being processed" (`api.py:1723`) for ever.
* The digest of the stored, redacted draft (`registry.py:66`, `api.py:1850`) is compared with that of the unredacted draft (`publish_review.py:24`): a draft that redaction changes cannot be approved.
* The request loop repeats a POST after a timeout (`resilience.py:103`), below the guard that README.md:334 describes as at most once.
* `fail_job` makes a job pending again while its follow-up is pending, so a bucket can have two pending jobs (`incident_store.py:1617-1622`; README.md:344 speaks of one).
* A job that takes its worker down at each attempt is claimed without end: only `fail_job` compares the count with the limit (`incident_store.py:1485`; ARCHITECTURE.md:50). `JobsFinish` holds because faults are finite.
* `enqueue_reprocessing` takes the newest event row, which may be an audit event (`incident_store.py:1680`, its docstring at 1674).
* A worker lost between the three first transitions leaves a status for which the next attempt has no branch: the analysis runs, its last transition is refused and the job becomes a dead letter (`job_handler.py:21-27`; README.md:458).
* A firing event in `drafting_postmortem`, `awaiting_publish_review` or `completed` has no branch either (`job_handler.py:28-39`; ALERT_INPUT_CONTRACT.md:91).
* The pending version restarts at 1 after the row was deleted (`registry.py:59-60`, 92-105; ALERT_INPUT_CONTRACT.md:92-93), so a handler that remembers version 1 can pass the check against another row (`registry.py:50`, 61), and a later approval with the same key is dropped from the audit events (`api.py:1853-1855`; README.md:333).

In revisions and evidence:

* After a rejection, or a request for more evidence, the new analysis is put up with no revision and no snapshot, and its approval is validated against nothing (`api.py:1756`; MEMORY_AND_REVIEW_CONTRACT.md:21-22). `AnalyzeAgain`, `Approve`.
* Evidence that returns to an earlier content meets the unique key of its content (`incident_store.py:939`; EVIDENCE_CONTRACT.md:50-51) and the job fails. `Collides`.
* A job that is run again shows its new state beside the snapshot stored first (`state_sync.py:32`). `ReadBack`, `AddPending`.
* A resolution takes a revision that never gets an analysis, so the next difference has no base and shows everything as added.

In the investigation:

* `analysis_deadline` is never renewed (`model_usage.py:64-67`, `plan_collection.py:33`): after a long review the fresh allowance gets no tool calls and the analysis no model.
* A new alert on a thread keeps the stopped loop of the last one; `interpret_incident` offers tools that are refused because the loop has stopped by then; a cached error is not tried again.

In the interpretation:

* `_merge_same_event_candidates` keeps the roles of the first of two candidates (`candidate_scoring.py:353-371`): a signal that shares its events with a detection rule loses its impact and its contradicting events. `Merged`.
* A candidate of the traffic has no events (`candidate_scoring.py:306`), so no hypothesis about it passes the grounding, while its rank can be approved. `Kept`, `Approve`.
* A link from an event to itself counts as two references in `_claim` (`interpretation_contract.py:207-214`) and not in `_candidate_evidence_roles` (129): beside another link, a mechanism that cites one event is accepted. `MechanismGrounded`.
* Confidence is capped for a failed source (`interpretation_contract.py:516`), but a failed source makes the assessment abstain (`candidate_scoring.py:471`), so the cap is never reached.

* Only sources with status "failed" make the assessment abstain (`incident_features.py:93-97`, `candidate_scoring.py:471`). Sources that are `forbidden`, `rate_limited` or `invalid_query` (`resilience.py:38-42`), `partial` or `stale` (`connector_result.py:24-33`) do not, and a hypothesis is shown beside them. HYPOTHESIS_CONTRACT.md:66 ("required evidence is missing, stale or malformed") and OPERATING_CONTRACT.md:43, 55-56 promise an abstention. `Collect`, `Assess`.
* Contradicting evidence does not make it abstain either: a later start or success of the failed job is listed with its candidate (`Contradicting`), and error logs against an error rate of zero only add a weakness (`candidate_scoring.py:375-392`). HYPOTHESIS_CONTRACT.md:13-14, 68 and OPERATING_CONTRACT.md:43, 58 promise an abstention. In `Interpretation` the picture of a failure with a later start scores 60 against 42 and its hypothesis is shown.

In collection:

* A count that fails beside requests that succeed below the limit gives status "empty" for logs that are there (`gather_logs.py:246`; CONNECTOR_CONTRACT.md: an error "cannot silently become an empty result").
* The last request asks for the latest lines, which it may have: a window with fewer lines than the limit can be sampled incompletely. With the count known this is reported.
* The lines are counted before they are sampled, so late lines can make up the number of lines that were missed.
* A late success closes a circuit that has just opened; failures stay counted when the open time ends, so one more opens it again.
* A metric query without samples counts as returned: metrics are never "empty".

In intake:

* A nonce can be used twice while its timestamp is valid. Its row expires one window after its *first use* (`replay.py:65-70`), the timestamp is accepted up to one window after its *stamp* (line 58): with a window of one, the run's request stamped 1 is taken when the clock is 0 and again at 2. A request stamped in time can be taken twice as well, if the handler of its repetition compares the timestamp before the window ends and inserts after another request's later clock has swept the row. ALERT_INPUT_CONTRACT.md:56-58 says that the fingerprint is stored "until the window expires, so multiple API workers reject the same captured request consistently", TEST_STRATEGY.md:127 "Only the first valid in-window request succeeds". `AdmissionBounded` is what remains: a nonce first taken at or after its stamp is stored again only when that stamp's window is over.
* A caller that got 503 with Retry-After is told to "retry the original signed request" (OPERATOR_RUNBOOKS.md:71), but its nonce was used before the queue was asked (`api.py:1417-1426`): within the replay window the retry is answered 401.
* Another tenant's alert in the middle of a batch is answered 403 after the alerts before it were stored.
* A caller over its own limit uses up places of the global one.
* Two first requests of a window both insert its row, and one fails with 500 (`rate_limit.py:57-74`).
* An incident id that comes with an alert is taken as it is and may be that of another bucket.

## 6. Not modelled

* InnoDB deadlocks and lock-wait timeouts: the code repeats the whole transaction (errors 1205, 1213), so a model of committed transactions does not see them.
* Event times: admission never compares them; a delayed older alert replaces a newer one's payload, and no property here says otherwise.
* Worker liveness rows, metrics and logs: nothing reads them back.
* Contents: an analysis is its number, a draft a model value with its redaction, an alert its content and incident.
* Drafts (`record_postmortem_draft`, `incident_store.py` 1337): one insert per draft, keyed by its digest; the draft's way to a reviewer and back is in `IncidentReview`.
* The tables of the checkpoint store: which checkpoint ids, versions and write indexes are put is decided inside LangGraph, which is not in `src/`; a model of the statements alone would only repeat them. What the rest relies on (a thread resumes from its latest checkpoint) is in `IncidentReview` and `Investigation`.
* Acquire, release and discard of the connection pool: threads that wait for a connection have a timeout, and what a timeout leads to (a rolled-back transaction) is in every module.
* The CloudWatch and graphaha clients; `Collection` has the two time-series sources and the deployments.
* Normalisation, aggregation, the detection rules and the latency signal: what they make of logs is the picture of `Interpretation`. The evidence pack, reports and evaluation: sequential computations on one alert's data, which reach the rest only through a model's answer, a choice here.
* Wording: the text of claims, steps and reports; how an action's words are classified is its `class`.
* The components of `PROJECT.json` with status `not_modelled`, for the reason in their note.
