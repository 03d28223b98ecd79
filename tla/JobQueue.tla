------------------------------ MODULE JobQueue ------------------------------
(***************************************************************************)
(* The durable job queue of webhook/incident_store.py and the worker loop  *)
(* of webhook/worker.py that drives it.                                    *)
(*                                                                         *)
(* Each action is one MySQL transaction, taken at its commit (compose.yaml *)
(* runs MySQL at READ-COMMITTED and the transactions lock the rows they    *)
(* decide on).  The one transaction that waits for a lock in the middle,   *)
(* record_event_and_enqueue, is split there: the event row gets its id     *)
(* first, the admission lock of the incident is taken second.              *)
(*                                                                         *)
(* A DATETIME column is compared with the current time only, so it is kept *)
(* as its distance from now: `wait` is available_at - now (0: available),  *)
(* `age` is now - created_at, `lease` is leased_until - now, Expired when  *)
(* leased_until < now.  Tick moves all of them.                            *)
(***************************************************************************)
EXTENDS Integers, FiniteSets

CONSTANTS
    Incidents,        \* incident ids
    Alerts,           \* alert contents; the idempotency key is their digest
    AlertIncident,    \* the incident (bucket) an alert content belongs to
    Contexts,         \* run contexts a reprocessing request may carry
    Workers,          \* worker ids
    None,             \* SQL NULL
    MaxPending,       \* MAX_PENDING_JOBS
    MaxAttempts,      \* max_attempts of fail_job for a retryable failure
    LeaseSeconds,     \* JOB_LEASE_SECONDS
    RetryDelay,       \* retry_delay_seconds of fail_job
    Coalesce,         \* INCIDENT_COALESCE_SECONDS
    CoalesceMax,      \* INCIDENT_COALESCE_MAX_SECONDS
    ClaimBatch,       \* LIMIT of the claim query
    MaxJobs, MaxEvents, MaxIntakes, MaxFaults, MaxCount  \* bounds, see README

ASSUME QueueAssumption ==
    /\ AlertIncident \in [Alerts -> Incidents]
    /\ Contexts \cap Int = {}
    /\ None \notin Incidents \cup Alerts \cup Workers
    /\ MaxPending \in Nat /\ MaxAttempts \in Nat \ {0} /\ LeaseSeconds \in Nat
    /\ RetryDelay \in Nat /\ Coalesce \in Nat /\ CoalesceMax \in Nat
    /\ Coalesce <= CoalesceMax
    /\ ClaimBatch \in Nat \ {0}
    /\ MaxJobs \in Nat /\ MaxEvents \in Nat /\ MaxIntakes \in Nat
    /\ MaxFaults \in Nat /\ MaxCount \in Nat /\ MaxAttempts < MaxCount

VARIABLES
    events,        \* incident_events, by event_id
    eventCount,    \* its AUTO_INCREMENT
    jobs,          \* incident_jobs, by job_id
    jobCount,      \* its AUTO_INCREMENT
    incidentLock,  \* incident_job_locks
    deadLetters,   \* incident_dead_letters: event_id by job_id, 0 for no row
    working,       \* the job snapshot each worker process holds
    faults         \* environment faults still allowed

vars == <<events, eventCount, jobs, jobCount, incidentLock, deadLetters,
          working, faults>>

-----------------------------------------------------------------------------
Expired == -1
JobIds == 1..MaxJobs
EventIds == 1..MaxEvents

(* "open" is a row of a transaction that has not committed yet.            *)
EventRow == [state: {"absent", "open", "stored", "rolled_back"},
             incident: Incidents \cup {None}, alert: Alerts \cup {None}]

JobRow == [status: {"absent", "pending", "leased", "completed", "dead_letter"},
           kind: {"analyze", "reprocess"},
           incident: Incidents \cup {None},
           event: EventIds \cup {0},
           salt: JobIds \cup Contexts \cup {0},
           attempts: 0..MaxCount,
           wait: Nat, age: 0..CoalesceMax, lease: Nat \cup {Expired},
           worker: Workers \cup {None}]

LockRow == [job: JobIds \cup {0}, worker: Workers \cup {None},
            lease: Nat \cup {Expired}]

Snapshot == [job: JobIds, event: EventIds \cup {0}, attempt: 0..MaxCount]

AbsentEvent == [state |-> "absent", incident |-> None, alert |-> None]
AbsentJob == [status |-> "absent", kind |-> "analyze", incident |-> None,
              event |-> 0, salt |-> 0, attempts |-> 0, wait |-> 0, age |-> 0,
              lease |-> Expired, worker |-> None]
Unowned == [job |-> 0, worker |-> None, lease |-> Expired]
Idle == [job |-> 0, event |-> 0, attempt |-> 0]

Lesser(a, b) == IF a < b THEN a ELSE b
CountUp(n, cap) == IF n < cap THEN n + 1 ELSE n

(* Time left, after one more second.  (A definition named after the next   *)
(* one with a suffix is a mutated form of it: README, "Mutations".)        *)
Sooner(t) == IF t > 0 THEN t - 1 ELSE t
Shorter(lease) == IF lease >= 0 THEN lease - 1 ELSE Expired
-----------------------------------------------------------------------------
(* Queue depth and admission.                                              *)
Active(j) == jobs[j].status \in {"pending", "leased"}
Depth == Cardinality({j \in JobIds : Active(j)})
DepthOfPending == Cardinality({j \in JobIds : jobs[j].status = "pending"})

HasCapacity_CountsPendingOnly == DepthOfPending < MaxPending
HasCapacity == Depth < MaxPending

PendingAnalyses(i) ==
    {j \in JobIds : /\ jobs[j].incident = i
                    /\ jobs[j].kind = "analyze"
                    /\ jobs[j].status = "pending"}
ActiveAnalyses(i) ==
    {j \in JobIds : jobs[j].incident = i /\ jobs[j].kind = "analyze" /\ Active(j)}

(* The SELECT ... ORDER BY job_id LIMIT 1 of the coalescing decision.      *)
Mergeable_IncludingLeased(i) ==
    {j \in ActiveAnalyses(i) : \A k \in ActiveAnalyses(i) : j <= k}
Mergeable_Never(i) == {}
Mergeable(i) == {j \in PendingAnalyses(i) : \A k \in PendingAnalyses(i) : j <= k}

(* min(sliding deadline, hard deadline), as a distance from now.           *)
DebounceLeft_SlidingOnly(age) == Coalesce
DebounceLeft(age) == Lesser(Coalesce, CoalesceMax - age)

(* The UPDATE of a merge: attempt_count stays as it is.                    *)
Merged_KeepingEvent(job, e) == [job EXCEPT !.wait = DebounceLeft(job.age)]
Merged(job, e) == [job EXCEPT !.event = e, !.wait = DebounceLeft(job.age)]

NewJob(kind, i, e, salt, wait) ==
    [status |-> "pending", kind |-> kind, incident |-> i, event |-> e,
     salt |-> salt, attempts |-> 0, wait |-> wait, age |-> 0,
     lease |-> Expired, worker |-> None]

Insert(job) ==
    /\ jobCount < MaxJobs
    /\ jobCount' = jobCount + 1
    /\ jobs' = [jobs EXCEPT ![jobCount + 1] = job]

OpenIntakes == {e \in EventIds : events[e].state = "open"}

(* record_event_and_enqueue, up to the event INSERT.  A second delivery of *)
(* a stored content returns without a write; one of an open content waits. *)
InsertEvent(a) ==
    /\ eventCount < MaxEvents
    /\ Cardinality(OpenIntakes) < MaxIntakes
    /\ \A e \in EventIds : events[e].alert = a => events[e].state = "rolled_back"
    /\ eventCount' = eventCount + 1
    /\ events' = [events EXCEPT ![eventCount + 1] =
                    [state |-> "open", incident |-> AlertIncident[a], alert |-> a]]
    /\ UNCHANGED <<jobs, jobCount, incidentLock, deadLetters, working, faults>>

(* The rest of it, under the admission lock: merge into the pending job,   *)
(* ... *)
CoalesceAlert(e) ==
    /\ events[e].state = "open"
    /\ \E j \in Mergeable(events[e].incident) :
          jobs' = [jobs EXCEPT ![j] = Merged(jobs[j], e)]
    /\ events' = [events EXCEPT ![e].state = "stored"]
    /\ UNCHANGED <<eventCount, jobCount, incidentLock, deadLetters, working, faults>>

(* ... or insert a job when the queue has room, ...                        *)
EnqueueAlert(e) ==
    /\ events[e].state = "open"
    /\ Mergeable(events[e].incident) = {}
    /\ HasCapacity
    /\ Insert(NewJob("analyze", events[e].incident, e, 0, Coalesce))
    /\ events' = [events EXCEPT ![e].state = "stored"]
    /\ UNCHANGED <<eventCount, incidentLock, deadLetters, working, faults>>

(* ... or roll the event back with QueueCapacityError.                     *)
RejectedState_KeptEvent == "stored"
RejectedState == "rolled_back"

RejectAlert(e) ==
    /\ events[e].state = "open"
    /\ Mergeable(events[e].incident) = {}
    /\ ~HasCapacity
    /\ events' = [events EXCEPT ![e].state = RejectedState]
    /\ UNCHANGED <<eventCount, jobs, jobCount, incidentLock, deadLetters, working, faults>>

(* The API process dies or loses MySQL before the commit.                  *)
AbortIntake(e) ==
    /\ events[e].state = "open"
    /\ events' = [events EXCEPT ![e].state = "rolled_back"]
    /\ UNCHANGED <<eventCount, jobs, jobCount, incidentLock, deadLetters, working, faults>>

(* append_event: the review and publication handlers of api.py store an    *)
(* audit event of their own in the same table, with no job.                *)
AppendEvent(i) ==
    /\ eventCount < MaxEvents
    /\ eventCount' = eventCount + 1
    /\ events' = [events EXCEPT ![eventCount + 1] =
                    [state |-> "stored", incident |-> i, alert |-> None]]
    /\ UNCHANGED <<jobs, jobCount, incidentLock, deadLetters, working, faults>>

-----------------------------------------------------------------------------
(* Operator requests.  The job key is (kind, event_id, salt); an existing  *)
(* key leaves every column but updated_at as it is.                        *)
ReprocessJob(e, salt) ==
    \E j \in JobIds : /\ jobs[j].status # "absent" /\ jobs[j].kind = "reprocess"
                      /\ jobs[j].event = e /\ jobs[j].salt = salt

ReplayDeadLetter(j) ==
    LET e == deadLetters[j] IN
    /\ e # 0
    /\ ~ReprocessJob(e, j)
    /\ HasCapacity
    /\ Insert(NewJob("reprocess", jobs[j].incident, e, j, 0))
    /\ UNCHANGED <<events, eventCount, incidentLock, deadLetters, working, faults>>

StoredEvents(i) ==
    {e \in EventIds : events[e].state = "stored" /\ events[e].incident = i}

EnqueueReprocessing(i, c) ==
    /\ HasCapacity
    /\ \E e \in StoredEvents(i) :
          /\ \A f \in StoredEvents(i) : f <= e
          /\ ~ReprocessJob(e, c)
          /\ Insert(NewJob("reprocess", i, e, c, 0))
    /\ UNCHANGED <<events, eventCount, incidentLock, deadLetters, working, faults>>

-----------------------------------------------------------------------------
(* Leases.                                                                 *)
Candidates_PendingOnly ==
    {j \in JobIds : jobs[j].status = "pending" /\ jobs[j].wait = 0}
Candidates ==
    {j \in JobIds : \/ jobs[j].status = "pending" /\ jobs[j].wait = 0
                    \/ jobs[j].status = "leased" /\ jobs[j].lease = Expired}

FirstBatch(S) == {j \in S : Cardinality({k \in S : k < j}) < ClaimBatch}

IncidentFree_Unchecked(i) == TRUE
IncidentFree(i) == incidentLock[i].lease = Expired

Claimable(skip) ==
    {j \in FirstBatch(Candidates \ skip) : IncidentFree(jobs[j].incident)}

(* claim_next_job: `skip` is what SKIP LOCKED leaves out, the rows some    *)
(* other transaction holds at that moment.                                 *)
Claim(w, skip) ==
    /\ working[w] = Idle
    /\ \E j \in Claimable(skip) :
          LET attempt == CountUp(jobs[j].attempts, MaxCount) IN
          /\ \A k \in Claimable(skip) : j <= k
          /\ jobs' = [jobs EXCEPT ![j] =
                [@ EXCEPT !.status = "leased", !.attempts = attempt,
                          !.worker = w, !.lease = LeaseSeconds]]
          /\ incidentLock' = [incidentLock EXCEPT ![jobs[j].incident] =
                [job |-> j, worker |-> w, lease |-> LeaseSeconds]]
          /\ working' = [working EXCEPT ![w] =
                [job |-> j, event |-> jobs[j].event, attempt |-> attempt]]
    /\ UNCHANGED <<events, eventCount, jobCount, deadLetters, faults>>

Busy(w) == working[w] # Idle
OwnsJob_AnyWorker(w) == Busy(w) /\ jobs[working[w].job].status = "leased"
OwnsJob(w) ==
    /\ Busy(w)
    /\ jobs[working[w].job].status = "leased"
    /\ jobs[working[w].job].worker = w
LockedBy(j, w, i) == incidentLock[i].job = j /\ incidentLock[i].worker = w
OwnsLock(w) == LockedBy(working[w].job, w, jobs[working[w].job].incident)

(* renew_job_lease by the heartbeat task.                                  *)
Renewable_JobOnly(w) == OwnsJob(w)
Renewable(w) == OwnsJob(w) /\ OwnsLock(w)

Renew(w) ==
    LET j == working[w].job IN
    /\ Renewable(w)
    /\ jobs' = [jobs EXCEPT ![j].lease = LeaseSeconds]
    /\ incidentLock' = [incidentLock EXCEPT ![jobs[j].incident].lease = LeaseSeconds]
    /\ UNCHANGED <<events, eventCount, jobCount, deadLetters, working, faults>>

(* DELETE FROM incident_job_locks WHERE job_id = j AND worker_id = w       *)
Unlocked_Kept(j, w) == incidentLock
Unlocked(j, w) ==
    [i \in Incidents |-> IF LockedBy(j, w, i) THEN Unowned ELSE incidentLock[i]]

Release(w) == working' = [working EXCEPT ![w] = Idle]

(* complete_job after the handler returned.                                *)
Complete(w) ==
    LET j == working[w].job IN
    /\ OwnsJob(w)
    /\ jobs' = [jobs EXCEPT ![j].status = "completed", ![j].lease = Expired]
    /\ incidentLock' = Unlocked(j, w)
    /\ Release(w)
    /\ UNCHANGED <<events, eventCount, jobCount, deadLetters, faults>>

(* fail_job after the handler raised: `limit` is max_attempts, 1 when the  *)
(* error is not retryable.  Both counts come from the worker's snapshot.   *)
Retry(w, limit) ==
    LET j == working[w].job IN
    /\ OwnsJob(w)
    /\ working[w].attempt < limit
    /\ jobs' = [jobs EXCEPT ![j] =
          [@ EXCEPT !.status = "pending", !.worker = None,
                    !.lease = Expired, !.wait = RetryDelay]]
    /\ incidentLock' = Unlocked(j, w)
    /\ Release(w)
    /\ UNCHANGED <<events, eventCount, jobCount, deadLetters, faults>>

DeadLettered_Unrecorded(snapshot) == deadLetters
DeadLettered(snapshot) == [deadLetters EXCEPT ![snapshot.job] = snapshot.event]

DeadLetter(w, limit) ==
    LET j == working[w].job IN
    /\ OwnsJob(w)
    /\ working[w].attempt >= limit
    /\ jobs' = [jobs EXCEPT ![j].status = "dead_letter", ![j].lease = Expired]
    /\ deadLetters' = DeadLettered(working[w])
    /\ incidentLock' = Unlocked(j, w)
    /\ Release(w)
    /\ UNCHANGED <<events, eventCount, jobCount, faults>>

(* A renewal, completion or failure is refused: the worker cancels the     *)
(* handler and polls again; no row changes.                                *)
LeaseLost(w) ==
    /\ Busy(w)
    /\ ~(OwnsJob(w) /\ OwnsLock(w))
    /\ Release(w)
    /\ UNCHANGED <<events, eventCount, jobs, jobCount, incidentLock, deadLetters, faults>>

(* The worker process dies and is restarted, or its heartbeat fails on a   *)
(* MySQL error: the row stays leased with nobody working on it.            *)
Abandon(w) ==
    /\ Busy(w)
    /\ faults > 0
    /\ faults' = faults - 1
    /\ Release(w)
    /\ UNCHANGED <<events, eventCount, jobs, jobCount, incidentLock, deadLetters>>

-----------------------------------------------------------------------------
(* Time.  A worker's heartbeat interval is less than half its lease        *)
(* (runtime_config.py), so a lease outlives a second without a renewal     *)
(* unless its owner is stalled, which counts as a fault.                   *)
OnTime == \A w \in Workers :
             OwnsJob(w) /\ OwnsLock(w) => jobs[working[w].job].lease > 0

SecondPasses ==
    /\ jobs' = [j \in JobIds |->
          [jobs[j] EXCEPT !.wait = Sooner(@), !.age = CountUp(@, CoalesceMax),
                          !.lease = Shorter(@)]]
    /\ incidentLock' = [i \in Incidents |->
          [incidentLock[i] EXCEPT !.lease = Shorter(@)]]
    /\ UNCHANGED <<events, eventCount, jobCount, deadLetters, working>>

Tick == OnTime /\ SecondPasses /\ UNCHANGED faults

StalledTick == ~OnTime /\ SecondPasses /\ faults > 0 /\ faults' = faults - 1

-----------------------------------------------------------------------------
Init ==
    /\ events = [e \in EventIds |-> AbsentEvent]
    /\ eventCount = 0
    /\ jobs = [j \in JobIds |-> AbsentJob]
    /\ jobCount = 0
    /\ incidentLock = [i \in Incidents |-> Unowned]
    /\ deadLetters = [j \in JobIds |-> 0]
    /\ working = [w \in Workers |-> Idle]
    /\ faults = MaxFaults

Intake ==
    \/ \E a \in Alerts : InsertEvent(a)
    \/ \E e \in EventIds : \/ CoalesceAlert(e) \/ EnqueueAlert(e)
                            \/ RejectAlert(e) \/ AbortIntake(e)
    \/ \E i \in Incidents : AppendEvent(i)

Operator ==
    \/ \E j \in JobIds : ReplayDeadLetter(j)
    \/ \E i \in Incidents, c \in Contexts : EnqueueReprocessing(i, c)

Finish(w) ==
    \/ Complete(w)
    \/ \E limit \in {1, MaxAttempts} : Retry(w, limit) \/ DeadLetter(w, limit)
    \/ LeaseLost(w)

Worker(w) ==
    \/ \E skip \in SUBSET JobIds : Claim(w, skip)
    \/ Renew(w)
    \/ Finish(w)
    \/ Abandon(w)

Next == Intake \/ Operator \/ (\E w \in Workers : Worker(w)) \/ Tick \/ StalledTick

Spec == Init /\ [][Next]_vars

(* A worker polls forever, a handler ends, time passes, and a poll meets   *)
(* no row locked by another transaction often enough.                      *)
FairSpec ==
    /\ Spec
    /\ \A w \in Workers : WF_vars(Claim(w, {})) /\ WF_vars(Finish(w))
    /\ WF_vars(Tick)

-----------------------------------------------------------------------------
(* Properties.                                                             *)

(* Every row has the columns and the ranges the schema gives it, and the   *)
(* AUTO_INCREMENT counters are ahead of every row.                         *)
TypeOK ==
    /\ events \in [EventIds -> EventRow]
    /\ eventCount \in 0..MaxEvents
    /\ jobs \in [JobIds -> JobRow]
    /\ jobCount \in 0..MaxJobs
    /\ incidentLock \in [Incidents -> LockRow]
    /\ deadLetters \in [JobIds -> EventIds \cup {0}]
    /\ working \in [Workers -> Snapshot \cup {Idle}]
    /\ faults \in 0..MaxFaults

(* Whatever route admits a job (an alert, a replay, a reprocessing request)*)
(* and however workers retry, MAX_PENDING_JOBS bounds the jobs that are    *)
(* pending or leased.                                                      *)
CapacityRespected == Depth <= MaxPending

(* A lease on a job and the lock of its incident are one claim: as long as *)
(* either has not run out the other says the same job, worker and expiry,  *)
(* so no finished or failed job keeps its incident blocked and no job runs *)
(* on a lease whose incident was given away.                               *)
LockMatchesLease ==
    /\ \A j \in JobIds :
          jobs[j].status = "leased" /\ jobs[j].lease # Expired =>
             incidentLock[jobs[j].incident] =
                [job |-> j, worker |-> jobs[j].worker, lease |-> jobs[j].lease]
    /\ \A i \in Incidents :
          incidentLock[i].lease # Expired =>
             /\ incidentLock[i].job \in JobIds
             /\ jobs[incidentLock[i].job].status = "leased"
             /\ jobs[incidentLock[i].job].incident = i
             /\ jobs[incidentLock[i].job].worker = incidentLock[i].worker
             /\ jobs[incidentLock[i].job].lease = incidentLock[i].lease

(* Two jobs of one incident never hold an unexpired lease together, through*)
(* retries, follow-ups, reclaims and skipped rows.                         *)
LeaseExclusive ==
    \A j, k \in JobIds :
       /\ jobs[j].status = "leased" /\ jobs[j].lease # Expired
       /\ jobs[k].status = "leased" /\ jobs[k].lease # Expired
       /\ jobs[j].incident = jobs[k].incident
       => j = k

(* A worker that can still commit its job works from what the row says:    *)
(* the event and the attempt it read at the claim are the row's current    *)
(* ones, although alerts keep merging into jobs meanwhile.                 *)
OwnerSnapshotCurrent ==
    \A w \in Workers : OwnsJob(w) =>
       /\ jobs[working[w].job].event = working[w].event
       /\ jobs[working[w].job].attempts = working[w].attempt

(* An alert burst leaves one analysis job nobody has started yet per       *)
(* incident, however many of its alerts are admitted at the same time.     *)
FreshPendingUnique ==
    \A i \in Incidents :
       \A j, k \in PendingAnalyses(i) :
          jobs[j].attempts = 0 /\ jobs[k].attempts = 0 => j = k

(* A job is a dead letter exactly when incident_dead_letters has its row,  *)
(* with the event it was last claimed for, so a replay runs that event.    *)
DeadLettersRecorded ==
    \A j \in JobIds :
       deadLetters[j] = IF jobs[j].status = "dead_letter" THEN jobs[j].event ELSE 0

(* The event and its job commit together: a stored alert has an analysis   *)
(* job of its incident, and no job runs an event that was rolled back or   *)
(* belongs to another incident.                                            *)
EventAndJobTogether ==
    /\ \A e \in EventIds :
          events[e].state = "stored" /\ events[e].alert # None =>
             \E j \in JobIds : /\ jobs[j].status # "absent"
                               /\ jobs[j].kind = "analyze"
                               /\ jobs[j].incident = events[e].incident
    /\ \A j \in JobIds : jobs[j].status # "absent" =>
          jobs[j].event \in StoredEvents(jobs[j].incident)

(* A stream of alerts cannot postpone the first attempt of an analysis     *)
(* beyond INCIDENT_COALESCE_MAX_SECONDS after the job was created.         *)
DebounceBounded ==
    \A j \in JobIds :
       jobs[j].status = "pending" /\ jobs[j].attempts = 0 =>
          jobs[j].wait + jobs[j].age <= CoalesceMax \/ jobs[j].wait = 0

(* With one request at a time in the intake (one API process), the newest  *)
(* stored alert of an incident, or a newer one, is what some analysis job  *)
(* carries: merging never drops the latest observation.                    *)
NewestAlertQueued ==
    \A e \in EventIds :
       events[e].state = "stored" /\ events[e].alert # None =>
          \E j \in JobIds : /\ jobs[j].kind = "analyze"
                            /\ jobs[j].incident = events[e].incident
                            /\ jobs[j].event >= e

(* Only the worker named in a leased row completes it, fails it or dead-   *)
(* letters it, and it lets go of the job in that very step.                *)
OnlyOwnerFinishes ==
    [][\A j \in JobIds :
          jobs[j].status = "leased" /\ jobs'[j].status # "leased" =>
             \E w \in Workers : /\ jobs[j].worker = w
                                /\ working[w].job = j
                                /\ working'[w] = Idle]_vars

(* The two tables together take turns: the lease of a job and the lock of  *)
(* its incident, two rows that expire, are renewed and are taken over      *)
(* separately, amount to one turn per incident.  A renewal of a lease that *)
(* ran out and that nobody took over yet is a turn of its own.             *)
Held(j) == jobs[j].status = "leased" /\ jobs[j].lease # Expired
Turns == INSTANCE JobTurns WITH
            Jobs <- JobIds, Capacity <- MaxPending,
            stage <- [j \in JobIds |-> jobs[j].status],
            incident <- [j \in JobIds |-> jobs[j].incident],
            holder <- [j \in JobIds |-> IF Held(j) THEN jobs[j].worker ELSE None]
TurnSpec == Turns!Spec

(* Every job that was ever queued ends completed or as a dead letter, after*)
(* any finite number of crashes, stalls and failed heartbeats: none stays  *)
(* pending or leased for ever.                                             *)
JobsFinish ==
    \A j \in JobIds :
       []<>(jobs[j].status \in {"absent", "completed", "dead_letter"})
=============================================================================
