--------------------------- MODULE JobQueueProofs ---------------------------
(* Theorems about JobQueue, for every value of its constants.              *)
EXTENDS JobQueue, FiniteSetTheorems, WellFoundedInduction, TLAPS

-----------------------------------------------------------------------------
(* Type correctness.                                                       *)

LEMMA TimersTyped ==
    ASSUME NEW t \in Nat, NEW n \in 0..CoalesceMax, NEW l \in Nat \cup {Expired}
    PROVE  /\ Sooner(t) \in Nat
           /\ CountUp(n, CoalesceMax) \in 0..CoalesceMax
           /\ Shorter(l) \in Nat \cup {Expired}
           /\ DebounceLeft(n) \in Nat
    BY QueueAssumption DEF Sooner, CountUp, Shorter, DebounceLeft, Lesser, Expired

(* A row read from jobs keeps its columns and takes the new values.        *)
LEMMA NewJobTyped ==
    ASSUME NEW kind \in {"analyze", "reprocess"}, NEW i \in Incidents \cup {None},
           NEW e \in EventIds \cup {0}, NEW salt \in JobIds \cup Contexts \cup {0},
           NEW wait \in Nat
    PROVE  NewJob(kind, i, e, salt, wait) \in JobRow
    BY QueueAssumption DEF NewJob, JobRow, Expired

LEMMA InsertTyped ==
    ASSUME TypeOK, NEW job \in JobRow, Insert(job)
    PROVE  jobs' \in [JobIds -> JobRow] /\ jobCount' \in 0..MaxJobs
    BY QueueAssumption DEF TypeOK, Insert, JobIds

LEMMA UnlockedTyped ==
    ASSUME TypeOK, NEW j, NEW w
    PROVE  Unlocked(j, w) \in [Incidents -> LockRow]
    BY DEF TypeOK, Unlocked, Unowned, LockRow, Expired

LEMMA ReleaseTyped ==
    ASSUME TypeOK, NEW w \in Workers, Release(w)
    PROVE  working' \in [Workers -> Snapshot \cup {Idle}]
    BY DEF TypeOK, Release

(* What a worker that owns its job holds is a job id.                      *)
LEMMA OwnerHoldsJob ==
    ASSUME TypeOK, NEW w \in Workers, OwnsJob(w)
    PROVE  /\ working[w] \in Snapshot
           /\ working[w].job \in JobIds
           /\ jobs[working[w].job] \in JobRow
           /\ jobs[working[w].job].status = "leased"
           /\ jobs[working[w].job].worker = w
    BY DEF TypeOK, OwnsJob, Busy, Snapshot

LEMMA InitTypeOK == Init => TypeOK
    BY QueueAssumption
    DEF Init, TypeOK, AbsentEvent, AbsentJob, Unowned, Idle, EventRow, JobRow,
        LockRow, Snapshot, Expired

LEMMA TypeOKStep == TypeOK /\ [Next]_vars => TypeOK'
<1> SUFFICES ASSUME TypeOK, [Next]_vars PROVE TypeOK'
    OBVIOUS
<1> USE QueueAssumption
<1>1. ASSUME NEW a \in Alerts, InsertEvent(a) PROVE TypeOK'
  <2>1. [state |-> "open", incident |-> AlertIncident[a], alert |-> a] \in EventRow
    BY DEF EventRow
  <2> QED BY <1>1, <2>1 DEF InsertEvent, TypeOK, EventIds
<1>2. ASSUME NEW e \in EventIds, CoalesceAlert(e) PROVE TypeOK'
  <2>1. events' \in [EventIds -> EventRow]
    BY <1>2 DEF CoalesceAlert, TypeOK, EventRow
  <2>2. PICK j \in Mergeable(events[e].incident) :
           jobs' = [jobs EXCEPT ![j] = Merged(jobs[j], e)]
    BY <1>2 DEF CoalesceAlert
  <2>3. j \in JobIds
    BY <2>2 DEF Mergeable, PendingAnalyses
  <2>4. jobs[j] \in JobRow /\ jobs[j].age \in 0..CoalesceMax
    BY <2>3 DEF TypeOK, JobRow
  <2>5. DebounceLeft(jobs[j].age) \in Nat
    BY <2>4, TimersTyped DEF Expired
  <2>6. Merged(jobs[j], e) \in JobRow
    BY <2>4, <2>5 DEF Merged, JobRow
  <2> QED BY <1>2, <2>1, <2>2, <2>3, <2>6 DEF CoalesceAlert, TypeOK
<1>3. ASSUME NEW e \in EventIds, EnqueueAlert(e) PROVE TypeOK'
  <2>1. events' \in [EventIds -> EventRow] /\ events[e].incident \in Incidents \cup {None}
    BY <1>3 DEF EnqueueAlert, TypeOK, EventRow
  <2>2. NewJob("analyze", events[e].incident, e, 0, Coalesce) \in JobRow
    BY <2>1, NewJobTyped
  <2>3. jobs' \in [JobIds -> JobRow] /\ jobCount' \in 0..MaxJobs
    BY <1>3, <2>2, InsertTyped DEF EnqueueAlert
  <2> QED BY <1>3, <2>1, <2>3 DEF EnqueueAlert, TypeOK
<1>4. ASSUME NEW e \in EventIds, RejectAlert(e) PROVE TypeOK'
    BY <1>4 DEF RejectAlert, RejectedState, TypeOK, EventRow
<1>5. ASSUME NEW e \in EventIds, AbortIntake(e) PROVE TypeOK'
    BY <1>5 DEF AbortIntake, TypeOK, EventRow
<1>6. ASSUME NEW i \in Incidents, AppendEvent(i) PROVE TypeOK'
  <2>1. [state |-> "stored", incident |-> i, alert |-> None] \in EventRow
    BY DEF EventRow
  <2> QED BY <1>6, <2>1 DEF AppendEvent, TypeOK, EventIds
<1>7. ASSUME NEW j \in JobIds, ReplayDeadLetter(j) PROVE TypeOK'
  <2>1. deadLetters[j] \in EventIds \cup {0} /\ jobs[j].incident \in Incidents \cup {None}
    BY DEF TypeOK, JobRow
  <2>2. NewJob("reprocess", jobs[j].incident, deadLetters[j], j, 0) \in JobRow
    BY <2>1, NewJobTyped
  <2>3. jobs' \in [JobIds -> JobRow] /\ jobCount' \in 0..MaxJobs
    BY <1>7, <2>2, InsertTyped DEF ReplayDeadLetter
  <2> QED BY <1>7, <2>3 DEF ReplayDeadLetter, TypeOK
<1>8. ASSUME NEW i \in Incidents, NEW c \in Contexts, EnqueueReprocessing(i, c)
      PROVE TypeOK'
  <2>1. PICK e \in StoredEvents(i) : Insert(NewJob("reprocess", i, e, c, 0))
    BY <1>8 DEF EnqueueReprocessing
  <2>2. NewJob("reprocess", i, e, c, 0) \in JobRow
    BY <2>1, NewJobTyped DEF StoredEvents
  <2>3. jobs' \in [JobIds -> JobRow] /\ jobCount' \in 0..MaxJobs
    BY <2>1, <2>2, InsertTyped
  <2> QED BY <1>8, <2>3 DEF EnqueueReprocessing, TypeOK
<1>9. ASSUME NEW w \in Workers, NEW skip \in SUBSET JobIds, Claim(w, skip)
      PROVE TypeOK'
  <2> DEFINE attempt(j) == CountUp(jobs[j].attempts, MaxCount)
  <2>1. PICK j \in Claimable(skip) :
          /\ jobs' = [jobs EXCEPT ![j] =
                [@ EXCEPT !.status = "leased", !.attempts = attempt(j),
                          !.worker = w, !.lease = LeaseSeconds]]
          /\ incidentLock' = [incidentLock EXCEPT ![jobs[j].incident] =
                [job |-> j, worker |-> w, lease |-> LeaseSeconds]]
          /\ working' = [working EXCEPT ![w] =
                [job |-> j, event |-> jobs[j].event, attempt |-> attempt(j)]]
    BY <1>9 DEF Claim
  <2>2. j \in JobIds /\ jobs[j] \in JobRow
    BY <2>1 DEF Claimable, FirstBatch, Candidates, TypeOK
  <2>3. attempt(j) \in 0..MaxCount
    BY <2>2 DEF CountUp, JobRow
  <2> HIDE DEF attempt
  <2>4. [jobs[j] EXCEPT !.status = "leased", !.attempts = attempt(j),
                        !.worker = w, !.lease = LeaseSeconds] \in JobRow
    BY <2>2, <2>3 DEF JobRow
  <2>5. jobs' \in [JobIds -> JobRow]
    BY <2>1, <2>2, <2>4 DEF TypeOK
  <2>6. incidentLock' \in [Incidents -> LockRow]
    BY <2>1, <2>2 DEF TypeOK, LockRow
  <2>7. working' \in [Workers -> Snapshot \cup {Idle}]
    BY <2>1, <2>2, <2>3 DEF TypeOK, Snapshot, JobRow
  <2> QED BY <1>9, <2>5, <2>6, <2>7 DEF Claim, TypeOK
<1>10. ASSUME NEW w \in Workers, Renew(w) PROVE TypeOK'
  <2>1. working[w].job \in JobIds /\ jobs[working[w].job] \in JobRow
    BY <1>10, OwnerHoldsJob DEF Renew, Renewable
  <2>2. jobs' \in [JobIds -> JobRow]
    BY <1>10, <2>1 DEF Renew, TypeOK, JobRow
  <2>3. incidentLock' \in [Incidents -> LockRow]
    BY <1>10 DEF Renew, TypeOK, LockRow
  <2> QED BY <1>10, <2>2, <2>3 DEF Renew, TypeOK
<1>11. ASSUME NEW w \in Workers, Complete(w) PROVE TypeOK'
  <2>1. working[w].job \in JobIds /\ jobs[working[w].job] \in JobRow
    BY <1>11, OwnerHoldsJob DEF Complete
  <2>2. jobs' \in [JobIds -> JobRow]
    BY <1>11, <2>1 DEF Complete, TypeOK, JobRow
  <2> QED BY <1>11, <2>2, UnlockedTyped, ReleaseTyped DEF Complete, TypeOK
<1>12. ASSUME NEW w \in Workers, NEW limit \in {1, MaxAttempts}, Retry(w, limit)
       PROVE TypeOK'
  <2>1. working[w].job \in JobIds /\ jobs[working[w].job] \in JobRow
    BY <1>12, OwnerHoldsJob DEF Retry
  <2>2. [jobs[working[w].job] EXCEPT !.status = "pending", !.worker = None,
                    !.lease = Expired, !.wait = RetryDelay] \in JobRow
    BY <2>1 DEF JobRow
  <2>3. jobs' \in [JobIds -> JobRow]
    BY <1>12, <2>1, <2>2 DEF Retry, TypeOK
  <2> QED BY <1>12, <2>3, UnlockedTyped, ReleaseTyped DEF Retry, TypeOK
<1>13. ASSUME NEW w \in Workers, NEW limit \in {1, MaxAttempts}, DeadLetter(w, limit)
       PROVE TypeOK'
  <2>1. /\ working[w].job \in JobIds /\ jobs[working[w].job] \in JobRow
        /\ working[w] \in Snapshot
    BY <1>13, OwnerHoldsJob DEF DeadLetter
  <2>2. jobs' \in [JobIds -> JobRow]
    BY <1>13, <2>1 DEF DeadLetter, TypeOK, JobRow
  <2>3. deadLetters' \in [JobIds -> EventIds \cup {0}]
    BY <1>13, <2>1 DEF DeadLetter, DeadLettered, TypeOK, Snapshot
  <2> QED BY <1>13, <2>2, <2>3, UnlockedTyped, ReleaseTyped DEF DeadLetter, TypeOK
<1>14. ASSUME NEW w \in Workers, LeaseLost(w) PROVE TypeOK'
    BY <1>14, ReleaseTyped DEF LeaseLost, TypeOK
<1>15. ASSUME NEW w \in Workers, Abandon(w) PROVE TypeOK'
    BY <1>15, ReleaseTyped DEF Abandon, TypeOK
<1>16. ASSUME SecondPasses, faults' \in 0..MaxFaults PROVE TypeOK'
  <2>1. ASSUME NEW j \in JobIds
        PROVE  [jobs[j] EXCEPT !.wait = Sooner(@), !.age = CountUp(@, CoalesceMax),
                               !.lease = Shorter(@)] \in JobRow
    <3>1. /\ jobs[j] \in JobRow
          /\ Sooner(jobs[j].wait) \in Nat
          /\ CountUp(jobs[j].age, CoalesceMax) \in 0..CoalesceMax
          /\ Shorter(jobs[j].lease) \in Nat \cup {Expired}
      BY TimersTyped DEF TypeOK, JobRow
    <3> QED BY <3>1 DEF JobRow
  <2>2. ASSUME NEW i \in Incidents
        PROVE  [incidentLock[i] EXCEPT !.lease = Shorter(@)] \in LockRow
    BY TimersTyped DEF TypeOK, LockRow, Shorter, Expired
  <2>3. jobs' \in [JobIds -> JobRow]
    BY <1>16, <2>1 DEF SecondPasses
  <2>4. incidentLock' \in [Incidents -> LockRow]
    BY <1>16, <2>2 DEF SecondPasses
  <2> QED BY <1>16, <2>3, <2>4 DEF SecondPasses, TypeOK
<1>17. CASE UNCHANGED vars
    BY <1>17 DEF vars, TypeOK
<1>18. CASE Intake
    BY <1>18, <1>1, <1>2, <1>3, <1>4, <1>5, <1>6 DEF Intake
<1>19. CASE Operator
    BY <1>19, <1>7, <1>8 DEF Operator
<1>20. ASSUME NEW w \in Workers, Worker(w) PROVE TypeOK'
  <2>1. CASE Finish(w)
    BY <2>1, <1>11, <1>12, <1>13, <1>14 DEF Finish
  <2> QED BY <1>20, <2>1, <1>9, <1>10, <1>15 DEF Worker
<1>21. CASE Tick \/ StalledTick
  <2>1. faults \in 0..MaxFaults
    BY DEF TypeOK
  <2> QED BY <1>16, <1>21, <2>1 DEF Tick, StalledTick
<1> QED BY <1>17, <1>18, <1>19, <1>20, <1>21 DEF Next

(* Every row keeps the columns and ranges of its table in every reachable  *)
(* state of incident_store.py, whatever the interleaving.                  *)
THEOREM TypeCorrect == Spec => []TypeOK
    BY InitTypeOK, TypeOKStep, PTL DEF Spec

-----------------------------------------------------------------------------
(* Rows refer to rows that exist: the part of the inductive invariant that *)
(* the lease argument needs besides the types.                             *)
RowsLinked ==
    /\ \A e \in EventIds : events[e].state # "absent" => events[e].incident \in Incidents
    /\ \A j \in JobIds : j > jobCount => jobs[j].status = "absent"
    /\ \A j \in JobIds : jobs[j].status # "absent" => jobs[j].incident \in Incidents
    /\ \A j \in JobIds : deadLetters[j] # 0 => jobs[j].status # "absent"

LeaseInv == TypeOK /\ RowsLinked /\ LockMatchesLease

(* What the claim of a job does, without the choice of the job.            *)
ClaimJob(w, j) ==
    /\ j \in JobIds
    /\ j \in Candidates
    /\ IncidentFree(jobs[j].incident)
    /\ jobs' = [jobs EXCEPT ![j] =
          [@ EXCEPT !.status = "leased", !.attempts = CountUp(jobs[j].attempts, MaxCount),
                    !.worker = w, !.lease = LeaseSeconds]]
    /\ incidentLock' = [incidentLock EXCEPT ![jobs[j].incident] =
          [job |-> j, worker |-> w, lease |-> LeaseSeconds]]

LEMMA ClaimTakesOne ==
    ASSUME TypeOK, NEW w \in Workers, NEW skip \in SUBSET JobIds, Claim(w, skip)
    PROVE  \E j \in JobIds : ClaimJob(w, j)
<1>1. PICK j \in Claimable(skip) :
          /\ jobs' = [jobs EXCEPT ![j] =
                [@ EXCEPT !.status = "leased", !.attempts = CountUp(jobs[j].attempts, MaxCount),
                          !.worker = w, !.lease = LeaseSeconds]]
          /\ incidentLock' = [incidentLock EXCEPT ![jobs[j].incident] =
                [job |-> j, worker |-> w, lease |-> LeaseSeconds]]
    BY DEF Claim
<1>2. j \in Candidates /\ j \in JobIds /\ IncidentFree(jobs[j].incident)
    BY <1>1 DEF Claimable, FirstBatch, Candidates
<1> QED BY <1>1, <1>2 DEF ClaimJob

(* What ends a lease, in complete_job and in both branches of fail_job.    *)
EndLease(w, j) ==
    /\ j \in JobIds
    /\ jobs[j].status = "leased" /\ jobs[j].worker = w
    /\ jobs'[j].status \in {"pending", "completed", "dead_letter"}
    /\ jobs'[j].incident = jobs[j].incident
    /\ \A k \in JobIds \ {j} : jobs'[k] = jobs[k]
    /\ incidentLock' = Unlocked(j, w)

LEMMA FinishEndsLease ==
    ASSUME TypeOK, NEW w \in Workers,
           \/ Complete(w)
           \/ \E limit \in {1, MaxAttempts} : Retry(w, limit) \/ DeadLetter(w, limit)
    PROVE  EndLease(w, working[w].job)
<1>1. OwnsJob(w)
    BY DEF Complete, Retry, DeadLetter
<1>2. /\ working[w].job \in JobIds /\ jobs[working[w].job] \in JobRow
      /\ jobs[working[w].job].status = "leased"
      /\ jobs[working[w].job].worker = w
    BY <1>1, OwnerHoldsJob
<1>3. CASE Complete(w)
    BY <1>2, <1>3 DEF Complete, EndLease, TypeOK, JobRow
<1>4. ASSUME NEW limit \in {1, MaxAttempts}, Retry(w, limit)
      PROVE  EndLease(w, working[w].job)
    BY <1>2, <1>4 DEF Retry, EndLease, TypeOK, JobRow
<1>5. ASSUME NEW limit \in {1, MaxAttempts}, DeadLetter(w, limit)
      PROVE  EndLease(w, working[w].job)
    BY <1>2, <1>5 DEF DeadLetter, EndLease, TypeOK, JobRow
<1> QED BY <1>3, <1>4, <1>5

(* A new job takes the first free row.                                     *)
LEMMA InsertAddsOne ==
    ASSUME TypeOK, RowsLinked, NEW job, Insert(job)
    PROVE  \E n \in JobIds : /\ n = jobCount' /\ n = jobCount + 1
                             /\ jobs[n].status = "absent"
                             /\ jobs'[n] = job
                             /\ \A k \in JobIds \ {n} : jobs'[k] = jobs[k]
    BY QueueAssumption DEF Insert, TypeOK, RowsLinked, JobIds

LEMMA InitLeaseInv == Init => LeaseInv
    BY InitTypeOK, QueueAssumption
    DEF Init, LeaseInv, RowsLinked, LockMatchesLease, AbsentEvent, AbsentJob,
        Unowned, Expired, JobIds, EventIds

(* Steps that leave the lease columns and the locks alone.                 *)
LeaseColumnsKept ==
    /\ incidentLock' = incidentLock
    /\ \A j \in JobIds : /\ jobs'[j].status = jobs[j].status
                          /\ jobs'[j].incident = jobs[j].incident
                          /\ jobs'[j].worker = jobs[j].worker
                          /\ jobs'[j].lease = jobs[j].lease

LEMMA KeptColumns ==
    ASSUME LeaseInv, LeaseColumnsKept
    PROVE  LockMatchesLease'
    BY DEF LeaseInv, LockMatchesLease, LeaseColumnsKept

LEMMA CoalesceKeepsColumns ==
    ASSUME TypeOK, NEW e \in EventIds, CoalesceAlert(e)
    PROVE  LeaseColumnsKept
<1>1. PICK j \in Mergeable(events[e].incident) :
         jobs' = [jobs EXCEPT ![j] = Merged(jobs[j], e)]
    BY DEF CoalesceAlert
<1>2. j \in JobIds /\ jobs[j] \in JobRow
    BY <1>1 DEF Mergeable, PendingAnalyses, TypeOK
<1>3. /\ Merged(jobs[j], e).status = jobs[j].status
      /\ Merged(jobs[j], e).incident = jobs[j].incident
      /\ Merged(jobs[j], e).worker = jobs[j].worker
      /\ Merged(jobs[j], e).lease = jobs[j].lease
    BY <1>2 DEF Merged, JobRow
<1>4. incidentLock' = incidentLock
    BY DEF CoalesceAlert
<1> QED BY <1>1, <1>2, <1>3, <1>4 DEF LeaseColumnsKept, TypeOK

LEMMA RowsLinkedStep == LeaseInv /\ [Next]_vars => RowsLinked'
<1> SUFFICES ASSUME TypeOK, RowsLinked, [Next]_vars PROVE RowsLinked'
    BY DEF LeaseInv
<1> USE QueueAssumption
<1>1. ASSUME NEW a \in Alerts, InsertEvent(a) PROVE RowsLinked'
  <2>1. \A e \in EventIds : events'[e].state # "absent" => events'[e].incident \in Incidents
    BY <1>1 DEF InsertEvent, RowsLinked, TypeOK, EventIds
  <2> QED BY <1>1, <2>1 DEF InsertEvent, RowsLinked
<1>2. ASSUME NEW e \in EventIds, CoalesceAlert(e) PROVE RowsLinked'
  <2>1. \A d \in EventIds : events'[d].state # "absent" => events'[d].incident \in Incidents
    BY <1>2 DEF CoalesceAlert, RowsLinked, TypeOK, EventRow
  <2> QED BY <1>2, <2>1, CoalesceKeepsColumns DEF CoalesceAlert, LeaseColumnsKept, RowsLinked
<1>3. ASSUME NEW e \in EventIds, EnqueueAlert(e) PROVE RowsLinked'
  <2>1. \A d \in EventIds : events'[d].state # "absent" => events'[d].incident \in Incidents
    BY <1>3 DEF EnqueueAlert, RowsLinked, TypeOK, EventRow
  <2>2. events[e].incident \in Incidents
    BY <1>3 DEF EnqueueAlert, RowsLinked
  <2>3. PICK n \in JobIds : /\ n = jobCount' /\ n = jobCount + 1
                           /\ jobs[n].status = "absent"
                           /\ jobs'[n] = NewJob("analyze", events[e].incident, e, 0, Coalesce)
                           /\ \A k \in JobIds \ {n} : jobs'[k] = jobs[k]
    BY <1>3, InsertAddsOne DEF EnqueueAlert
  <2>4. deadLetters' = deadLetters /\ jobCount \in Nat
    BY <1>3 DEF EnqueueAlert, TypeOK
  <2> QED BY <2>1, <2>2, <2>3, <2>4 DEF RowsLinked, NewJob, JobIds
<1>4. ASSUME NEW e \in EventIds, RejectAlert(e) \/ AbortIntake(e) PROVE RowsLinked'
  <2>1. \A d \in EventIds : events'[d].state # "absent" => events'[d].incident \in Incidents
    BY <1>4 DEF RejectAlert, AbortIntake, RowsLinked, TypeOK, EventRow
  <2> QED BY <1>4, <2>1 DEF RejectAlert, AbortIntake, RowsLinked
<1>5. ASSUME NEW i \in Incidents, AppendEvent(i) PROVE RowsLinked'
  <2>1. \A d \in EventIds : events'[d].state # "absent" => events'[d].incident \in Incidents
    BY <1>5 DEF AppendEvent, RowsLinked, TypeOK, EventIds
  <2> QED BY <1>5, <2>1 DEF AppendEvent, RowsLinked
<1>6. ASSUME NEW i \in Incidents, NEW e, NEW salt,
             Insert(NewJob("reprocess", i, e, salt, 0)),
             events' = events, deadLetters' = deadLetters
      PROVE  RowsLinked'
  <2>1. PICK n \in JobIds : /\ n = jobCount' /\ n = jobCount + 1
                           /\ jobs[n].status = "absent"
                           /\ jobs'[n] = NewJob("reprocess", i, e, salt, 0)
                           /\ \A k \in JobIds \ {n} : jobs'[k] = jobs[k]
    BY <1>6, InsertAddsOne
  <2>2. jobCount \in Nat
    BY DEF TypeOK
  <2> QED BY <1>6, <2>1, <2>2 DEF RowsLinked, NewJob, JobIds
<1>7. ASSUME NEW j \in JobIds, ReplayDeadLetter(j) PROVE RowsLinked'
    BY <1>6, <1>7 DEF ReplayDeadLetter, RowsLinked
<1>8. ASSUME NEW i \in Incidents, NEW c \in Contexts, EnqueueReprocessing(i, c)
      PROVE  RowsLinked'
    BY <1>6, <1>8 DEF EnqueueReprocessing
<1>9. ASSUME NEW w \in Workers, NEW skip \in SUBSET JobIds, Claim(w, skip)
      PROVE  RowsLinked'
  <2>1. PICK j \in JobIds : ClaimJob(w, j)
    BY <1>9, ClaimTakesOne
  <2>2. jobs[j].status # "absent" /\ jobs[j] \in JobRow
    BY <2>1 DEF ClaimJob, Candidates, TypeOK
  <2>3. jobs'[j].incident = jobs[j].incident /\ jobs'[j].status = "leased"
    BY <2>1, <2>2 DEF ClaimJob, JobRow, TypeOK
  <2>4. \A k \in JobIds \ {j} : jobs'[k] = jobs[k]
    BY <2>1 DEF ClaimJob, TypeOK
  <2>5. UNCHANGED <<events, jobCount, deadLetters>>
    BY <1>9 DEF Claim
  <2> QED BY <2>2, <2>3, <2>4, <2>5 DEF RowsLinked
<1>10. ASSUME NEW w \in Workers, Renew(w) PROVE RowsLinked'
  <2>1. working[w].job \in JobIds /\ jobs[working[w].job] \in JobRow
    BY <1>10, OwnerHoldsJob DEF Renew, Renewable
  <2>2. \A k \in JobIds : /\ jobs'[k].status = jobs[k].status
                          /\ jobs'[k].incident = jobs[k].incident
    BY <1>10, <2>1 DEF Renew, TypeOK, JobRow
  <2> QED BY <1>10, <2>2 DEF Renew, RowsLinked
<1>11. ASSUME NEW w \in Workers,
              \/ Complete(w)
              \/ \E limit \in {1, MaxAttempts} : Retry(w, limit) \/ DeadLetter(w, limit)
       PROVE  RowsLinked'
  <2>1. EndLease(w, working[w].job)
    BY <1>11, FinishEndsLease
  <2>2. /\ events' = events /\ jobCount' = jobCount
        /\ \A k \in JobIds \ {working[w].job} : deadLetters'[k] = deadLetters[k]
    BY <1>11, <2>1 DEF Complete, Retry, DeadLetter, DeadLettered, TypeOK, EndLease
  <2> QED BY <2>1, <2>2 DEF EndLease, RowsLinked
<1>12. ASSUME NEW w \in Workers, LeaseLost(w) \/ Abandon(w) PROVE RowsLinked'
    BY <1>12 DEF LeaseLost, Abandon, RowsLinked
<1>13. ASSUME SecondPasses PROVE RowsLinked'
  <2>1. \A k \in JobIds : /\ jobs'[k].status = jobs[k].status
                          /\ jobs'[k].incident = jobs[k].incident
    BY <1>13 DEF SecondPasses, TypeOK, JobRow
  <2> QED BY <1>13, <2>1 DEF SecondPasses, RowsLinked
<1>14. CASE UNCHANGED vars
    BY <1>14 DEF vars, RowsLinked
<1>15. CASE Intake
    BY <1>15, <1>1, <1>2, <1>3, <1>4, <1>5 DEF Intake
<1>16. CASE Operator
    BY <1>16, <1>7, <1>8 DEF Operator
<1>17. ASSUME NEW w \in Workers, Worker(w) PROVE RowsLinked'
    BY <1>17, <1>9, <1>10, <1>11, <1>12 DEF Worker, Finish
<1> QED BY <1>13, <1>14, <1>15, <1>16, <1>17 DEF Next, Tick, StalledTick

(* The columns the leases are read from have their types.                  *)
LEMMA LeaseTypes ==
    ASSUME TypeOK
    PROVE  /\ \A j \in JobIds : jobs[j].lease \in Nat \cup {Expired}
           /\ \A i \in Incidents : incidentLock[i] \in LockRow
    BY DEF TypeOK, JobRow

LEMMA LockMatchesLeaseStep == LeaseInv /\ [Next]_vars => LockMatchesLease'
<1> SUFFICES ASSUME LeaseInv, [Next]_vars PROVE LockMatchesLease'
    OBVIOUS
<1>0. TypeOK /\ RowsLinked /\ LockMatchesLease
    BY DEF LeaseInv
<1> USE QueueAssumption
<1>1. ASSUME NEW i \in Incidents, NEW kind, NEW e, NEW salt, NEW wait,
             Insert(NewJob(kind, i, e, salt, wait)), incidentLock' = incidentLock
      PROVE  LockMatchesLease'
  <2>1. PICK n \in JobIds : /\ jobs[n].status = "absent"
                           /\ jobs'[n] = NewJob(kind, i, e, salt, wait)
                           /\ \A k \in JobIds \ {n} : jobs'[k] = jobs[k]
    BY <1>0, <1>1, InsertAddsOne
  <2>2. jobs'[n].status # "leased"
    BY <2>1 DEF NewJob
  <2> QED BY <1>0, <1>1, <2>1, <2>2 DEF LockMatchesLease
<1>2. ASSUME NEW e \in EventIds, EnqueueAlert(e) PROVE LockMatchesLease'
  <2>1. events[e].incident \in Incidents
    BY <1>0, <1>2 DEF EnqueueAlert, RowsLinked
  <2> QED BY <1>1, <1>2, <2>1 DEF EnqueueAlert
<1>3. ASSUME NEW j \in JobIds, ReplayDeadLetter(j) PROVE LockMatchesLease'
  <2>1. jobs[j].incident \in Incidents
    BY <1>0, <1>3 DEF ReplayDeadLetter, RowsLinked
  <2> QED BY <1>1, <1>3, <2>1 DEF ReplayDeadLetter
<1>4. ASSUME NEW i \in Incidents, NEW c \in Contexts, EnqueueReprocessing(i, c)
      PROVE  LockMatchesLease'
    BY <1>1, <1>4 DEF EnqueueReprocessing
<1>5. CASE Intake
  <2>1. ASSUME jobs' = jobs, incidentLock' = incidentLock PROVE LockMatchesLease'
    BY <1>0, <2>1 DEF LockMatchesLease
  <2>2. ASSUME NEW e \in EventIds, CoalesceAlert(e) PROVE LockMatchesLease'
    BY <1>0, <2>2, CoalesceKeepsColumns, KeptColumns
  <2> QED BY <1>2, <1>5, <2>1, <2>2
          DEF Intake, InsertEvent, RejectAlert, AbortIntake, AppendEvent
<1>6. ASSUME NEW w \in Workers, NEW j \in JobIds, ClaimJob(w, j)
      PROVE  LockMatchesLease'
  <2> DEFINE i == jobs[j].incident
  <2>1. jobs[j] \in JobRow /\ jobs[j].status # "absent"
    BY <1>0, <1>6 DEF ClaimJob, Candidates, TypeOK
  <2>2. i \in Incidents /\ incidentLock[i].lease = Expired
    BY <1>0, <1>6, <2>1 DEF ClaimJob, IncidentFree, RowsLinked
  <2>3. /\ jobs'[j].status = "leased" /\ jobs'[j].incident = i
        /\ jobs'[j].worker = w /\ jobs'[j].lease = LeaseSeconds
    BY <1>0, <1>6, <2>1 DEF ClaimJob, TypeOK, JobRow
  <2>4. \A k \in JobIds \ {j} : jobs'[k] = jobs[k]
    BY <1>0, <1>6 DEF ClaimJob, TypeOK
  <2>5. /\ incidentLock'[i] = [job |-> j, worker |-> w, lease |-> LeaseSeconds]
        /\ \A h \in Incidents \ {i} : incidentLock'[h] = incidentLock[h]
    BY <1>0, <1>6, <2>2 DEF ClaimJob, TypeOK
  <2>6. ASSUME NEW k \in JobIds, jobs'[k].status = "leased", jobs'[k].lease # Expired
        PROVE  incidentLock'[jobs'[k].incident] =
                 [job |-> k, worker |-> jobs'[k].worker, lease |-> jobs'[k].lease]
    <3>1. CASE k = j
      BY <2>3, <2>5, <3>1
    <3>2. CASE k # j
      <4>1. /\ jobs'[k] = jobs[k] /\ jobs[k].incident \in Incidents
            /\ incidentLock[jobs[k].incident] =
                 [job |-> k, worker |-> jobs[k].worker, lease |-> jobs[k].lease]
        BY <1>0, <2>4, <2>6, <3>2 DEF LockMatchesLease, RowsLinked
      <4>2. jobs[k].incident # i
        BY <2>2, <2>6, <4>1
      <4> QED BY <2>5, <4>1, <4>2
    <3> QED BY <3>1, <3>2
  <2>7. ASSUME NEW h \in Incidents, incidentLock'[h].lease # Expired
        PROVE  /\ incidentLock'[h].job \in JobIds
               /\ jobs'[incidentLock'[h].job].status = "leased"
               /\ jobs'[incidentLock'[h].job].incident = h
               /\ jobs'[incidentLock'[h].job].worker = incidentLock'[h].worker
               /\ jobs'[incidentLock'[h].job].lease = incidentLock'[h].lease
    <3>1. CASE h = i
      BY <2>3, <2>5, <3>1
    <3>2. CASE h # i
      BY <1>0, <2>3, <2>4, <2>5, <2>7, <3>2 DEF LockMatchesLease
    <3> QED BY <3>1, <3>2
  <2> QED BY <2>6, <2>7 DEF LockMatchesLease
<1>7. ASSUME NEW w \in Workers, Renew(w) PROVE LockMatchesLease'
  <2> DEFINE j == working[w].job
  <2> DEFINE i == jobs[j].incident
  <2>1. /\ j \in JobIds /\ jobs[j] \in JobRow
        /\ jobs[j].status = "leased" /\ jobs[j].worker = w
    BY <1>0, <1>7, OwnerHoldsJob DEF Renew, Renewable
  <2>2. /\ i \in Incidents /\ incidentLock[i] \in LockRow
        /\ incidentLock[i].job = j /\ incidentLock[i].worker = w
    BY <1>0, <1>7, <2>1, LeaseTypes DEF Renew, Renewable, OwnsLock, LockedBy, RowsLinked
  <2>3. /\ jobs'[j].status = "leased" /\ jobs'[j].incident = i
        /\ jobs'[j].worker = w /\ jobs'[j].lease = LeaseSeconds
        /\ \A k \in JobIds \ {j} : jobs'[k] = jobs[k]
    BY <1>0, <1>7, <2>1 DEF Renew, TypeOK, JobRow
  <2>4. /\ incidentLock'[i] = [job |-> j, worker |-> w, lease |-> LeaseSeconds]
        /\ \A h \in Incidents \ {i} : incidentLock'[h] = incidentLock[h]
    BY <1>0, <1>7, <2>2 DEF Renew, TypeOK, LockRow
  <2>5. ASSUME NEW k \in JobIds \ {j}, jobs[k].status = "leased", jobs[k].lease # Expired
        PROVE  jobs[k].incident \in Incidents \ {i}
    <3>1. jobs[k].incident \in Incidents
      BY <1>0, <2>5 DEF RowsLinked
    <3>2. incidentLock[jobs[k].incident] =
            [job |-> k, worker |-> jobs[k].worker, lease |-> jobs[k].lease]
      BY <1>0, <2>5 DEF LockMatchesLease
    <3> QED BY <2>2, <2>5, <3>1, <3>2
  <2>6. \A h \in Incidents \ {i} : incidentLock[h].lease # Expired => incidentLock[h].job # j
    BY <1>0, <2>1 DEF LockMatchesLease
  <2> QED BY <1>0, <2>1, <2>2, <2>3, <2>4, <2>5, <2>6 DEF LockMatchesLease
<1>8. ASSUME NEW w \in Workers, NEW j, EndLease(w, j) PROVE LockMatchesLease'
  <2>1. \A i \in Incidents : incidentLock'[i] =
          IF LockedBy(j, w, i) THEN Unowned ELSE incidentLock[i]
    BY <1>8 DEF EndLease, Unlocked
  <2>2. ASSUME NEW k \in JobIds, jobs'[k].status = "leased", jobs'[k].lease # Expired
        PROVE  incidentLock'[jobs'[k].incident] =
                 [job |-> k, worker |-> jobs'[k].worker, lease |-> jobs'[k].lease]
    <3>1. k # j /\ jobs'[k] = jobs[k]
      BY <1>8, <2>2 DEF EndLease
    <3>2. /\ jobs[k].incident \in Incidents
          /\ incidentLock[jobs[k].incident] =
               [job |-> k, worker |-> jobs[k].worker, lease |-> jobs[k].lease]
      BY <1>0, <2>2, <3>1 DEF LockMatchesLease, RowsLinked
    <3> QED BY <2>1, <3>1, <3>2 DEF LockedBy
  <2>3. ASSUME NEW h \in Incidents, incidentLock'[h].lease # Expired
        PROVE  /\ incidentLock'[h].job \in JobIds
               /\ jobs'[incidentLock'[h].job].status = "leased"
               /\ jobs'[incidentLock'[h].job].incident = h
               /\ jobs'[incidentLock'[h].job].worker = incidentLock'[h].worker
               /\ jobs'[incidentLock'[h].job].lease = incidentLock'[h].lease
    <3>1. ~LockedBy(j, w, h) /\ incidentLock'[h] = incidentLock[h]
      BY <2>1, <2>3 DEF Unowned
    <3>2. /\ incidentLock[h].job \in JobIds
          /\ jobs[incidentLock[h].job].status = "leased"
          /\ jobs[incidentLock[h].job].incident = h
          /\ jobs[incidentLock[h].job].worker = incidentLock[h].worker
          /\ jobs[incidentLock[h].job].lease = incidentLock[h].lease
      BY <1>0, <2>3, <3>1 DEF LockMatchesLease
    <3>3. incidentLock[h].job # j
      BY <1>8, <3>1, <3>2 DEF EndLease, LockedBy
    <3> QED BY <1>8, <3>1, <3>2, <3>3 DEF EndLease
  <2> QED BY <2>2, <2>3 DEF LockMatchesLease
<1>9. ASSUME NEW w \in Workers, Worker(w) PROVE LockMatchesLease'
  <2>1. ASSUME LeaseLost(w) \/ Abandon(w) PROVE LockMatchesLease'
    BY <1>0, <2>1 DEF LeaseLost, Abandon, LockMatchesLease
  <2>2. ASSUME NEW skip \in SUBSET JobIds, Claim(w, skip) PROVE LockMatchesLease'
    BY <1>0, <1>6, <2>2, ClaimTakesOne
  <2>3. CASE \/ Complete(w)
             \/ \E limit \in {1, MaxAttempts} : Retry(w, limit) \/ DeadLetter(w, limit)
    BY <1>0, <1>8, <2>3, FinishEndsLease
  <2> QED BY <1>7, <1>9, <2>1, <2>2, <2>3 DEF Worker, Finish
<1>10. ASSUME SecondPasses PROVE LockMatchesLease'
  <2>1. ASSUME NEW l \in Nat \cup {Expired}, Shorter(l) # Expired PROVE l # Expired
    BY <2>1 DEF Shorter, Expired
  <2>2. \A k \in JobIds : /\ jobs'[k].status = jobs[k].status
                          /\ jobs'[k].incident = jobs[k].incident
                          /\ jobs'[k].worker = jobs[k].worker
                          /\ jobs'[k].lease = Shorter(jobs[k].lease)
    <3>1. \A k \in JobIds : jobs[k] \in JobRow
      BY <1>0 DEF TypeOK
    <3>2. \A k \in JobIds : jobs'[k] =
            [jobs[k] EXCEPT !.wait = Sooner(@), !.age = CountUp(@, CoalesceMax),
                            !.lease = Shorter(@)]
      BY <1>10 DEF SecondPasses
    <3> SUFFICES ASSUME NEW k \in JobIds
                 PROVE  /\ jobs'[k].status = jobs[k].status
                        /\ jobs'[k].incident = jobs[k].incident
                        /\ jobs'[k].worker = jobs[k].worker
                        /\ jobs'[k].lease = Shorter(jobs[k].lease)
      OBVIOUS
    <3> QED BY <3>1, <3>2 DEF JobRow
  <2>3. \A h \in Incidents : /\ incidentLock'[h] \in [job: JobIds \cup {0},
                                  worker: Workers \cup {None}, lease: {Shorter(incidentLock[h].lease)}]
                             /\ incidentLock'[h].job = incidentLock[h].job
                             /\ incidentLock'[h].worker = incidentLock[h].worker
                             /\ incidentLock'[h].lease = Shorter(incidentLock[h].lease)
    BY <1>0, <1>10, LeaseTypes DEF SecondPasses, LockRow
  <2>4. ASSUME NEW k \in JobIds, jobs'[k].status = "leased", jobs'[k].lease # Expired
        PROVE  incidentLock'[jobs'[k].incident] =
                 [job |-> k, worker |-> jobs'[k].worker, lease |-> jobs'[k].lease]
    <3>1. jobs[k].status = "leased" /\ jobs[k].lease # Expired
      BY <1>0, <2>1, <2>2, <2>4, LeaseTypes
    <3>2. /\ jobs[k].incident \in Incidents
          /\ incidentLock[jobs[k].incident] =
               [job |-> k, worker |-> jobs[k].worker, lease |-> jobs[k].lease]
      BY <1>0, <3>1 DEF LockMatchesLease, RowsLinked
    <3> QED BY <2>2, <2>3, <3>2
  <2>5. ASSUME NEW h \in Incidents, incidentLock'[h].lease # Expired
        PROVE  /\ incidentLock'[h].job \in JobIds
               /\ jobs'[incidentLock'[h].job].status = "leased"
               /\ jobs'[incidentLock'[h].job].incident = h
               /\ jobs'[incidentLock'[h].job].worker = incidentLock'[h].worker
               /\ jobs'[incidentLock'[h].job].lease = incidentLock'[h].lease
    <3>1. incidentLock[h].lease # Expired
      BY <1>0, <2>1, <2>3, <2>5, LeaseTypes DEF LockRow
    <3> QED BY <1>0, <2>2, <2>3, <3>1 DEF LockMatchesLease
  <2> QED BY <2>4, <2>5 DEF LockMatchesLease
<1>11. CASE UNCHANGED vars
    BY <1>0, <1>11 DEF vars, LockMatchesLease
<1>12. CASE Operator
    BY <1>3, <1>4, <1>12 DEF Operator
<1> QED BY <1>5, <1>9, <1>10, <1>11, <1>12 DEF Next, Tick, StalledTick

LEMMA LeaseInvariant == Spec => []LeaseInv
<1>1. LeaseInv /\ [Next]_vars => LeaseInv'
    BY TypeOKStep, RowsLinkedStep, LockMatchesLeaseStep DEF LeaseInv
<1> QED BY <1>1, InitLeaseInv, PTL DEF Spec

(* A job lease and the lock of its incident agree in every reachable state *)
(* (claim_next_job, renew_job_lease, complete_job, fail_job), whatever the *)
(* number of workers, jobs and faults.                                     *)
THEOREM LocksAlwaysMatch == Spec => []LockMatchesLease
<1>1. LeaseInv => LockMatchesLease
    BY DEF LeaseInv
<1> QED BY <1>1, LeaseInvariant, PTL

(* Two jobs of one incident never hold unexpired leases at the same time:  *)
(* each would have to be the job its incident lock names.                  *)
THEOREM LeasesExclusive == Spec => []LeaseExclusive
<1>1. LeaseInv => LeaseExclusive
  <2> SUFFICES ASSUME LockMatchesLease, NEW j \in JobIds, NEW k \in JobIds,
                      jobs[j].status = "leased", jobs[j].lease # Expired,
                      jobs[k].status = "leased", jobs[k].lease # Expired,
                      jobs[j].incident = jobs[k].incident
               PROVE  j = k
    BY DEF LeaseInv, LeaseExclusive
  <2>1. incidentLock[jobs[j].incident] =
          [job |-> j, worker |-> jobs[j].worker, lease |-> jobs[j].lease]
    BY DEF LockMatchesLease
  <2>2. incidentLock[jobs[k].incident] =
          [job |-> k, worker |-> jobs[k].worker, lease |-> jobs[k].lease]
    BY DEF LockMatchesLease
  <2> QED BY <2>1, <2>2
<1> QED BY <1>1, LeaseInvariant, PTL

-----------------------------------------------------------------------------
(* Queue capacity.                                                         *)
ActiveJobs == {j \in JobIds : Active(j)}

LEMMA ActiveFinite ==
    /\ IsFiniteSet(ActiveJobs)
    /\ Cardinality(ActiveJobs) \in Nat
    /\ Depth = Cardinality(ActiveJobs)
<1>1. IsFiniteSet(JobIds)
    BY QueueAssumption, FS_Interval DEF JobIds
<1>2. IsFiniteSet(ActiveJobs)
    BY <1>1, FS_Subset DEF ActiveJobs
<1> QED BY <1>2, FS_CardinalityType DEF Depth, ActiveJobs

(* A step after which no further job is active keeps the bound.            *)
LEMMA NoJobActivated ==
    ASSUME CapacityRespected, ActiveJobs' \subseteq ActiveJobs
    PROVE  CapacityRespected'
<1>1. Cardinality(ActiveJobs') <= Cardinality(ActiveJobs) /\ Cardinality(ActiveJobs') \in Nat
    BY ActiveFinite, FS_Subset, FS_CardinalityType
<1>2. Depth' = Cardinality(ActiveJobs')
    BY DEF Depth, ActiveJobs
<1> QED BY <1>1, <1>2, ActiveFinite, QueueAssumption DEF CapacityRespected

(* An insertion behind the capacity check adds one job at most.            *)
LEMMA InsertWithinCapacity ==
    ASSUME TypeOK, RowsLinked, HasCapacity, NEW job, Insert(job)
    PROVE  CapacityRespected'
<1>1. PICK n \in JobIds : \A k \in JobIds \ {n} : jobs'[k] = jobs[k]
    BY InsertAddsOne
<1>2. ActiveJobs' \subseteq ActiveJobs \cup {n}
    BY <1>1 DEF ActiveJobs, Active
<1>3. /\ IsFiniteSet(ActiveJobs \cup {n})
      /\ Cardinality(ActiveJobs \cup {n}) <= Cardinality(ActiveJobs) + 1
      /\ Cardinality(ActiveJobs \cup {n}) \in Nat
    BY ActiveFinite, FS_AddElement, FS_CardinalityType
<1>4. Cardinality(ActiveJobs') <= Cardinality(ActiveJobs \cup {n}) /\ Cardinality(ActiveJobs') \in Nat
    BY <1>2, <1>3, FS_Subset, FS_CardinalityType
<1>5. Depth' = Cardinality(ActiveJobs')
    BY DEF Depth, ActiveJobs
<1> QED BY <1>3, <1>4, <1>5, ActiveFinite, QueueAssumption DEF HasCapacity, CapacityRespected

LEMMA InitCapacity == Init => CapacityRespected
<1> SUFFICES ASSUME Init PROVE CapacityRespected
    OBVIOUS
<1>1. ActiveJobs = {}
    BY DEF Init, AbsentJob, ActiveJobs, Active
<1> QED BY <1>1, ActiveFinite, FS_EmptySet, QueueAssumption DEF CapacityRespected

LEMMA CapacityStep ==
    TypeOK /\ RowsLinked /\ CapacityRespected /\ [Next]_vars => CapacityRespected'
<1> SUFFICES ASSUME TypeOK, RowsLinked, CapacityRespected, [Next]_vars
             PROVE  CapacityRespected'
    OBVIOUS
<1>1. ASSUME jobs' = jobs PROVE CapacityRespected'
  <2>1. ActiveJobs' \subseteq ActiveJobs
    BY <1>1 DEF ActiveJobs, Active
  <2> QED BY <2>1, NoJobActivated
<1>2. ASSUME NEW e \in EventIds, CoalesceAlert(e) PROVE CapacityRespected'
  <2>1. ActiveJobs' \subseteq ActiveJobs
    BY <1>2, CoalesceKeepsColumns DEF LeaseColumnsKept, ActiveJobs, Active
  <2> QED BY <2>1, NoJobActivated
<1>3. CASE Intake
    BY <1>1, <1>2, <1>3, InsertWithinCapacity
    DEF Intake, InsertEvent, EnqueueAlert, RejectAlert, AbortIntake, AppendEvent
<1>4. CASE Operator
    BY <1>4, InsertWithinCapacity DEF Operator, ReplayDeadLetter, EnqueueReprocessing
<1>5. ASSUME NEW w \in Workers, NEW skip \in SUBSET JobIds, Claim(w, skip)
      PROVE  CapacityRespected'
  <2>1. PICK j \in JobIds : ClaimJob(w, j)
    BY <1>5, ClaimTakesOne
  <2>2. j \in ActiveJobs
    BY <2>1 DEF ClaimJob, Candidates, ActiveJobs, Active
  <2>3. \A k \in JobIds \ {j} : jobs'[k] = jobs[k]
    BY <2>1 DEF ClaimJob, TypeOK
  <2>4. ActiveJobs' \subseteq ActiveJobs
    BY <2>2, <2>3 DEF ActiveJobs, Active
  <2> QED BY <2>4, NoJobActivated
<1>6. ASSUME NEW w \in Workers, Renew(w) PROVE CapacityRespected'
  <2>1. working[w].job \in JobIds /\ jobs[working[w].job] \in JobRow
    BY <1>6, OwnerHoldsJob DEF Renew, Renewable
  <2>2. \A k \in JobIds : jobs'[k].status = jobs[k].status
    BY <1>6, <2>1 DEF Renew, TypeOK, JobRow
  <2>3. ActiveJobs' \subseteq ActiveJobs
    BY <2>2 DEF ActiveJobs, Active
  <2> QED BY <2>3, NoJobActivated
<1>7. ASSUME NEW w \in Workers, NEW j, EndLease(w, j) PROVE CapacityRespected'
  <2>1. ActiveJobs' \subseteq ActiveJobs
    BY <1>7 DEF EndLease, ActiveJobs, Active
  <2> QED BY <2>1, NoJobActivated
<1>8. ASSUME NEW w \in Workers, Worker(w) PROVE CapacityRespected'
  <2>1. CASE LeaseLost(w) \/ Abandon(w)
    BY <1>1, <2>1 DEF LeaseLost, Abandon
  <2>2. CASE \/ Complete(w)
             \/ \E limit \in {1, MaxAttempts} : Retry(w, limit) \/ DeadLetter(w, limit)
    BY <1>7, <2>2, FinishEndsLease
  <2> QED BY <1>5, <1>6, <1>8, <2>1, <2>2 DEF Worker, Finish
<1>9. ASSUME SecondPasses PROVE CapacityRespected'
  <2>1. \A k \in JobIds : jobs'[k].status = jobs[k].status
    BY <1>9 DEF SecondPasses, TypeOK, JobRow
  <2>2. ActiveJobs' \subseteq ActiveJobs
    BY <2>1 DEF ActiveJobs, Active
  <2> QED BY <2>2, NoJobActivated
<1>10. CASE UNCHANGED vars
    BY <1>1, <1>10 DEF vars
<1> QED BY <1>3, <1>4, <1>8, <1>9, <1>10 DEF Next, Tick, StalledTick

(* MAX_PENDING_JOBS bounds pending plus leased jobs in every reachable     *)
(* state: each insertion is behind _assert_queue_capacity, and neither a   *)
(* claim, a retry nor a reclaim makes a finished job active again.         *)
THEOREM CapacityNeverExceeded == Spec => []CapacityRespected
<1>1. CapacityRespected /\ LeaseInv /\ [Next]_vars => CapacityRespected'
    BY CapacityStep DEF LeaseInv
<1> QED BY <1>1, InitCapacity, LeaseInvariant, PTL DEF Spec

-----------------------------------------------------------------------------
(* What a step does to the rows, as far as the remaining properties look.  *)

(* The columns that say what a job is and who has it.                      *)
SameJob(j) ==
    /\ jobs'[j].status = jobs[j].status
    /\ jobs'[j].kind = jobs[j].kind
    /\ jobs'[j].incident = jobs[j].incident
    /\ jobs'[j].event = jobs[j].event
    /\ jobs'[j].attempts = jobs[j].attempts
    /\ jobs'[j].worker = jobs[j].worker

Aged(j) == /\ jobs'[j].wait = Sooner(jobs[j].wait)
           /\ jobs'[j].age = CountUp(jobs[j].age, CoalesceMax)
Timeless(j) == jobs'[j].wait = jobs[j].wait /\ jobs'[j].age = jobs[j].age

(* No job changes hands: a renewal, a second, an intake without a job, a   *)
(* worker that lets go.                                                    *)
Quiet ==
    /\ \A j \in JobIds : SameJob(j)
    /\ (\A j \in JobIds : Timeless(j)) \/ (\A j \in JobIds : Aged(j))
    /\ deadLetters' = deadLetters
    /\ \A w \in Workers : working'[w] \in {working[w], Idle}

Rest(j) == \A k \in JobIds \ {j} : jobs'[k] = jobs[k]

Merges(e, j) ==
    /\ events[e].state = "open"
    /\ j \in PendingAnalyses(events[e].incident)
    /\ jobs'[j] = Merged(jobs[j], e)
    /\ Rest(j)
    /\ events' = [events EXCEPT ![e].state = "stored"]
    /\ UNCHANGED <<deadLetters, working, eventCount>>

Inserts(n, job) ==
    /\ jobs[n].status = "absent"
    /\ jobs'[n] = job
    /\ Rest(n)
    /\ UNCHANGED <<deadLetters, working, eventCount>>

Claims(w, j) ==
    /\ ClaimJob(w, j)
    /\ working[w] = Idle
    /\ working' = [working EXCEPT ![w] = [job |-> j, event |-> jobs[j].event,
                                 attempt |-> CountUp(jobs[j].attempts, MaxCount)]]
    /\ UNCHANGED <<events, eventCount, deadLetters>>

(* The worker's own job leaves the state leased, with or without a row of  *)
(* incident_dead_letters.                                                  *)
Ends(w) ==
    LET j == working[w].job IN
    /\ OwnsJob(w)
    /\ jobs'[j].status \in {"pending", "completed", "dead_letter"}
    /\ jobs'[j].kind = jobs[j].kind
    /\ jobs'[j].incident = jobs[j].incident
    /\ jobs'[j].event = jobs[j].event
    /\ jobs'[j].attempts = jobs[j].attempts
    /\ Rest(j)
    /\ deadLetters' = IF jobs'[j].status = "dead_letter"
                      THEN [deadLetters EXCEPT ![j] = working[w].event]
                      ELSE deadLetters
    /\ working' = [working EXCEPT ![w] = Idle]
    /\ UNCHANGED <<events, eventCount>>

LEMMA QuietSteps ==
    ASSUME TypeOK,
           \/ \E a \in Alerts : InsertEvent(a)
           \/ \E e \in EventIds : RejectAlert(e) \/ AbortIntake(e)
           \/ \E i \in Incidents : AppendEvent(i)
           \/ \E w \in Workers : LeaseLost(w) \/ Abandon(w)
           \/ UNCHANGED vars
    PROVE  Quiet
<1>1. jobs' = jobs /\ deadLetters' = deadLetters
    BY DEF InsertEvent, RejectAlert, AbortIntake, AppendEvent, LeaseLost, Abandon, vars
<1>2. \A w \in Workers : working'[w] \in {working[w], Idle}
    BY DEF InsertEvent, RejectAlert, AbortIntake, AppendEvent, LeaseLost, Abandon, vars,
           Release, TypeOK
<1> QED BY <1>1, <1>2 DEF Quiet, SameJob, Timeless

LEMMA RenewIsQuiet ==
    ASSUME TypeOK, NEW w \in Workers, Renew(w)
    PROVE  Quiet
<1>1. working[w].job \in JobIds /\ jobs[working[w].job] \in JobRow
    BY OwnerHoldsJob DEF Renew, Renewable
<1>2. \A j \in JobIds : SameJob(j) /\ Timeless(j)
    BY <1>1 DEF Renew, TypeOK, JobRow, SameJob, Timeless
<1> QED BY <1>2 DEF Renew, Quiet

LEMMA SecondIsQuiet ==
    ASSUME TypeOK, SecondPasses
    PROVE  Quiet
<1>1. \A j \in JobIds : jobs[j] \in JobRow
    BY DEF TypeOK
<1>2. /\ deadLetters' = deadLetters /\ working' = working
      /\ \A j \in JobIds : jobs'[j] =
            [jobs[j] EXCEPT !.wait = Sooner(@), !.age = CountUp(@, CoalesceMax),
                            !.lease = Shorter(@)]
    BY Zenon DEF SecondPasses
<1>3. ASSUME NEW j \in JobIds PROVE SameJob(j) /\ Aged(j)
  <2> DEFINE wait == Sooner(jobs[j].wait)
             age == CountUp(jobs[j].age, CoalesceMax)
             lease == Shorter(jobs[j].lease)
  <2>1. jobs'[j] = [jobs[j] EXCEPT !.wait = wait, !.age = age, !.lease = lease]
    BY <1>2, Zenon
  <2> HIDE DEF wait, age, lease
  <2>2. SameJob(j) /\ jobs'[j].wait = wait /\ jobs'[j].age = age
    BY <1>1, <2>1 DEF JobRow, SameJob
  <2> QED BY <2>2 DEF wait, age, Aged
<1> QED BY <1>2, <1>3 DEF Quiet

LEMMA CoalesceMerges ==
    ASSUME TypeOK, NEW e \in EventIds, CoalesceAlert(e)
    PROVE  \E j \in JobIds : Merges(e, j)
<1>1. PICK j \in Mergeable(events[e].incident) : jobs' = [jobs EXCEPT ![j] = Merged(jobs[j], e)]
    BY DEF CoalesceAlert
<1>2. j \in PendingAnalyses(events[e].incident) /\ j \in JobIds
    BY <1>1 DEF Mergeable, PendingAnalyses
<1> QED BY <1>1, <1>2 DEF CoalesceAlert, Merges, Rest, TypeOK

LEMMA InsertInserts ==
    ASSUME TypeOK, RowsLinked, NEW job, Insert(job),
           UNCHANGED <<deadLetters, working, eventCount>>
    PROVE  \E n \in JobIds : Inserts(n, job)
    BY InsertAddsOne DEF Inserts, Rest

LEMMA ClaimClaims ==
    ASSUME TypeOK, NEW w \in Workers, NEW skip \in SUBSET JobIds, Claim(w, skip)
    PROVE  \E j \in JobIds : Claims(w, j)
<1> DEFINE attempt(j) == CountUp(jobs[j].attempts, MaxCount)
<1>1. PICK j \in Claimable(skip) :
          /\ jobs' = [jobs EXCEPT ![j] =
                [@ EXCEPT !.status = "leased", !.attempts = attempt(j),
                          !.worker = w, !.lease = LeaseSeconds]]
          /\ incidentLock' = [incidentLock EXCEPT ![jobs[j].incident] =
                [job |-> j, worker |-> w, lease |-> LeaseSeconds]]
          /\ working' = [working EXCEPT ![w] =
                [job |-> j, event |-> jobs[j].event, attempt |-> attempt(j)]]
    BY Zenon DEF Claim
<1>2. j \in Candidates /\ j \in JobIds /\ IncidentFree(jobs[j].incident)
    BY <1>1 DEF Claimable, FirstBatch, Candidates
<1>3. ClaimJob(w, j)
    BY <1>1, <1>2 DEF ClaimJob
<1> QED BY <1>1, <1>2, <1>3 DEF Claim, Claims

LEMMA FinishEnds ==
    ASSUME TypeOK, NEW w \in Workers,
           \/ Complete(w)
           \/ \E limit \in {1, MaxAttempts} : Retry(w, limit) \/ DeadLetter(w, limit)
    PROVE  Ends(w)
<1>1. OwnsJob(w)
    BY DEF Complete, Retry, DeadLetter
<1>2. working[w].job \in JobIds /\ jobs[working[w].job] \in JobRow
    BY <1>1, OwnerHoldsJob
<1>3. CASE Complete(w)
    BY <1>1, <1>2, <1>3 DEF Complete, Ends, Rest, Release, TypeOK, JobRow
<1>4. ASSUME NEW limit \in {1, MaxAttempts}, Retry(w, limit) PROVE Ends(w)
    BY <1>1, <1>2, <1>4 DEF Retry, Ends, Rest, Release, TypeOK, JobRow
<1>5. ASSUME NEW limit \in {1, MaxAttempts}, DeadLetter(w, limit) PROVE Ends(w)
    BY <1>1, <1>2, <1>5 DEF DeadLetter, DeadLettered, Ends, Rest, Release, TypeOK, JobRow
<1> QED BY <1>3, <1>4, <1>5

(* Every step is one of these.                                             *)
LEMMA StepKinds ==
    ASSUME LeaseInv, [Next]_vars
    PROVE  \/ Quiet
           \/ \E e \in EventIds, j \in JobIds : Merges(e, j)
           \/ \E e \in EventIds, n \in JobIds :
                 /\ EnqueueAlert(e)
                 /\ Inserts(n, NewJob("analyze", events[e].incident, e, 0, Coalesce))
           \/ \E j, n \in JobIds :
                 /\ ReplayDeadLetter(j)
                 /\ Inserts(n, NewJob("reprocess", jobs[j].incident, deadLetters[j], j, 0))
           \/ \E i \in Incidents, c \in Contexts, n \in JobIds : \E e \in StoredEvents(i) :
                 /\ EnqueueReprocessing(i, c)
                 /\ Inserts(n, NewJob("reprocess", i, e, c, 0))
           \/ \E w \in Workers, j \in JobIds : Claims(w, j)
           \/ \E w \in Workers : Ends(w)
<1>0. TypeOK /\ RowsLinked
    BY DEF LeaseInv
<1>1. CASE Intake
  <2>1. ASSUME NEW e \in EventIds, EnqueueAlert(e)
        PROVE  \E n \in JobIds : Inserts(n, NewJob("analyze", events[e].incident, e, 0, Coalesce))
    BY <1>0, <2>1, InsertInserts DEF EnqueueAlert
  <2> QED BY <1>0, <1>1, <2>1, QuietSteps, CoalesceMerges DEF Intake
<1>2. CASE Operator
  <2>1. ASSUME NEW j \in JobIds, ReplayDeadLetter(j)
        PROVE  \E n \in JobIds :
                  Inserts(n, NewJob("reprocess", jobs[j].incident, deadLetters[j], j, 0))
    BY <1>0, <2>1, InsertInserts DEF ReplayDeadLetter
  <2>2. ASSUME NEW i \in Incidents, NEW c \in Contexts, EnqueueReprocessing(i, c)
        PROVE  \E n \in JobIds, e \in StoredEvents(i) : Inserts(n, NewJob("reprocess", i, e, c, 0))
    BY <1>0, <2>2, InsertInserts DEF EnqueueReprocessing
  <2> QED BY <1>2, <2>1, <2>2 DEF Operator
<1>3. ASSUME NEW w \in Workers, Worker(w)
      PROVE  \/ Quiet
             \/ \E j \in JobIds : Claims(w, j)
             \/ Ends(w)
    BY <1>0, <1>3, QuietSteps, RenewIsQuiet, ClaimClaims, FinishEnds DEF Worker, Finish
<1>4. CASE Tick \/ StalledTick
    BY <1>0, <1>4, SecondIsQuiet DEF Tick, StalledTick
<1>5. CASE UNCHANGED vars
    BY <1>0, <1>5, QuietSteps
<1> QED BY <1>1, <1>2, <1>3, <1>4, <1>5 DEF Next

-----------------------------------------------------------------------------
(* A worker and its row.                                                   *)
LEMMA SnapshotStep ==
    ASSUME LeaseInv, OwnerSnapshotCurrent, [Next]_vars
    PROVE  OwnerSnapshotCurrent'
<1>0. TypeOK /\ TypeOK'
    BY TypeOKStep DEF LeaseInv
<1> SUFFICES ASSUME NEW w \in Workers, OwnsJob(w)'
             PROVE  /\ jobs'[working'[w].job].event = working'[w].event
                    /\ jobs'[working'[w].job].attempts = working'[w].attempt
    BY DEF OwnerSnapshotCurrent
<1> DEFINE j == working'[w].job
<1>1. /\ working'[w] \in Snapshot /\ working'[w] # Idle
      /\ j \in JobIds /\ jobs'[j].status = "leased" /\ jobs'[j].worker = w
    BY <1>0 DEF OwnsJob, Busy, TypeOK, Snapshot
<1>2. ASSUME working'[w] = working[w], jobs[j].status = "leased", jobs[j].worker = w,
             jobs'[j].event = jobs[j].event, jobs'[j].attempts = jobs[j].attempts
      PROVE  /\ jobs'[j].event = working'[w].event
             /\ jobs'[j].attempts = working'[w].attempt
    BY <1>1, <1>2 DEF OwnerSnapshotCurrent, OwnsJob, Busy
<1>3. CASE Quiet
  <2>1. working'[w] = working[w]
    BY <1>1, <1>3 DEF Quiet
  <2> QED BY <1>1, <1>2, <1>3, <2>1 DEF Quiet, SameJob
<1>4. ASSUME NEW e \in EventIds, NEW k \in JobIds, Merges(e, k)
      PROVE  /\ jobs'[j].event = working'[w].event
             /\ jobs'[j].attempts = working'[w].attempt
  <2>1. jobs[k] \in JobRow /\ jobs[k].status = "pending"
    BY <1>0, <1>4 DEF Merges, PendingAnalyses, TypeOK
  <2>2. jobs'[k].status = "pending"
    BY <1>4, <2>1 DEF Merges, Merged, JobRow
  <2> QED BY <1>1, <1>2, <1>4, <2>2 DEF Merges, Rest
<1>5. ASSUME NEW n \in JobIds, NEW kind, NEW i, NEW e, NEW salt, NEW wait,
             Inserts(n, NewJob(kind, i, e, salt, wait))
      PROVE  /\ jobs'[j].event = working'[w].event
             /\ jobs'[j].attempts = working'[w].attempt
  <2>1. jobs'[n].status = "pending"
    BY <1>5 DEF Inserts, NewJob
  <2> QED BY <1>1, <1>2, <1>5, <2>1 DEF Inserts, Rest
<1>6. ASSUME NEW v \in Workers, NEW k \in JobIds, Claims(v, k)
      PROVE  /\ jobs'[j].event = working'[w].event
             /\ jobs'[j].attempts = working'[w].attempt
  <2>1. /\ jobs'[k].event = jobs[k].event /\ jobs'[k].worker = v
        /\ jobs'[k].attempts = CountUp(jobs[k].attempts, MaxCount)
        /\ Rest(k)
    BY <1>0, <1>6 DEF Claims, ClaimJob, Rest, TypeOK, JobRow
  <2>2. CASE w = v
    BY <1>0, <1>6, <2>1, <2>2 DEF Claims, TypeOK
  <2>3. CASE w # v
    <3>1. j # k /\ working'[w] = working[w]
      BY <1>0, <1>1, <1>6, <2>1, <2>3 DEF Claims, TypeOK
    <3> QED BY <1>1, <1>2, <2>1, <3>1 DEF Rest
  <2> QED BY <2>2, <2>3
<1>7. ASSUME NEW v \in Workers, Ends(v)
      PROVE  /\ jobs'[j].event = working'[w].event
             /\ jobs'[j].attempts = working'[w].attempt
  <2>1. w # v /\ working'[w] = working[w]
    BY <1>0, <1>1, <1>7 DEF Ends, TypeOK
  <2>2. j # working[v].job
    BY <1>1, <1>7 DEF Ends
  <2> QED BY <1>1, <1>2, <1>7, <2>1, <2>2 DEF Ends, Rest
<1> QED BY <1>3, <1>4, <1>5, <1>6, <1>7, StepKinds

LEMMA InitSnapshot == Init => OwnerSnapshotCurrent
    BY DEF Init, OwnerSnapshotCurrent, OwnsJob, Busy

(* A worker that may still commit has the event and the attempt its row    *)
(* has: a claim reads them with the row locked, and neither a merge (only  *)
(* into pending rows) nor a reclaim touches a row its worker still owns.   *)
THEOREM SnapshotsCurrent == Spec => []OwnerSnapshotCurrent
<1>1. OwnerSnapshotCurrent /\ LeaseInv /\ [Next]_vars => OwnerSnapshotCurrent'
    BY SnapshotStep
<1> QED BY <1>1, InitSnapshot, LeaseInvariant, PTL DEF Spec

-----------------------------------------------------------------------------
(* Dead letters.                                                           *)
LEMMA DeadLetterStep ==
    ASSUME LeaseInv, OwnerSnapshotCurrent, DeadLettersRecorded, [Next]_vars
    PROVE  DeadLettersRecorded'
<1>0. TypeOK
    BY DEF LeaseInv
<1> DEFINE Recorded(j) ==
        deadLetters'[j] = IF jobs'[j].status = "dead_letter" THEN jobs'[j].event ELSE 0
<1> SUFFICES \A j \in JobIds : Recorded(j)
    BY DEF DeadLettersRecorded
<1>1. ASSUME NEW j \in JobIds, jobs'[j] = jobs[j] \/ SameJob(j), deadLetters'[j] = deadLetters[j]
      PROVE  Recorded(j)
    BY <1>1 DEF DeadLettersRecorded, SameJob
<1>2. CASE Quiet
    BY <1>1, <1>2 DEF Quiet
<1>3. ASSUME NEW e \in EventIds, NEW k \in JobIds, Merges(e, k), NEW j \in JobIds
      PROVE  Recorded(j)
  <2>1. /\ jobs[k].status = "pending" /\ jobs'[k].status = "pending"
        /\ deadLetters' = deadLetters
    BY <1>0, <1>3 DEF Merges, Merged, PendingAnalyses, TypeOK, JobRow
  <2>2. deadLetters[k] = 0
    BY <2>1 DEF DeadLettersRecorded
  <2> QED BY <1>1, <1>3, <2>1, <2>2 DEF Merges, Rest
<1>4. ASSUME NEW n \in JobIds, NEW kind, NEW i, NEW e, NEW salt, NEW wait,
             Inserts(n, NewJob(kind, i, e, salt, wait)), NEW j \in JobIds
      PROVE  Recorded(j)
  <2>1. /\ jobs[n].status = "absent" /\ jobs'[n].status = "pending"
        /\ deadLetters' = deadLetters
    BY <1>4 DEF Inserts, NewJob
  <2>2. deadLetters[n] = 0
    BY <2>1 DEF DeadLettersRecorded
  <2> QED BY <1>1, <1>4, <2>1, <2>2 DEF Inserts, Rest
<1>5. ASSUME NEW w \in Workers, NEW k \in JobIds, Claims(w, k), NEW j \in JobIds
      PROVE  Recorded(j)
  <2>1. /\ jobs[k].status \in {"pending", "leased"} /\ jobs'[k].status = "leased"
        /\ Rest(k) /\ deadLetters' = deadLetters
    BY <1>0, <1>5 DEF Claims, ClaimJob, Candidates, Rest, TypeOK, JobRow
  <2>2. deadLetters[k] = 0
    BY <2>1 DEF DeadLettersRecorded
  <2> QED BY <1>1, <2>1, <2>2 DEF Rest
<1>6. ASSUME NEW w \in Workers, Ends(w), NEW j \in JobIds
      PROVE  Recorded(j)
  <2> DEFINE k == working[w].job
  <2>1. k \in JobIds /\ jobs[k].status = "leased" /\ deadLetters[k] = 0
    BY <1>0, <1>6, OwnerHoldsJob DEF Ends, DeadLettersRecorded
  <2>2. jobs'[k].event = working[w].event
    BY <1>6 DEF Ends, OwnerSnapshotCurrent
  <2>3. /\ deadLetters'[k] = IF jobs'[k].status = "dead_letter" THEN working[w].event ELSE 0
        /\ \A l \in JobIds \ {k} : deadLetters'[l] = deadLetters[l] /\ jobs'[l] = jobs[l]
    BY <1>0, <1>6, <2>1 DEF Ends, Rest, TypeOK
  <2> QED BY <1>1, <2>1, <2>2, <2>3
<1> QED BY <1>2, <1>3, <1>4, <1>5, <1>6, StepKinds

LEMMA InitDeadLetters == Init => DeadLettersRecorded
    BY DEF Init, DeadLettersRecorded, AbsentJob

LEMMA DeadLetterInvariant ==
    Spec => [](LeaseInv /\ OwnerSnapshotCurrent /\ DeadLettersRecorded)
<1>1. /\ DeadLettersRecorded /\ OwnerSnapshotCurrent /\ LeaseInv /\ [Next]_vars
      => DeadLettersRecorded'
    BY DeadLetterStep
<1> QED BY <1>1, InitDeadLetters, LeaseInvariant, SnapshotsCurrent, PTL DEF Spec

(* incident_dead_letters has a row for exactly the jobs that are dead      *)
(* letters, with the event of the job: fail_job writes the event of its    *)
(* snapshot, which is the row's because the worker still owns it.          *)
THEOREM DeadLettersAreRecorded == Spec => []DeadLettersRecorded
    BY DeadLetterInvariant, PTL

-----------------------------------------------------------------------------
(* Events and their jobs.                                                  *)
EventsBehindCount ==
    \A e \in EventIds : e > eventCount => events[e].state = "absent"

(* The outcome of an intake: only an admission stores an alert.            *)
Closes(e, state) ==
    /\ events[e].state = "open"
    /\ events' = [events EXCEPT ![e].state = state]
    /\ eventCount' = eventCount
    /\ state = "stored" => CoalesceAlert(e) \/ EnqueueAlert(e)

LEMMA EventSteps ==
    ASSUME [Next]_vars
    PROVE  \/ UNCHANGED <<events, eventCount>>
           \/ \E a \in Alerts : InsertEvent(a)
           \/ \E i \in Incidents : AppendEvent(i)
           \/ \E e \in EventIds : \E state \in {"stored", "rolled_back"} : Closes(e, state)
<1>1. CASE Intake
  <2>1. ASSUME NEW e \in EventIds, CoalesceAlert(e) \/ EnqueueAlert(e) PROVE Closes(e, "stored")
    BY <2>1 DEF CoalesceAlert, EnqueueAlert, Closes
  <2>2. ASSUME NEW e \in EventIds, RejectAlert(e) \/ AbortIntake(e) PROVE Closes(e, "rolled_back")
    BY <2>2 DEF RejectAlert, RejectedState, AbortIntake, Closes
  <2> QED BY <1>1, <2>1, <2>2 DEF Intake
<1>2. CASE Operator
    BY <1>2 DEF Operator, ReplayDeadLetter, EnqueueReprocessing
<1>3. ASSUME NEW w \in Workers, Worker(w) PROVE UNCHANGED <<events, eventCount>>
  <2>1. ASSUME NEW skip \in SUBSET JobIds, Claim(w, skip) PROVE UNCHANGED <<events, eventCount>>
    BY <2>1, Zenon DEF Claim
  <2>2. ASSUME NEW limit, Retry(w, limit) \/ DeadLetter(w, limit)
        PROVE  UNCHANGED <<events, eventCount>>
    BY <2>2, Zenon DEF Retry, DeadLetter
  <2>3. ASSUME Renew(w) \/ Complete(w) \/ LeaseLost(w) \/ Abandon(w)
        PROVE  UNCHANGED <<events, eventCount>>
    BY <2>3, Zenon DEF Renew, Complete, LeaseLost, Abandon
  <2> QED BY <1>3, <2>1, <2>2, <2>3 DEF Worker, Finish
<1>4. CASE Tick \/ StalledTick
    BY <1>4, Zenon DEF Tick, StalledTick, SecondPasses
<1>5. CASE UNCHANGED vars
    BY <1>5 DEF vars
<1> QED BY <1>1, <1>2, <1>3, <1>4, <1>5 DEF Next

(* A row keeps what it says, and a stored one is stored for good.          *)
LEMMA EventsKept ==
    ASSUME TypeOK, EventsBehindCount, [Next]_vars
    PROVE  /\ EventsBehindCount'
           /\ \A e \in EventIds : events[e].state # "absent" =>
                 /\ events'[e].state # "absent"
                 /\ events'[e].incident = events[e].incident
                 /\ events'[e].alert = events[e].alert
                 /\ events[e].state = "stored" => events'[e].state = "stored"
           /\ \A e \in EventIds :
                 /\ events'[e].state = "stored" /\ events'[e].alert # None
                 /\ events[e].state # "stored"
                 => CoalesceAlert(e) \/ EnqueueAlert(e)
<1> USE QueueAssumption
<1>0. eventCount \in Nat /\ \A e \in EventIds : events[e] \in EventRow
    BY DEF TypeOK
<1>1. CASE UNCHANGED <<events, eventCount>>
    BY <1>1 DEF EventsBehindCount
<1> DEFINE Adds(row) ==
          /\ row.state = "stored" => row.alert = None
          /\ eventCount < MaxEvents /\ eventCount' = eventCount + 1
          /\ events' = [events EXCEPT ![eventCount + 1] = row]
<1> DEFINE Added ==
          /\ EventsBehindCount'
          /\ \A e \in EventIds : events[e].state # "absent" => events'[e] = events[e]
          /\ \A e \in EventIds : events'[e].state = "stored" /\ events'[e].alert # None =>
                events'[e] = events[e]
<1>2. ASSUME NEW row, Adds(row) PROVE Added
    BY <1>0, <1>2 DEF EventsBehindCount, TypeOK, EventIds
<1> HIDE DEF Added
<1>3. ASSUME NEW a \in Alerts, InsertEvent(a) PROVE Added
  <2>1. Adds([state |-> "open", incident |-> AlertIncident[a], alert |-> a])
    BY <1>3 DEF InsertEvent
  <2> QED BY <1>2, <2>1
<1>4. ASSUME NEW i \in Incidents, AppendEvent(i) PROVE Added
  <2>1. Adds([state |-> "stored", incident |-> i, alert |-> None])
    BY <1>4 DEF AppendEvent
  <2> QED BY <1>2, <2>1
<1>5. ASSUME NEW d \in EventIds, NEW state \in {"stored", "rolled_back"}, Closes(d, state)
      PROVE  /\ EventsBehindCount'
             /\ \A e \in EventIds : events[e].state # "absent" =>
                   /\ events'[e].state # "absent"
                   /\ events'[e].incident = events[e].incident
                   /\ events'[e].alert = events[e].alert
                   /\ events[e].state = "stored" => events'[e].state = "stored"
             /\ \A e \in EventIds :
                   /\ events'[e].state = "stored" /\ events'[e].alert # None
                   /\ events[e].state # "stored"
                   => CoalesceAlert(e) \/ EnqueueAlert(e)
  <2>1. /\ \A e \in EventIds \ {d} : events'[e] = events[e]
        /\ events'[d].state = state /\ events'[d].incident = events[d].incident
        /\ events'[d].alert = events[d].alert
        /\ events[d].state = "open" /\ eventCount' = eventCount
    BY <1>0, <1>5 DEF Closes, TypeOK, EventRow
  <2>2. state = "stored" => CoalesceAlert(d) \/ EnqueueAlert(d)
    BY <1>5 DEF Closes
  <2> QED BY <2>1, <2>2 DEF EventsBehindCount
<1>6. CASE Added
    BY <1>6 DEF Added
<1> QED BY <1>1, <1>3, <1>4, <1>5, <1>6, EventSteps

(* No job disappears or changes its kind or its incident.                  *)
LEMMA JobsKept ==
    ASSUME LeaseInv, [Next]_vars, NEW j \in JobIds, jobs[j].status # "absent"
    PROVE  /\ jobs'[j].status # "absent"
           /\ jobs'[j].kind = jobs[j].kind
           /\ jobs'[j].incident = jobs[j].incident
<1>0. TypeOK /\ jobs[j] \in JobRow
    BY DEF LeaseInv, TypeOK
<1> DEFINE Kept == /\ jobs'[j].status # "absent"
                   /\ jobs'[j].kind = jobs[j].kind
                   /\ jobs'[j].incident = jobs[j].incident
<1>1. CASE Quiet
    BY <1>1 DEF Quiet, SameJob
<1>2. ASSUME NEW e \in EventIds, NEW k \in JobIds, Merges(e, k) PROVE Kept
  <2>1. /\ Merged(jobs[j], e).status = jobs[j].status
        /\ Merged(jobs[j], e).kind = jobs[j].kind
        /\ Merged(jobs[j], e).incident = jobs[j].incident
    BY <1>0 DEF Merged, JobRow
  <2> QED BY <1>2, <2>1 DEF Merges, Rest
<1>3. ASSUME NEW n \in JobIds, NEW kind, NEW i, NEW e, NEW salt, NEW wait,
             Inserts(n, NewJob(kind, i, e, salt, wait))
      PROVE  Kept
  <2>1. j # n
    BY <1>3 DEF Inserts
  <2> QED BY <1>3, <2>1 DEF Inserts, Rest
<1>4. ASSUME NEW w \in Workers, NEW k \in JobIds, Claims(w, k) PROVE Kept
    BY <1>0, <1>4 DEF Claims, ClaimJob, TypeOK, JobRow
<1>5. ASSUME NEW w \in Workers, Ends(w) PROVE Kept
    BY <1>5 DEF Ends, Rest
<1> QED BY <1>1, <1>2, <1>3, <1>4, <1>5, StepKinds

EventInv == LeaseInv /\ EventsBehindCount /\ EventAndJobTogether

LEMMA EventAndJobStep ==
    ASSUME EventInv, DeadLettersRecorded, [Next]_vars
    PROVE  EventAndJobTogether'
<1>0. TypeOK /\ LeaseInv /\ RowsLinked /\ EventsBehindCount /\ EventAndJobTogether
    BY DEF EventInv, LeaseInv
<1>1. ASSUME NEW e \in EventIds, events'[e].state = "stored", events'[e].alert # None
      PROVE  \E j \in JobIds : /\ jobs'[j].status # "absent"
                              /\ jobs'[j].kind = "analyze"
                              /\ jobs'[j].incident = events'[e].incident
  <2>1. CASE events[e].state = "stored"
    <3>1. events[e].incident = events'[e].incident /\ events[e].alert # None
      BY <1>0, <1>1, <2>1, EventsKept
    <3>2. PICK j \in JobIds : /\ jobs[j].status # "absent"
                              /\ jobs[j].kind = "analyze"
                              /\ jobs[j].incident = events[e].incident
      BY <1>0, <2>1, <3>1 DEF EventAndJobTogether
    <3> QED BY <1>0, <3>1, <3>2, JobsKept
  <2>2. CASE events[e].state # "stored"
    <3>1. events[e].state = "open" /\ events'[e].incident = events[e].incident
      BY <1>0, <1>1, <2>2, EventsKept DEF CoalesceAlert, EnqueueAlert
    <3>2. CASE CoalesceAlert(e)
      <4>1. PICK j \in JobIds : Merges(e, j)
        BY <1>0, <3>2, CoalesceMerges
      <4>2. /\ jobs[j].status # "absent" /\ jobs[j].kind = "analyze"
            /\ jobs[j].incident = events[e].incident
        BY <4>1 DEF Merges, PendingAnalyses
      <4> QED BY <1>0, <3>1, <4>2, JobsKept
    <3>3. CASE EnqueueAlert(e)
      <4>1. PICK n \in JobIds : jobs'[n] = NewJob("analyze", events[e].incident, e, 0, Coalesce)
        BY <1>0, <3>3, InsertAddsOne DEF EnqueueAlert
      <4> QED BY <3>1, <4>1 DEF NewJob
    <3> QED BY <1>0, <1>1, <2>2, <3>2, <3>3, EventsKept
  <2> QED BY <2>1, <2>2
<1> DEFINE Backed(e, i) == /\ e \in EventIds /\ events'[e].state = "stored"
                           /\ events'[e].incident = i
<1>2. \A e \in EventIds, i \in Incidents \cup {None} : e \in StoredEvents(i) => Backed(e, i)
    BY <1>0, EventsKept DEF StoredEvents
<1> HIDE DEF Backed
<1>3. ASSUME NEW j \in JobIds, jobs[j].status # "absent"
      PROVE  Backed(jobs[j].event, jobs[j].incident)
  <2>1. jobs[j].event \in StoredEvents(jobs[j].incident) /\ jobs[j].incident \in Incidents
    BY <1>0, <1>3 DEF EventAndJobTogether, RowsLinked
  <2> QED BY <1>2, <2>1 DEF StoredEvents
<1>4. ASSUME NEW j \in JobIds, jobs'[j].status # "absent"
      PROVE  Backed(jobs'[j].event, jobs'[j].incident)
  <2>0. ASSUME jobs'[j] = jobs[j] PROVE Backed(jobs'[j].event, jobs'[j].incident)
    BY <1>3, <1>4, <2>0
  <2>1. CASE Quiet
    BY <1>3, <1>4, <2>1 DEF Quiet, SameJob
  <2>2. ASSUME NEW e \in EventIds, NEW k \in JobIds, Merges(e, k)
        PROVE  Backed(jobs'[j].event, jobs'[j].incident)
    <3>1. /\ jobs'[k].event = e /\ jobs'[k].incident = events[e].incident
          /\ events'[e].state = "stored" /\ events'[e].incident = events[e].incident
      BY <1>0, <2>2 DEF Merges, Merged, PendingAnalyses, TypeOK, JobRow, EventRow
    <3>2. Backed(jobs'[k].event, jobs'[k].incident)
      BY <3>1 DEF Backed
    <3> QED BY <2>0, <2>2, <3>2 DEF Merges, Rest
  <2>3. ASSUME NEW n \in JobIds, NEW kind, NEW i, NEW e, NEW salt, NEW wait,
               Inserts(n, NewJob(kind, i, e, salt, wait)), Backed(e, i)
        PROVE  Backed(jobs'[j].event, jobs'[j].incident)
    <3>1. jobs'[n].event = e /\ jobs'[n].incident = i
      BY <2>3 DEF Inserts, NewJob
    <3> QED BY <2>0, <2>3, <3>1 DEF Inserts, Rest
  <2>4. ASSUME NEW e \in EventIds, EnqueueAlert(e) PROVE Backed(e, events[e].incident)
    BY <1>0, <2>4 DEF EnqueueAlert, Backed, TypeOK, EventRow
  <2>5. ASSUME NEW k \in JobIds, ReplayDeadLetter(k)
        PROVE  Backed(deadLetters[k], jobs[k].incident)
    <3>1. jobs[k].status # "absent" /\ deadLetters[k] = jobs[k].event
      BY <2>5 DEF ReplayDeadLetter, DeadLettersRecorded
    <3> QED BY <1>3, <3>1
  <2>6. ASSUME NEW i \in Incidents, NEW e \in StoredEvents(i) PROVE Backed(e, i)
    BY <1>2, <2>6 DEF StoredEvents
  <2>7. ASSUME NEW w \in Workers, NEW k \in JobIds, Claims(w, k)
        PROVE  Backed(jobs'[j].event, jobs'[j].incident)
    <3>1. /\ jobs[k].status # "absent" /\ Rest(k)
          /\ jobs'[k].event = jobs[k].event /\ jobs'[k].incident = jobs[k].incident
      BY <1>0, <2>7 DEF Claims, ClaimJob, Candidates, Rest, TypeOK, JobRow
    <3> QED BY <1>3, <2>0, <3>1 DEF Rest
  <2>8. ASSUME NEW w \in Workers, Ends(w)
        PROVE  Backed(jobs'[j].event, jobs'[j].incident)
    <3>1. working[w].job \in JobIds /\ jobs[working[w].job].status = "leased"
      BY <1>0, <2>8, OwnerHoldsJob DEF Ends
    <3> QED BY <1>3, <2>0, <2>8, <3>1 DEF Ends, Rest
  <2> QED BY <1>0, <2>1, <2>2, <2>3, <2>4, <2>5, <2>6, <2>7, <2>8, StepKinds
<1> QED BY <1>1, <1>4 DEF Backed, EventAndJobTogether, StoredEvents

LEMMA InitEventInv == Init => EventsBehindCount /\ EventAndJobTogether
    BY DEF Init, EventsBehindCount, EventAndJobTogether, AbsentEvent, AbsentJob

LEMMA EventInvariant == Spec => []EventInv
<1>1. /\ EventsBehindCount /\ EventAndJobTogether
      /\ LeaseInv /\ OwnerSnapshotCurrent /\ DeadLettersRecorded /\ [Next]_vars
      => EventsBehindCount' /\ EventAndJobTogether'
    BY EventAndJobStep, EventsKept DEF EventInv, LeaseInv
<1>2. EventInv <=> LeaseInv /\ EventsBehindCount /\ EventAndJobTogether
    BY DEF EventInv
<1> QED BY <1>1, <1>2, InitEventInv, DeadLetterInvariant, PTL DEF Spec

(* An alert that is stored has an analysis job of its incident, and every  *)
(* job runs a stored event of its own incident, also one made by a replay  *)
(* of a dead letter, whose event is the one the failed job had.            *)
THEOREM EventsAndJobsTogether == Spec => []EventAndJobTogether
<1>1. EventInv => EventAndJobTogether
    BY DEF EventInv
<1> QED BY <1>1, EventInvariant, PTL

-----------------------------------------------------------------------------
(* Debouncing.                                                             *)

(* A job somebody has claimed has an attempt, so its retries are no fresh  *)
(* jobs.                                                                   *)
AttemptsCounted == \A j \in JobIds : jobs[j].status = "leased" => jobs[j].attempts >= 1

Fresh(j) == jobs[j].status = "pending" /\ jobs[j].attempts = 0

(* What a step may do to a row that is pending without an attempt.         *)
LEMMA FreshRows ==
    ASSUME LeaseInv, AttemptsCounted, [Next]_vars, NEW j \in JobIds, Fresh(j)'
    PROVE  \/ /\ Fresh(j) /\ SameJob(j)
              /\ Timeless(j) \/ Aged(j)
           \/ \E e \in EventIds : Fresh(j) /\ Merges(e, j)
           \/ \E e \in EventIds :
                 /\ EnqueueAlert(e)
                 /\ Inserts(j, NewJob("analyze", events[e].incident, e, 0, Coalesce))
           \/ /\ jobs'[j].kind = "reprocess" /\ jobs'[j].wait = 0
<1>0. TypeOK /\ jobs[j] \in JobRow /\ jobs'[j].status = "pending" /\ jobs'[j].attempts = 0
    BY DEF LeaseInv, TypeOK, Fresh
<1>1. ASSUME jobs'[j] = jobs[j] PROVE Fresh(j) /\ SameJob(j) /\ Timeless(j)
    BY <1>0, <1>1 DEF Fresh, SameJob, Timeless
<1>2. CASE Quiet
    BY <1>0, <1>2 DEF Quiet, Fresh, SameJob
<1>3. ASSUME NEW e \in EventIds, NEW k \in JobIds, Merges(e, k)
      PROVE  (Fresh(j) /\ SameJob(j) /\ Timeless(j)) \/ (Fresh(j) /\ Merges(e, j))
  <2>1. CASE j = k
    <3>1. jobs[j].status = "pending" /\ jobs'[j].attempts = jobs[j].attempts
      BY <1>0, <1>3, <2>1 DEF Merges, Merged, PendingAnalyses, JobRow
    <3> QED BY <1>0, <1>3, <2>1, <3>1 DEF Fresh
  <2> QED BY <1>1, <1>3, <2>1 DEF Merges, Rest
<1>4. ASSUME NEW n \in JobIds, NEW i, NEW e, NEW salt,
             Inserts(n, NewJob("reprocess", i, e, salt, 0))
      PROVE  \/ Fresh(j) /\ SameJob(j) /\ Timeless(j)
             \/ jobs'[j].kind = "reprocess" /\ jobs'[j].wait = 0
    BY <1>1, <1>4 DEF Inserts, Rest, NewJob
<1>5. ASSUME NEW n \in JobIds, NEW job, Inserts(n, job), n # j
      PROVE  Fresh(j) /\ SameJob(j) /\ Timeless(j)
    BY <1>1, <1>5 DEF Inserts, Rest
<1>6. ASSUME NEW w \in Workers, NEW k \in JobIds, Claims(w, k)
      PROVE  Fresh(j) /\ SameJob(j) /\ Timeless(j)
  <2>1. Rest(k) /\ jobs'[k].status = "leased"
    BY <1>0, <1>6 DEF Claims, ClaimJob, Rest, TypeOK, JobRow
  <2> QED BY <1>0, <1>1, <2>1 DEF Rest
<1>7. ASSUME NEW w \in Workers, Ends(w) PROVE Fresh(j) /\ SameJob(j) /\ Timeless(j)
  <2> DEFINE k == working[w].job
  <2>1. /\ k \in JobIds /\ jobs[k].attempts >= 1
        /\ jobs'[k].attempts = jobs[k].attempts /\ Rest(k)
    BY <1>0, <1>7, OwnerHoldsJob DEF Ends, AttemptsCounted
  <2> QED BY <1>0, <1>1, <2>1 DEF Rest
<1> QED BY <1>2, <1>3, <1>4, <1>5, <1>6, <1>7, StepKinds

LEMMA AttemptsStep ==
    ASSUME LeaseInv, AttemptsCounted, [Next]_vars
    PROVE  AttemptsCounted'
<1>0. TypeOK
    BY DEF LeaseInv
<1> SUFFICES ASSUME NEW j \in JobIds, jobs'[j].status = "leased"
             PROVE  jobs'[j].attempts >= 1
    BY DEF AttemptsCounted
<1>1. ASSUME jobs'[j] = jobs[j] \/ SameJob(j) PROVE jobs'[j].attempts >= 1
    BY <1>1 DEF AttemptsCounted, SameJob
<1>2. CASE Quiet
    BY <1>1, <1>2 DEF Quiet
<1>3. ASSUME NEW e \in EventIds, NEW k \in JobIds, Merges(e, k) PROVE jobs'[j].attempts >= 1
  <2>1. jobs'[k].status = "pending"
    BY <1>0, <1>3 DEF Merges, Merged, PendingAnalyses, TypeOK, JobRow
  <2> QED BY <1>1, <1>3, <2>1 DEF Merges, Rest
<1>4. ASSUME NEW n \in JobIds, NEW kind, NEW i, NEW e, NEW salt, NEW wait,
             Inserts(n, NewJob(kind, i, e, salt, wait))
      PROVE  jobs'[j].attempts >= 1
  <2>1. jobs'[n].status = "pending"
    BY <1>4 DEF Inserts, NewJob
  <2> QED BY <1>1, <1>4, <2>1 DEF Inserts, Rest
<1>5. ASSUME NEW w \in Workers, NEW k \in JobIds, Claims(w, k) PROVE jobs'[j].attempts >= 1
  <2>1. /\ jobs'[k].attempts = CountUp(jobs[k].attempts, MaxCount)
        /\ jobs[k].attempts \in 0..MaxCount /\ Rest(k)
    BY <1>0, <1>5 DEF Claims, ClaimJob, Rest, TypeOK, JobRow
  <2>2. jobs'[k].attempts >= 1
    BY <2>1, QueueAssumption DEF CountUp
  <2> QED BY <1>1, <2>1, <2>2 DEF Rest
<1>6. ASSUME NEW w \in Workers, Ends(w) PROVE jobs'[j].attempts >= 1
    BY <1>1, <1>6 DEF Ends, Rest
<1> QED BY <1>2, <1>3, <1>4, <1>5, <1>6, StepKinds

LEMMA InitAttempts == Init => AttemptsCounted
    BY DEF Init, AbsentJob, AttemptsCounted

LEMMA AttemptsInvariant == Spec => [](LeaseInv /\ AttemptsCounted)
<1>1. AttemptsCounted /\ LeaseInv /\ [Next]_vars => AttemptsCounted'
    BY AttemptsStep
<1> QED BY <1>1, InitAttempts, LeaseInvariant, PTL DEF Spec

LEMMA DebounceStep ==
    ASSUME LeaseInv, AttemptsCounted, DebounceBounded, [Next]_vars
    PROVE  DebounceBounded'
<1> SUFFICES ASSUME NEW j \in JobIds, Fresh(j)'
             PROVE  jobs'[j].wait + jobs'[j].age <= CoalesceMax \/ jobs'[j].wait = 0
    BY DEF DebounceBounded, Fresh
<1> USE QueueAssumption
<1>0. TypeOK /\ jobs[j] \in JobRow /\ jobs[j].wait \in Nat /\ jobs[j].age \in 0..CoalesceMax
    BY DEF LeaseInv, TypeOK, JobRow
<1>1. Fresh(j) => jobs[j].wait + jobs[j].age <= CoalesceMax \/ jobs[j].wait = 0
    BY DEF DebounceBounded, Fresh
<1>2. CASE Fresh(j) /\ SameJob(j) /\ Timeless(j)
    BY <1>1, <1>2 DEF Timeless
<1>3. CASE Fresh(j) /\ SameJob(j) /\ Aged(j)
  <2>1. /\ jobs'[j].wait = IF jobs[j].wait > 0 THEN jobs[j].wait - 1 ELSE jobs[j].wait
        /\ jobs'[j].age = IF jobs[j].age < CoalesceMax THEN jobs[j].age + 1 ELSE jobs[j].age
    BY <1>3 DEF Aged, Sooner, CountUp
  <2> QED BY <1>0, <1>1, <1>3, <2>1
<1>4. ASSUME NEW e \in EventIds, Fresh(j), Merges(e, j)
      PROVE  jobs'[j].wait + jobs'[j].age <= CoalesceMax
  <2>1. jobs'[j].wait = DebounceLeft(jobs[j].age) /\ jobs'[j].age = jobs[j].age
    BY <1>0, <1>4 DEF Merges, Merged, JobRow
  <2> QED BY <1>0, <2>1 DEF DebounceLeft, Lesser
<1>5. ASSUME NEW e \in EventIds,
             Inserts(j, NewJob("analyze", events[e].incident, e, 0, Coalesce))
      PROVE  jobs'[j].wait + jobs'[j].age <= CoalesceMax
    BY <1>5 DEF Inserts, NewJob
<1> QED BY <1>2, <1>3, <1>4, <1>5, FreshRows

LEMMA InitDebounce == Init => DebounceBounded
    BY DEF Init, AbsentJob, DebounceBounded

(* However many alerts join a job, its first attempt is due at the latest  *)
(* INCIDENT_COALESCE_MAX_SECONDS after its creation.                       *)
THEOREM DebounceIsBounded == Spec => []DebounceBounded
<1>1. DebounceBounded /\ AttemptsCounted /\ LeaseInv /\ [Next]_vars => DebounceBounded'
    BY DebounceStep
<1> QED BY <1>1, InitDebounce, AttemptsInvariant, PTL DEF Spec

-----------------------------------------------------------------------------
(* Coalescing.                                                             *)

(* The SELECT of the coalescing decision finds a job when there is one.    *)
LEMMA FirstExists ==
    ASSUME NEW S \in SUBSET Nat, S # {}
    PROVE  \E m \in S : \A x \in S : m <= x
<1> DEFINE Less == {p \in Nat \X Nat : p[1] < p[2]}
<1>1. \A a, b \in Nat : a < b => <<a, b>> \in Less
    OBVIOUS
<1> HIDE DEF Less
<1>2. IsWellFoundedOn(Less, Nat)
    BY NatLessThanWellFounded DEF Less, OpToRel
<1>3. PICK m \in S : \A x \in S : ~(<<x, m>> \in Less)
    BY <1>2, WFMin
<1>4. ASSUME NEW x \in S PROVE m <= x
  <2>1. m \in Nat /\ x \in Nat
    OBVIOUS
  <2>2. ~(x < m)
    BY <1>1, <1>3, <2>1
  <2> QED BY <2>1, <2>2
<1> QED BY <1>4

LEMMA MergeableFound ==
    ASSUME NEW i, Mergeable(i) = {}
    PROVE  PendingAnalyses(i) = {}
<1>1. PendingAnalyses(i) \in SUBSET Nat
    BY DEF PendingAnalyses, JobIds
<1> QED BY <1>1, FirstExists DEF Mergeable

LEMMA FreshPendingStep ==
    ASSUME LeaseInv, AttemptsCounted, FreshPendingUnique, [Next]_vars
    PROVE  FreshPendingUnique'
<1>0. TypeOK
    BY DEF LeaseInv
<1> SUFFICES ASSUME NEW i \in Incidents, NEW j \in JobIds, NEW k \in JobIds,
                    Fresh(j)', Fresh(k)',
                    jobs'[j].incident = i, jobs'[k].incident = i,
                    jobs'[j].kind = "analyze", jobs'[k].kind = "analyze"
             PROVE  j = k
    BY DEF FreshPendingUnique, PendingAnalyses, Fresh
<1> DEFINE Was(n) == /\ Fresh(n) /\ jobs[n].incident = i /\ jobs[n].kind = "analyze"
           Adds(n) == /\ Inserts(n, jobs'[n]) /\ PendingAnalyses(i) = {}
<1>1. ASSUME NEW n \in JobIds, Fresh(n)', jobs'[n].incident = i, jobs'[n].kind = "analyze"
      PROVE  Was(n) \/ Adds(n)
  <2>1. CASE Fresh(n) /\ SameJob(n)
    BY <1>1, <2>1 DEF SameJob
  <2>2. ASSUME NEW e \in EventIds, Fresh(n), Merges(e, n) PROVE Was(n)
    <3>1. jobs[n] \in JobRow /\ jobs'[n] = Merged(jobs[n], e)
      BY <1>0, <2>2 DEF Merges, TypeOK
    <3>2. jobs'[n].incident = jobs[n].incident /\ jobs'[n].kind = jobs[n].kind
      BY <3>1 DEF Merged, JobRow
    <3> QED BY <1>1, <2>2, <3>2
  <2>3. ASSUME NEW e \in EventIds, EnqueueAlert(e),
               Inserts(n, NewJob("analyze", events[e].incident, e, 0, Coalesce))
        PROVE  Adds(n)
    <3>1. jobs'[n] = NewJob("analyze", events[e].incident, e, 0, Coalesce)
      BY <2>3 DEF Inserts
    <3>2. events[e].incident = i
      BY <1>1, <3>1 DEF NewJob
    <3>3. PendingAnalyses(i) = {}
      BY <2>3, <3>2, MergeableFound DEF EnqueueAlert
    <3> QED BY <2>3, <3>1, <3>3
  <2> HIDE DEF Was, Adds
  <2> QED BY <1>1, <2>1, <2>2, <2>3, FreshRows
<1>2. ASSUME NEW m \in JobIds, NEW n \in JobIds, Adds(m), Was(n) PROVE FALSE
    BY <1>2 DEF PendingAnalyses, Fresh
<1>3. ASSUME Adds(j), Adds(k) PROVE j = k
  <2>1. /\ jobs[j].status = "absent" /\ jobs[k].status = "absent" /\ Rest(j)
        /\ jobs'[k].status = "pending"
    BY <1>3 DEF Inserts, Fresh
  <2> QED BY <2>1 DEF Rest
<1>4. ASSUME Was(j), Was(k) PROVE j = k
    BY <1>4 DEF FreshPendingUnique, PendingAnalyses, Fresh
<1> HIDE DEF Was, Adds
<1> QED BY <1>1, <1>2, <1>3, <1>4

LEMMA InitFreshPending == Init => FreshPendingUnique
    BY DEF Init, AbsentJob, FreshPendingUnique, PendingAnalyses

(* A burst leaves one analysis job per incident that nobody has started,   *)
(* with any number of intakes waiting for the admission lock: a second one *)
(* finds the pending job of the first.                                     *)
THEOREM OneFreshPending == Spec => []FreshPendingUnique
<1>1. FreshPendingUnique /\ AttemptsCounted /\ LeaseInv /\ [Next]_vars => FreshPendingUnique'
    BY FreshPendingStep
<1> QED BY <1>1, InitFreshPending, AttemptsInvariant, PTL DEF Spec

-----------------------------------------------------------------------------
(* The newest alert.                                                       *)

(* With one intake at a time an alert that waits for its admission is the  *)
(* newest there is, so the job it joins carried none that is newer.        *)
OpenIsNewest ==
    \A e \in EventIds : events[e].state = "open" =>
       /\ events[e].alert # None
       /\ \A f \in EventIds : events[f].state # "absent" /\ events[f].alert # None => f <= e
AnalysesCarryAlerts ==
    \A j \in JobIds :
       jobs[j].status # "absent" /\ jobs[j].kind = "analyze" => events[jobs[j].event].alert # None
Carried ==
    \A e \in EventIds :
       events[e].state = "stored" /\ events[e].alert # None =>
          \E j \in JobIds : /\ jobs[j].status # "absent" /\ jobs[j].kind = "analyze"
                            /\ jobs[j].incident = events[e].incident
                            /\ jobs[j].event >= e

LEMMA OpenIsNewestStep ==
    ASSUME MaxIntakes = 1, EventInv, OpenIsNewest, [Next]_vars
    PROVE  OpenIsNewest'
<1>0. /\ TypeOK /\ EventsBehindCount /\ eventCount \in Nat
      /\ \A e \in EventIds : events[e] \in EventRow
      /\ EventIds \subseteq Nat
    BY DEF EventInv, LeaseInv, TypeOK, EventIds
<1>1. CASE UNCHANGED <<events, eventCount>>
    BY <1>1 DEF OpenIsNewest
<1>2. ASSUME NEW a \in Alerts, InsertEvent(a) PROVE OpenIsNewest'
  <2>1. OpenIntakes = {}
    <3>1. IsFiniteSet(OpenIntakes)
      <4>1. IsFiniteSet(EventIds)
        BY QueueAssumption, FS_Interval DEF EventIds
      <4> QED BY <4>1, FS_Subset DEF OpenIntakes
    <3>2. Cardinality(OpenIntakes) \in Nat /\ Cardinality(OpenIntakes) < 1
      BY <1>2, <3>1, FS_CardinalityType DEF InsertEvent
    <3> QED BY <3>1, <3>2, FS_EmptySet
  <2>2. /\ eventCount + 1 \in EventIds
        /\ \A e \in EventIds \ {eventCount + 1} : events'[e] = events[e]
    BY <1>0, <1>2, QueueAssumption DEF InsertEvent, TypeOK, EventIds
  <2>3. \A e \in EventIds : events[e].state # "absent" => e <= eventCount
    BY <1>0 DEF EventsBehindCount
  <2> SUFFICES ASSUME NEW e \in EventIds, NEW f \in EventIds,
                      events'[e].state = "open", events'[f].state # "absent"
               PROVE  events'[e].alert # None /\ f <= e
    BY DEF OpenIsNewest
  <2>4. e = eventCount + 1
    BY <2>1, <2>2 DEF OpenIntakes
  <2>5. events'[e].alert # None
    BY <1>0, <1>2, <2>2, <2>4, QueueAssumption DEF InsertEvent, TypeOK
  <2> QED BY <1>0, <2>2, <2>3, <2>4, <2>5
<1>3. ASSUME NEW i \in Incidents, AppendEvent(i) PROVE OpenIsNewest'
  <2>1. /\ \A e \in EventIds \ {eventCount + 1} : events'[e] = events[e]
        /\ eventCount + 1 \in EventIds
        /\ events'[eventCount + 1].state = "stored" /\ events'[eventCount + 1].alert = None
    BY <1>0, <1>3, QueueAssumption DEF AppendEvent, TypeOK, EventIds
  <2> QED BY <2>1 DEF OpenIsNewest
<1>4. ASSUME NEW d \in EventIds, NEW state \in {"stored", "rolled_back"}, Closes(d, state)
      PROVE  OpenIsNewest'
  <2>1. /\ \A e \in EventIds \ {d} : events'[e] = events[e]
        /\ events'[d].state = state /\ events'[d].alert = events[d].alert
        /\ events[d].state = "open"
    BY <1>0, <1>4 DEF Closes, TypeOK, EventRow
  <2> QED BY <2>1 DEF OpenIsNewest
<1> QED BY <1>1, <1>2, <1>3, <1>4, EventSteps

LEMMA AnalysesCarryStep ==
    ASSUME EventInv, OpenIsNewest, AnalysesCarryAlerts, [Next]_vars
    PROVE  AnalysesCarryAlerts'
<1>0. /\ LeaseInv /\ TypeOK /\ EventsBehindCount /\ EventAndJobTogether
      /\ \A e \in EventIds : events[e] \in EventRow
    BY DEF EventInv, LeaseInv, TypeOK
<1>1. ASSUME NEW e \in EventIds, events[e].state # "absent", events[e].alert # None
      PROVE  events'[e].alert # None
    BY <1>0, <1>1, EventsKept
<1> DEFINE Carries(j) == events'[jobs'[j].event].alert # None
<1> SUFFICES ASSUME NEW j \in JobIds, jobs'[j].status # "absent", jobs'[j].kind = "analyze"
             PROVE  Carries(j)
    BY DEF AnalysesCarryAlerts
<1>2. ASSUME jobs[j].status # "absent", jobs[j].kind = "analyze", jobs'[j].event = jobs[j].event
      PROVE  Carries(j)
  <2>1. /\ jobs[j].event \in EventIds /\ events[jobs[j].event].state = "stored"
        /\ events[jobs[j].event].alert # None
    BY <1>0, <1>2 DEF EventAndJobTogether, StoredEvents, AnalysesCarryAlerts
  <2> QED BY <1>1, <1>2, <2>1
<1>3. ASSUME NEW e \in EventIds, events[e].state = "open", jobs'[j].event = e
      PROVE  Carries(j)
    BY <1>1, <1>3 DEF OpenIsNewest
<1> HIDE DEF Carries
<1>4. ASSUME jobs'[j] = jobs[j] PROVE Carries(j)
    BY <1>2, <1>4
<1>5. CASE Quiet
    BY <1>2, <1>5 DEF Quiet, SameJob
<1>6. ASSUME NEW e \in EventIds, NEW k \in JobIds, Merges(e, k) PROVE Carries(j)
  <2>1. jobs'[k].event = e /\ events[e].state = "open"
    BY <1>0, <1>6 DEF Merges, Merged, TypeOK, JobRow
  <2> QED BY <1>3, <1>4, <1>6, <2>1 DEF Merges, Rest
<1>7. ASSUME NEW e \in EventIds, NEW n \in JobIds, EnqueueAlert(e),
             Inserts(n, NewJob("analyze", events[e].incident, e, 0, Coalesce))
      PROVE  Carries(j)
  <2>1. jobs'[n].event = e /\ events[e].state = "open"
    BY <1>7 DEF Inserts, NewJob, EnqueueAlert
  <2> QED BY <1>3, <1>4, <1>7, <2>1 DEF Inserts, Rest
<1>8. ASSUME NEW n \in JobIds, NEW i, NEW e, NEW salt,
             Inserts(n, NewJob("reprocess", i, e, salt, 0))
      PROVE  Carries(j)
  <2>1. jobs'[n].kind = "reprocess"
    BY <1>8 DEF Inserts, NewJob
  <2> QED BY <1>4, <1>8, <2>1 DEF Inserts, Rest
<1>9. ASSUME NEW w \in Workers, NEW k \in JobIds, Claims(w, k) PROVE Carries(j)
  <2>1. /\ jobs[k].status # "absent" /\ jobs'[k].kind = jobs[k].kind
        /\ jobs'[k].event = jobs[k].event /\ Rest(k)
    BY <1>0, <1>9 DEF Claims, ClaimJob, Candidates, Rest, TypeOK, JobRow
  <2> QED BY <1>2, <1>4, <2>1 DEF Rest
<1>10. ASSUME NEW w \in Workers, Ends(w) PROVE Carries(j)
  <2>1. working[w].job \in JobIds /\ jobs[working[w].job].status = "leased"
    BY <1>0, <1>10, OwnerHoldsJob DEF Ends
  <2> QED BY <1>2, <1>4, <1>10, <2>1 DEF Ends, Rest
<1> QED BY <1>0, <1>5, <1>6, <1>7, <1>8, <1>9, <1>10, StepKinds

LEMMA CarriedStep ==
    ASSUME EventInv, OpenIsNewest, AnalysesCarryAlerts, Carried, [Next]_vars
    PROVE  Carried'
<1>0. /\ LeaseInv /\ TypeOK /\ RowsLinked /\ EventsBehindCount /\ EventAndJobTogether
      /\ \A e \in EventIds : events[e] \in EventRow
      /\ \A j \in JobIds : jobs[j] \in JobRow
      /\ EventIds \subseteq Nat
    BY DEF EventInv, LeaseInv, TypeOK, EventIds
<1> DEFINE Carries(j, e) == /\ jobs'[j].status # "absent" /\ jobs'[j].kind = "analyze"
                            /\ jobs'[j].incident = events'[e].incident
                            /\ jobs'[j].event >= e
<1> SUFFICES ASSUME NEW e \in EventIds, events'[e].state = "stored", events'[e].alert # None
             PROVE  \E j \in JobIds : Carries(j, e)
    BY DEF Carried
(* A job never goes back to an older alert.                                *)
<1>1. ASSUME NEW j \in JobIds, jobs[j].status # "absent", jobs[j].kind = "analyze"
      PROVE  jobs'[j].event >= jobs[j].event
  <2>0. jobs[j].event \in EventIds /\ events[jobs[j].event].state = "stored"
    BY <1>0, <1>1 DEF EventAndJobTogether, StoredEvents
  <2>1. ASSUME jobs'[j].event = jobs[j].event PROVE jobs'[j].event >= jobs[j].event
    BY <1>0, <2>0, <2>1
  <2>2. CASE Quiet
    BY <2>1, <2>2 DEF Quiet, SameJob
  <2>3. ASSUME NEW d \in EventIds, NEW k \in JobIds, Merges(d, k)
        PROVE  jobs'[j].event >= jobs[j].event
    <3>1. CASE k = j
      <4>1. jobs'[j].event = d /\ events[d].state = "open"
        BY <1>0, <2>3, <3>1 DEF Merges, Merged, JobRow
      <4>2. jobs[j].event <= d
        BY <1>1, <2>0, <4>1 DEF OpenIsNewest, AnalysesCarryAlerts
      <4> QED BY <1>0, <2>0, <4>1, <4>2
    <3> QED BY <2>1, <2>3, <3>1 DEF Merges, Rest
  <2>4. ASSUME NEW n \in JobIds, NEW job, Inserts(n, job) PROVE jobs'[j].event >= jobs[j].event
    <3>1. n # j
      BY <1>1, <2>4 DEF Inserts
    <3> QED BY <2>1, <2>4, <3>1 DEF Inserts, Rest
  <2>5. ASSUME NEW w \in Workers, NEW k \in JobIds, Claims(w, k)
        PROVE  jobs'[j].event >= jobs[j].event
    <3>1. jobs'[k].event = jobs[k].event /\ Rest(k)
      BY <1>0, <2>5 DEF Claims, ClaimJob, Rest, TypeOK, JobRow
    <3> QED BY <2>1, <3>1 DEF Rest
  <2>6. ASSUME NEW w \in Workers, Ends(w) PROVE jobs'[j].event >= jobs[j].event
    BY <2>1, <2>6 DEF Ends, Rest
  <2> QED BY <1>0, <2>2, <2>3, <2>4, <2>5, <2>6, StepKinds
<1>2. CASE events[e].state = "stored"
  <2>1. events[e].incident = events'[e].incident /\ events[e].alert # None
    BY <1>0, <1>2, EventsKept
  <2>2. PICK j \in JobIds : /\ jobs[j].status # "absent" /\ jobs[j].kind = "analyze"
                            /\ jobs[j].incident = events[e].incident
                            /\ jobs[j].event >= e
    BY <1>2, <2>1 DEF Carried
  <2>3. jobs'[j].event >= jobs[j].event
    BY <1>1, <2>2
  <2>4. jobs[j].event \in Nat /\ jobs'[j].event \in Nat /\ e \in Nat
    <3>1. TypeOK'
      BY <1>0, TypeOKStep
    <3>2. jobs'[j] \in JobRow /\ jobs[j] \in JobRow
      BY <1>0, <3>1 DEF TypeOK
    <3>3. jobs'[j].event \in EventIds \cup {0} /\ jobs[j].event \in EventIds \cup {0}
      BY <3>2 DEF JobRow
    <3> QED BY <3>3, QueueAssumption DEF EventIds
  <2>5. Carries(j, e)
    <3>1. /\ jobs'[j].status # "absent" /\ jobs'[j].kind = jobs[j].kind
          /\ jobs'[j].incident = jobs[j].incident
      BY <1>0, <2>2, JobsKept
    <3>2. jobs'[j].event >= e
      BY <2>2, <2>3, <2>4
    <3> QED BY <2>1, <2>2, <3>1, <3>2
  <2> QED BY <2>5
<1>3. CASE events[e].state # "stored"
  <2>1. events'[e].incident = events[e].incident
    BY <1>0, <1>3, EventsKept DEF CoalesceAlert, EnqueueAlert
  <2>2. CASE CoalesceAlert(e)
    <3>1. PICK j \in JobIds : Merges(e, j)
      BY <1>0, <2>2, CoalesceMerges
    <3>2. /\ jobs'[j].status = "pending" /\ jobs'[j].kind = "analyze"
          /\ jobs'[j].incident = events[e].incident /\ jobs'[j].event = e
      BY <1>0, <3>1 DEF Merges, Merged, PendingAnalyses, JobRow
    <3> QED BY <1>0, <2>1, <3>2
  <2>3. CASE EnqueueAlert(e)
    <3>1. PICK n \in JobIds : jobs'[n] = NewJob("analyze", events[e].incident, e, 0, Coalesce)
      BY <1>0, <2>3, InsertAddsOne DEF EnqueueAlert
    <3> QED BY <1>0, <2>1, <3>1 DEF NewJob
  <2> QED BY <1>0, <1>3, <2>2, <2>3, EventsKept
<1> QED BY <1>2, <1>3

LEMMA InitNewest == Init => OpenIsNewest /\ AnalysesCarryAlerts /\ Carried
    BY DEF Init, AbsentEvent, AbsentJob, OpenIsNewest, AnalysesCarryAlerts, Carried

(* With one intake at a time (one API process) no alert is lost in a       *)
(* merge: an analysis job of the incident carries it or a newer event.     *)
THEOREM NewestIsQueued ==
    ASSUME MaxIntakes = 1
    PROVE  Spec => []NewestAlertQueued
<1>1. /\ OpenIsNewest /\ AnalysesCarryAlerts /\ Carried /\ EventInv /\ [Next]_vars
      => OpenIsNewest' /\ AnalysesCarryAlerts' /\ Carried'
    BY OpenIsNewestStep, AnalysesCarryStep, CarriedStep
<1>2. Carried => NewestAlertQueued
    BY DEF Carried, NewestAlertQueued
<1> QED BY <1>1, <1>2, InitNewest, EventInvariant, PTL DEF Spec

-----------------------------------------------------------------------------
(* Who finishes a job.                                                     *)

(* A job leaves the state leased only by the worker its row names, which   *)
(* lets go of it in the same transaction (complete_job, fail_job): a       *)
(* reclaim changes the name first, so the worker that lost it cannot.      *)
THEOREM OwnersFinish == Spec => OnlyOwnerFinishes
<1> DEFINE OnlyOwner ==
        \A j \in JobIds :
          jobs[j].status = "leased" /\ jobs'[j].status # "leased" =>
             \E w \in Workers : /\ jobs[j].worker = w
                                /\ working[w].job = j
                                /\ working'[w] = Idle
<1>1. ASSUME LeaseInv, [Next]_vars PROVE OnlyOwner
  <2>0. TypeOK
    BY <1>1 DEF LeaseInv
  <2> SUFFICES ASSUME NEW j \in JobIds, jobs[j].status = "leased", jobs'[j].status # "leased"
               PROVE  \E w \in Workers : /\ jobs[j].worker = w
                                         /\ working[w].job = j
                                         /\ working'[w] = Idle
    OBVIOUS
  <2>1. ~Quiet
    BY DEF Quiet, SameJob
  <2>2. ASSUME NEW e \in EventIds, NEW k \in JobIds, Merges(e, k) PROVE FALSE
    BY <2>2 DEF Merges, PendingAnalyses, Rest
  <2>3. ASSUME NEW n \in JobIds, NEW job, Inserts(n, job) PROVE FALSE
    BY <2>3 DEF Inserts, Rest
  <2>4. ASSUME NEW w \in Workers, NEW k \in JobIds, Claims(w, k) PROVE FALSE
    <3>1. jobs'[k].status = "leased" /\ Rest(k)
      BY <2>0, <2>4 DEF Claims, ClaimJob, Rest, TypeOK, JobRow
    <3> QED BY <3>1 DEF Rest
  <2>5. ASSUME NEW w \in Workers, Ends(w)
        PROVE  jobs[j].worker = w /\ working[w].job = j /\ working'[w] = Idle
    <3>1. working[w].job = j
      BY <2>5 DEF Ends, Rest
    <3> QED BY <2>0, <2>5, <3>1, OwnerHoldsJob DEF Ends, TypeOK
  <2> QED BY <1>1, <2>1, <2>2, <2>3, <2>4, <2>5, StepKinds
<1>2. LeaseInv /\ [Next]_vars => [OnlyOwner]_vars
    BY <1>1
<1> QED BY <1>2, LeaseInvariant, PTL DEF Spec, OnlyOwnerFinishes

-----------------------------------------------------------------------------
(* The tables implement the turns.  What a step does to a row is mapped to *)
(* what it does to the job's turn, first for one row, then per action.     *)
Who(j) == IF Held(j) THEN jobs[j].worker ELSE None

(* Nobody has a turn on a job of j's incident.                             *)
NoTurn(j) == \A k \in JobIds : jobs[k].incident = jobs[j].incident => ~Held(k)

LEMMA InitTurns == Init => Turns!Init
    BY DEF Init, Turns!Init, AbsentJob, Held

LEMMA TurnsKept ==
    ASSUME \A j \in JobIds : /\ jobs'[j].status = jobs[j].status
                             /\ jobs'[j].incident = jobs[j].incident
                             /\ Who(j)' = Who(j)
    PROVE  UNCHANGED Turns!vars
    BY DEF Turns!vars, Who

LEMMA TurnBegins ==
    ASSUME NEW j \in JobIds, NEW w \in Workers, Rest(j), NoTurn(j),
           jobs[j].status \in {"pending", "leased"},
           jobs'[j].status = "leased", jobs'[j].lease # Expired,
           jobs'[j].worker = w, jobs'[j].incident = jobs[j].incident
    PROVE  Turns!Begin(j, w)
    BY DEF Turns!Begin, Turns!Unfinished, Rest, NoTurn, Held

LEMMA TurnEnds ==
    ASSUME NEW j \in JobIds, Rest(j), jobs[j].status = "leased",
           NEW outcome \in {"pending", "completed", "dead_letter"},
           jobs'[j].status = outcome, jobs'[j].incident = jobs[j].incident
    PROVE  Turns!End(j, outcome)
    BY DEF Turns!End, Rest, Held

LEMMA JobAdmitted ==
    ASSUME NEW n \in JobIds, NEW i \in Incidents, Rest(n), HasCapacity,
           jobs[n].status = "absent",
           jobs'[n].status = "pending", jobs'[n].incident = i
    PROVE  Turns!Admit(n, i)
<1>1. Turns!Unfinished = ActiveJobs
    BY DEF Turns!Unfinished, ActiveJobs, Active
<1>2. Turns!Cardinality(ActiveJobs) = Cardinality(ActiveJobs)
    BY Zenon DEF Turns!Cardinality, Cardinality
<1>3. Turns!Cardinality(Turns!Unfinished) < MaxPending
    BY <1>1, <1>2, ActiveFinite DEF HasCapacity
<1> QED BY <1>3 DEF Turns!Admit, Rest, Held

(* Seconds end turns and nothing else.                                     *)
LEMMA TurnsRunOut ==
    ASSUME TypeOK, SecondPasses
    PROVE  Turns!Next
<1>1. ASSUME NEW j \in JobIds
      PROVE  /\ jobs'[j].status = jobs[j].status
             /\ jobs'[j].incident = jobs[j].incident
             /\ jobs'[j].worker = jobs[j].worker
             /\ jobs'[j].lease = Shorter(jobs[j].lease)
  <2> DEFINE wait == Sooner(jobs[j].wait)
             age == CountUp(jobs[j].age, CoalesceMax)
             lease == Shorter(jobs[j].lease)
  <2>1. jobs'[j] = [jobs[j] EXCEPT !.wait = wait, !.age = age, !.lease = lease]
    BY Zenon DEF SecondPasses
  <2> HIDE DEF wait, age, lease
  <2>2. /\ jobs'[j].status = jobs[j].status
        /\ jobs'[j].incident = jobs[j].incident
        /\ jobs'[j].worker = jobs[j].worker
        /\ jobs'[j].lease = lease
    BY <2>1 DEF TypeOK, JobRow
  <2> QED BY <2>2 DEF lease
<1>2. \A j \in JobIds : Shorter(jobs[j].lease) # Expired => jobs[j].lease # Expired
    BY DEF Shorter, Expired
<1>3. \A j \in JobIds : Who(j)' \in {Who(j), None}
    BY <1>1, <1>2 DEF Who, Held
<1>4. \A j \in JobIds : Who(j)' \in Workers \cup {None}
    BY <1>1 DEF TypeOK, JobRow, Who
<1>5. Turns!RunOut
    BY <1>1, <1>3, <1>4 DEF Turns!RunOut, Who
<1> QED BY <1>5 DEF Turns!Next

(* The lock row of the incident names the job whose turn it is.            *)
LEMMA HeldIsLocked ==
    ASSUME LeaseInv, NEW j \in JobIds, Held(j)
    PROVE  /\ incidentLock[jobs[j].incident].job = j
           /\ incidentLock[jobs[j].incident].lease # Expired
<1>1. incidentLock[jobs[j].incident] =
         [job |-> j, worker |-> jobs[j].worker, lease |-> jobs[j].lease]
    BY DEF LeaseInv, LockMatchesLease, Held
<1>2. jobs[j].lease # Expired
    BY DEF Held
<1> QED BY <1>1, <1>2

(* A claim meets no turn: the lock row of the incident would say so.       *)
LEMMA ClaimTakesTurn ==
    ASSUME LeaseInv, NEW w \in Workers, NEW skip \in SUBSET JobIds, Claim(w, skip)
    PROVE  Turns!Next
<1>1. PICK j \in JobIds : ClaimJob(w, j)
    BY ClaimTakesOne DEF LeaseInv
<1>2. jobs[j] \in JobRow /\ jobs[j].status \in {"pending", "leased"}
    BY <1>1 DEF ClaimJob, Candidates, LeaseInv, TypeOK
<1>3. NoTurn(j)
  <2>1. incidentLock[jobs[j].incident].lease = Expired
    BY <1>1 DEF ClaimJob, IncidentFree
  <2> QED BY <2>1, HeldIsLocked DEF NoTurn
<1>4. /\ Rest(j) /\ jobs'[j].status = "leased" /\ jobs'[j].worker = w
      /\ jobs'[j].lease # Expired /\ jobs'[j].incident = jobs[j].incident
    BY <1>1, <1>2, QueueAssumption DEF ClaimJob, Rest, LeaseInv, TypeOK, JobRow, Expired
<1>5. Turns!Begin(j, w)
    BY <1>2, <1>3, <1>4, TurnBegins
<1> QED BY <1>5 DEF Turns!Next

(* A renewal keeps the worker's turn, or starts one on a lease that ran    *)
(* out: while the lock row names the job, no other job of the incident has *)
(* a turn.                                                                 *)
LEMMA RenewalKeepsTurn ==
    ASSUME LeaseInv, NEW w \in Workers, Renew(w)
    PROVE  Turns!Next \/ UNCHANGED Turns!vars
<1> DEFINE j == working[w].job
<1>1. j \in JobIds /\ jobs[j] \in JobRow /\ jobs[j].status = "leased" /\ jobs[j].worker = w
    BY OwnerHoldsJob DEF Renew, Renewable, LeaseInv
<1>2. incidentLock[jobs[j].incident].job = j
    BY DEF Renew, Renewable, OwnsLock, LockedBy
<1>3. /\ Rest(j) /\ jobs'[j].status = "leased" /\ jobs'[j].worker = w
      /\ jobs'[j].lease # Expired /\ jobs'[j].incident = jobs[j].incident
    BY <1>1, QueueAssumption DEF Renew, Rest, LeaseInv, TypeOK, JobRow, Expired
<1>4. CASE Held(j)
    BY <1>1, <1>3, <1>4, TurnsKept DEF Rest, Who, Held
<1>5. CASE ~Held(j)
  <2>1. NoTurn(j)
    BY <1>2, <1>5, HeldIsLocked DEF NoTurn
  <2>2. Turns!Begin(j, w)
    BY <1>1, <1>3, <2>1, TurnBegins
  <2> QED BY <1>1, <2>2 DEF Turns!Next
<1> QED BY <1>4, <1>5

LEMMA EndEndsTurn ==
    ASSUME NEW w \in Workers, NEW j, EndLease(w, j)
    PROVE  Turns!Next
<1>1. PICK outcome \in {"pending", "completed", "dead_letter"} : jobs'[j].status = outcome
    BY DEF EndLease
<1>2. j \in JobIds /\ Turns!End(j, outcome)
    BY <1>1, TurnEnds DEF EndLease, Rest
<1> QED BY <1>2 DEF Turns!Next

LEMMA InsertAdmits ==
    ASSUME TypeOK, RowsLinked, HasCapacity, NEW i \in Incidents, NEW job, Insert(job),
           job.status = "pending", job.incident = i
    PROVE  Turns!Next
<1>1. PICK n \in JobIds : jobs[n].status = "absent" /\ jobs'[n] = job /\ Rest(n)
    BY InsertAddsOne DEF Rest
<1>2. Turns!Admit(n, i)
    BY <1>1, JobAdmitted
<1> QED BY <1>2 DEF Turns!Next

LEMMA TurnsStep ==
    ASSUME LeaseInv, [Next]_vars
    PROVE  Turns!Next \/ UNCHANGED Turns!vars
<1>0. TypeOK /\ RowsLinked
    BY DEF LeaseInv
<1>1. ASSUME jobs' = jobs PROVE UNCHANGED Turns!vars
    BY <1>1, TurnsKept DEF Who, Held
<1>2. ASSUME NEW e \in EventIds, CoalesceAlert(e) PROVE UNCHANGED Turns!vars
    BY <1>0, <1>2, CoalesceKeepsColumns, TurnsKept DEF LeaseColumnsKept, Who, Held
<1>3. ASSUME NEW e \in EventIds, EnqueueAlert(e) PROVE Turns!Next
  <2>1. events[e].incident \in Incidents
    BY <1>0, <1>3 DEF EnqueueAlert, RowsLinked
  <2> QED BY <1>0, <1>3, <2>1, InsertAdmits DEF EnqueueAlert, NewJob
<1>4. ASSUME NEW j \in JobIds, ReplayDeadLetter(j) PROVE Turns!Next
  <2>1. jobs[j].incident \in Incidents
    BY <1>0, <1>4 DEF ReplayDeadLetter, RowsLinked
  <2> QED BY <1>0, <1>4, <2>1, InsertAdmits DEF ReplayDeadLetter, NewJob
<1>5. ASSUME NEW i \in Incidents, NEW c \in Contexts, EnqueueReprocessing(i, c)
      PROVE  Turns!Next
    BY <1>0, <1>5, InsertAdmits DEF EnqueueReprocessing, NewJob
<1>6. CASE Intake
    BY <1>1, <1>2, <1>3, <1>6 DEF Intake, InsertEvent, RejectAlert, AbortIntake, AppendEvent
<1>7. CASE Operator
    BY <1>4, <1>5, <1>7 DEF Operator
<1>8. ASSUME NEW w \in Workers, Worker(w) PROVE Turns!Next \/ UNCHANGED Turns!vars
  <2>1. CASE LeaseLost(w) \/ Abandon(w)
    BY <1>1, <2>1 DEF LeaseLost, Abandon
  <2>2. CASE \/ Complete(w)
             \/ \E limit \in {1, MaxAttempts} : Retry(w, limit) \/ DeadLetter(w, limit)
    BY <1>0, <2>2, FinishEndsLease, EndEndsTurn
  <2> QED BY <1>8, <2>1, <2>2, ClaimTakesTurn, RenewalKeepsTurn DEF Worker, Finish
<1>9. CASE Tick \/ StalledTick
    BY <1>0, <1>9, TurnsRunOut DEF Tick, StalledTick
<1>10. CASE UNCHANGED vars
    BY <1>1, <1>10 DEF vars
<1> QED BY <1>6, <1>7, <1>8, <1>9, <1>10 DEF Next

(* incident_jobs and incident_job_locks implement the turns of JobTurns:   *)
(* the claim, the renewals, complete_job, fail_job, the reclaim of a lease *)
(* that ran out and every route that inserts a job, in any order.          *)
THEOREM TablesImplementTurns == Spec => TurnSpec
<1>1. Init => Turns!Init
    BY InitTurns
<1>2. LeaseInv /\ [Next]_vars => [Turns!Next]_(Turns!vars)
    BY TurnsStep
<1> QED BY <1>1, <1>2, LeaseInvariant, PTL DEF Spec, TurnSpec, Turns!Spec
=============================================================================
