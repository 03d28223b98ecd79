--------------------------- MODULE RevisionStore ---------------------------
(***************************************************************************)
(* Revisions, analysis snapshots and evidence versions of                  *)
(* webhook/incident_store.py, as workers (webhook/job_handler.py,          *)
(* webhook/state_sync.py) and reviewers (webhook/api.py) use them.         *)
(*                                                                         *)
(* A worker may start any job that is not completed, while another still   *)
(* runs it or another job of the incident: leases run out under stalled    *)
(* workers (module JobQueue).  The statements of a transaction that read   *)
(* what its later ones rely on are steps of their own; its writes become   *)
(* visible together, at the commit, or not at all.                         *)
(***************************************************************************)
EXTENDS Integers, Sequences, FiniteSets

CONSTANTS
    Incidents, Jobs, Workers,
    JobIncident,    \* the incident of each job
    Resolving,      \* jobs that carry a "resolved" event
    Evidence,       \* evidence ids
    Contents,       \* redacted contents of a piece of evidence
    None,
    MaxLegacy,      \* revisions an incident may have from before the head table
    MaxRevisions, MaxRuns, MaxReviews   \* bounds, see README

ASSUME RevisionAssumption ==
    /\ JobIncident \in [Jobs -> Incidents] /\ Resolving \subseteq Jobs
    /\ None \notin Contents /\ None \notin Jobs /\ None \notin Nat
    /\ None \notin [previous : Nat \cup {None}, job : Jobs \cup {None}]
    /\ MaxRevisions \in Nat \ {0} /\ MaxRuns \in Nat /\ MaxReviews \in Nat
    /\ MaxLegacy \in 0..MaxRevisions

VARIABLES
    heads,       \* incident_revision_heads.current_revision, 0 for no row
    revisions,   \* incident_revisions, None for no row
    analyses,    \* incident_analysis_revisions and incident_analysis_evidence
    records,     \* incident_evidence_records: the versions of each evidence
    pending,     \* what the pending_reviews row shows of an analysis
    approvals,   \* approved rows of incident_review_decisions
    completed,   \* jobs the queue will not hand out again
    run,         \* what each worker is doing
    runsLeft, reviewsLeft   \* job runs and reviews still to come

tables == <<heads, revisions, analyses, records>>
vars == <<tables, pending, approvals, completed, run, runsLeft, reviewsLeft>>

-----------------------------------------------------------------------------
Revisions == 1..MaxRevisions
State == [Evidence -> Contents \cup {None}]     \* the evidence an analysis found
Members(s) == {e \in Evidence : s[e] # None}

Revision(previous, job) == [previous |-> previous, job |-> job]
(* A snapshot: parent, evidence_ids, the state its candidates were         *)
(* computed from, and the evidence record linked for each member.          *)
Analysis(previous, s, links) ==
    [previous |-> previous, members |-> Members(s), state |-> s, links |-> links]
EvidenceRecord(content, revision) == [content |-> content, first |-> revision]

Blank == [e \in Evidence |-> None]
NoLinks == [e \in Evidence |-> 0]
Idle == [pc |-> "idle", job |-> None, revision |-> 0, base |-> 0,
         state |-> Blank, latest |-> NoLinks]
NoDiff == [base |-> 0, added |-> {}, changed |-> {}, removed |-> {}]
NoPending == [open |-> FALSE, revision |-> 0, state |-> Blank, diff |-> NoDiff]

Bigger(a, b) == IF a > b THEN a ELSE b
Used(i) == {r \in Revisions : revisions[i][r] # None}
LastUsed(i) == IF Used(i) = {} THEN 0 ELSE CHOOSE r \in Used(i) : \A s \in Used(i) : s <= r

IncidentOf(w) == JobIncident[run[w].job]
At(w, pc) == run[w].pc = pc
Goes(w, pc) == run' = [run EXCEPT ![w].pc = pc]
Stops(w) == run' = [run EXCEPT ![w] = Idle]

-----------------------------------------------------------------------------
(* create_revision.                                                        *)

StartRun(w, j) ==
    /\ At(w, "idle")
    /\ j \notin completed
    /\ runsLeft > 0 /\ runsLeft' = runsLeft - 1
    /\ run' = [run EXCEPT ![w] = [Idle EXCEPT !.pc = "lock", !.job = j]]
    /\ UNCHANGED <<tables, pending, approvals, completed, reviewsLeft>>

(* The head row is locked (FOR UPDATE) until the transaction ends.         *)
Allocating == {"allocate", "insert"}
HeadFree_Unlocked(i) == TRUE
HeadFree(i) == \A w \in Workers : run[w].pc \in Allocating => IncidentOf(w) # i

LockHead(w) ==
    /\ At(w, "lock")
    /\ HeadFree(IncidentOf(w))
    /\ run' = [run EXCEPT ![w].pc = "allocate", ![w].base = heads[IncidentOf(w)]]
    /\ UNCHANGED <<tables, pending, approvals, completed, runsLeft, reviewsLeft>>

(* The revision a job already has; job_id is unique over all incidents.    *)
RevisionsOf_JobNotStored(j) == {}
RevisionsOf(j) == {r \in Revisions : /\ revisions[JobIncident[j]][r] # None
                                     /\ revisions[JobIncident[j]][r].job = j}
WithRevision(w, r) ==
    [Idle EXCEPT !.pc = "analyze", !.job = run[w].job, !.revision = r]

AllocateAgain(w) ==
    /\ At(w, "allocate")
    /\ \E r \in RevisionsOf(run[w].job) :
          run' = [run EXCEPT ![w] = WithRevision(w, r)]
    /\ UNCHANGED <<tables, pending, approvals, completed, runsLeft, reviewsLeft>>

(* The head row may be younger than the revisions (backfill).              *)
Backfilled_HeadOnly(i, head) == head
Backfilled(i, head) == Bigger(head, LastUsed(i))

Allocate(w) ==
    /\ At(w, "allocate")
    /\ RevisionsOf(run[w].job) = {}
    /\ Backfilled(IncidentOf(w), run[w].base) < MaxRevisions
    /\ run' = [run EXCEPT ![w].pc = "insert",
                          ![w].base = Backfilled(IncidentOf(w), run[w].base)]
    /\ UNCHANGED <<tables, pending, approvals, completed, runsLeft, reviewsLeft>>

(* PRIMARY KEY (incident_id, revision), UNIQUE (job_id).                   *)
RevisionFree(w) == /\ revisions[IncidentOf(w)][run[w].base + 1] = None
                   /\ RevisionsOf(run[w].job) = {}

Previous(base) == IF base = 0 THEN None ELSE base

InsertRevision(w) ==
    LET i == IncidentOf(w)
        base == run[w].base
    IN  /\ At(w, "insert")
        /\ RevisionFree(w)
        /\ revisions' = [revisions EXCEPT ![i][base + 1] =
                            Revision(Previous(base), run[w].job)]
        /\ heads' = [heads EXCEPT ![i] = base + 1]
        /\ run' = [run EXCEPT ![w] = WithRevision(w, base + 1)]
        /\ UNCHANGED <<analyses, records, pending, approvals, completed, runsLeft,
                       reviewsLeft>>

-----------------------------------------------------------------------------
(* The rest of run_incident_job.                                           *)

(* A resolution is not analysed.                                           *)
Resolved(w) ==
    /\ At(w, "analyze")
    /\ run[w].job \in Resolving
    /\ Goes(w, "done")
    /\ UNCHANGED <<tables, pending, approvals, completed, runsLeft, reviewsLeft>>

(* The graph runs anew at every attempt: it finds what the sources hold now.*)
Analyze(w, s) ==
    /\ At(w, "analyze")
    /\ run[w].job \notin Resolving
    /\ run' = [run EXCEPT ![w].pc = "snapshot", ![w].state = s]
    /\ UNCHANGED <<tables, pending, approvals, completed, runsLeft, reviewsLeft>>

-----------------------------------------------------------------------------
(* record_analysis_revision: reads, then writes.  A locking read of a row  *)
(* that does not exist locks nothing at READ-COMMITTED, and one that waited*)
(* for the latest version returns it although a later one has come: the    *)
(* unique keys decide.                                                     *)

Snapshot_Upserted(w) == None
Snapshot(w) == analyses[IncidentOf(w)][run[w].revision]

ReadBack(w) ==
    /\ At(w, "snapshot")
    /\ Snapshot(w) # None
    /\ Goes(w, "diff")
    /\ UNCHANGED <<tables, pending, approvals, completed, runsLeft, reviewsLeft>>

ReadLatest(w) ==
    /\ At(w, "snapshot")
    /\ Snapshot(w) = None
    /\ run' = [run EXCEPT ![w].pc = "write",
                  ![w].latest = [e \in Evidence |-> Len(records[IncidentOf(w)][e])]]
    /\ UNCHANGED <<tables, pending, approvals, completed, runsLeft, reviewsLeft>>

(* The parent is the allocated one, whichever analysis finished first.     *)
Parent_LatestAnalysis(i, r) ==
    LET earlier == {p \in 1..(r - 1) : analyses[i][p] # None}
    IN  IF earlier = {} THEN None ELSE CHOOSE p \in earlier : \A q \in earlier : q <= p
Parent(i, r) == revisions[i][r].previous

(* Evidence equal to its latest version is linked, other content becomes   *)
(* the next version.                                                       *)
Same_ById(i, e, version, content) == version > 0
Same(i, e, version, content) ==
    version > 0 /\ records[i][e][version].content = content
NewEvidence(w) ==
    {e \in Members(run[w].state) :
        ~Same(IncidentOf(w), e, run[w].latest[e], run[w].state[e])}

(* UNIQUE (incident, evidence, version) and (incident, evidence, content). *)
ContentsOf(i, e) == {records[i][e][v].content : v \in 1..Len(records[i][e])}
SnapshotFree(w) ==
    /\ Snapshot(w) = None
    /\ \A e \in NewEvidence(w) :
          /\ Len(records[IncidentOf(w)][e]) = run[w].latest[e]
          /\ run[w].state[e] \notin ContentsOf(IncidentOf(w), e)

WriteSnapshot(w) ==
    LET i == IncidentOf(w)
        r == run[w].revision
        links == [e \in Evidence |->
                    IF run[w].state[e] = None THEN 0
                    ELSE run[w].latest[e] + (IF e \in NewEvidence(w) THEN 1 ELSE 0)]
    IN  /\ At(w, "write")
        /\ SnapshotFree(w)
        /\ records' = [records EXCEPT ![i] = [e \in Evidence |->
                IF e \in NewEvidence(w)
                THEN Append(records[i][e], EvidenceRecord(run[w].state[e], r))
                ELSE records[i][e]]]
        /\ analyses' = [analyses EXCEPT ![i][r] =
                            Analysis(Parent(i, r), run[w].state, links)]
        /\ run' = [run EXCEPT ![w].pc = "diff", ![w].latest = NoLinks]
        /\ UNCHANGED <<heads, revisions, pending, approvals, completed, runsLeft,
                       reviewsLeft>>

(* A unique key is taken: the transaction is rolled back and the job raises.*)
Collides(w) ==
    /\ \/ At(w, "insert") /\ ~RevisionFree(w)
       \/ At(w, "write") /\ ~SnapshotFree(w)
    /\ Stops(w)
    /\ UNCHANGED <<tables, pending, approvals, completed, runsLeft, reviewsLeft>>

-----------------------------------------------------------------------------
(* validate_analysis_evidence: the linked records are the stored members.  *)
Linked(i, r) == {e \in Evidence : analyses[i][r].links[e] # 0}
Valid(i, r) ==
    /\ analyses[i][r] # None
    /\ Linked(i, r) = analyses[i][r].members
    /\ \A e \in Linked(i, r) : analyses[i][r].links[e] \in 1..Len(records[i][e])

(* get_analysis_revision_diff: against the parent if that has a snapshot.  *)
Changed_ByVersion(i, r, p) ==
    {e \in Linked(i, r) \cap Linked(i, p) :
        analyses[i][r].links[e] > analyses[i][p].links[e]}
Changed(i, r, p) ==
    {e \in Linked(i, r) \cap Linked(i, p) :
        analyses[i][r].links[e] # analyses[i][p].links[e]}
Diff(i, r) ==
    LET p == analyses[i][r].previous
    IN  IF p = None \/ analyses[i][p] = None
        THEN [NoDiff EXCEPT !.added = Linked(i, r)]
        ELSE [base |-> p,
              added |-> Linked(i, r) \ Linked(i, p),
              changed |-> Changed(i, r, p),
              removed |-> Linked(i, p) \ Linked(i, r)]

(* The end of sync_registry: the row shows the state of this run.          *)
AddPending(w) ==
    LET i == IncidentOf(w)
        r == run[w].revision
    IN  /\ At(w, "diff")
        /\ Valid(i, r)
        /\ analyses[i][r].previous # None /\ analyses[i][analyses[i][r].previous] # None
              => Valid(i, analyses[i][r].previous)
        /\ pending' = [pending EXCEPT ![i] =
                [open |-> TRUE, revision |-> r, state |-> run[w].state,
                 diff |-> Diff(i, r)]]
        /\ run' = [run EXCEPT ![w].pc = "done", ![w].state = Blank]
        /\ UNCHANGED <<tables, approvals, completed, runsLeft, reviewsLeft>>

Complete(w) ==
    /\ At(w, "done")
    /\ completed' = completed \cup {run[w].job}
    /\ Stops(w)
    /\ UNCHANGED <<tables, pending, approvals, runsLeft, reviewsLeft>>

(* The worker dies, or something else in the handler raises.               *)
Lose(w) ==
    /\ run[w].pc # "idle"
    /\ Stops(w)
    /\ UNCHANGED <<tables, pending, approvals, completed, runsLeft, reviewsLeft>>

-----------------------------------------------------------------------------
(* The review endpoint, with the requests it refuses left out: their       *)
(* interleavings are the subject of module IncidentReview.                 *)

Reviewing(i) == pending[i].open /\ reviewsLeft > 0 /\ reviewsLeft' = reviewsLeft - 1

(* record_review_decision keeps the members of the stored snapshot; an     *)
(* analysis without a revision has none, and nothing is validated.         *)
DisplayedEvidence_OfTheRow(i) == Members(pending[i].state)
DisplayedEvidence(i) ==
    IF pending[i].revision = 0 THEN {} ELSE analyses[i][pending[i].revision].members

(* The selected hypothesis must be a candidate of the snapshot; which      *)
(* candidates a state has is not modelled.                                 *)
Approve(i) ==
    /\ Reviewing(i)
    /\ pending[i].revision # 0 => Valid(i, pending[i].revision)
    /\ approvals' = approvals \cup
          {[incident |-> i, revision |-> pending[i].revision,
            evidence |-> DisplayedEvidence(i)]}
    /\ pending' = [pending EXCEPT ![i] = NoPending]
    /\ UNCHANGED <<tables, completed, run, runsLeft>>

(* Rejected, or more evidence requested: the graph analyses again and      *)
(* sync_registry is called without an analysis revision.                   *)
AnalyzeAgain(i, s) ==
    /\ Reviewing(i)
    /\ pending' = [pending EXCEPT ![i] = [NoPending EXCEPT !.open = TRUE, !.state = s]]
    /\ UNCHANGED <<tables, approvals, completed, run, runsLeft>>

-----------------------------------------------------------------------------
Init ==
    /\ heads = [i \in Incidents |-> 0]
    /\ \E legacy \in [Incidents -> 0..MaxLegacy] :
          revisions = [i \in Incidents |-> [r \in Revisions |->
             IF r > legacy[i] THEN None
             ELSE Revision(IF r = 1 THEN None ELSE r - 1, None)]]
    /\ analyses = [i \in Incidents |-> [r \in Revisions |-> None]]
    /\ records = [i \in Incidents |-> [e \in Evidence |-> <<>>]]
    /\ pending = [i \in Incidents |-> NoPending]
    /\ approvals = {} /\ completed = {}
    /\ run = [w \in Workers |-> Idle]
    /\ runsLeft = MaxRuns /\ reviewsLeft = MaxReviews

Work(w) ==
    \/ LockHead(w) \/ AllocateAgain(w) \/ Allocate(w) \/ InsertRevision(w)
    \/ Resolved(w) \/ \E s \in State : Analyze(w, s)
    \/ ReadBack(w) \/ ReadLatest(w) \/ WriteSnapshot(w) \/ Collides(w)
    \/ AddPending(w) \/ Complete(w)

Next ==
    \/ \E w \in Workers : Work(w) \/ Lose(w) \/ \E j \in Jobs : StartRun(w, j)
    \/ \E i \in Incidents : Approve(i) \/ \E s \in State : AnalyzeAgain(i, s)

Spec == Init /\ [][Next]_vars

-----------------------------------------------------------------------------
(* Properties.                                                             *)

LinkRow == [Evidence -> Nat]
RunRow ==
    [pc: {"idle", "lock", "allocate", "insert", "analyze", "snapshot", "write",
          "diff", "done"},
     job: Jobs \cup {None}, revision: 0..MaxRevisions, base: 0..MaxRevisions,
     state: State, latest: LinkRow]
Revised == {"analyze", "snapshot", "write", "diff", "done"}
RunOK(row) ==
    /\ row.pc # "idle" => row.job \in Jobs
    /\ row.pc = "insert" => row.base < MaxRevisions
    /\ row.pc \in Revised => row.revision \in Revisions
RevisionRow == [previous: Revisions \cup {None}, job: Jobs \cup {None}]
AnalysisRow == [previous: Revisions \cup {None}, members: SUBSET Evidence,
                state: State, links: LinkRow]
RecordRow == [content: Contents, first: Revisions]
DiffRow == [base: 0..MaxRevisions, added: SUBSET Evidence,
            changed: SUBSET Evidence, removed: SUBSET Evidence]
PendingRow == [open: BOOLEAN, revision: 0..MaxRevisions, state: State, diff: DiffRow]
ApprovalRow == [incident: Incidents, revision: 0..MaxRevisions, evidence: SUBSET Evidence]

(* Rows and handlers keep the columns and ranges the schema gives them.    *)
TypeOK ==
    /\ heads \in [Incidents -> 0..MaxRevisions]
    /\ revisions \in [Incidents -> [Revisions -> RevisionRow \cup {None}]]
    /\ analyses \in [Incidents -> [Revisions -> AnalysisRow \cup {None}]]
    /\ records \in [Incidents -> [Evidence -> Seq(RecordRow)]]
    /\ pending \in [Incidents -> PendingRow]
    /\ approvals \subseteq ApprovalRow
    /\ completed \subseteq Jobs
    /\ run \in [Workers -> RunRow] /\ \A w \in Workers : RunOK(run[w])
    /\ runsLeft \in Nat /\ reviewsLeft \in Nat

(* Whatever workers race for the next number of an incident, and whether or*)
(* not its revisions are older than the head table: no allocation runs into*)
(* a unique key, which is what the locked head row is for.                 *)
AllocationFree == \A w \in Workers : At(w, "insert") => RevisionFree(w)

(* Revisions of an incident are numbered without gaps, each one follows the*)
(* one before it, and a job that is run again has no second one.           *)
RevisionChain ==
    \A i \in Incidents, r \in Revisions : revisions[i][r] # None =>
       /\ revisions[i][r].previous = IF r = 1 THEN None ELSE r - 1
       /\ r > 1 => revisions[i][r - 1] # None
       /\ revisions[i][r].job # None =>
             /\ JobIncident[revisions[i][r].job] = i
             /\ \A q \in Revisions : revisions[i][q] # None
                   /\ revisions[i][q].job = revisions[i][r].job => q = r

(* A snapshot's parent is the revision allocated before its own, also when *)
(* the later worker finishes first; and only allocated revisions have one. *)
AnalysisFollowsChain ==
    \A i \in Incidents, r \in Revisions : analyses[i][r] # None =>
       /\ revisions[i][r] # None
       /\ analyses[i][r].previous = IF r = 1 THEN None ELSE r - 1

(* Every stored snapshot passes its validation, and the records it links   *)
(* hold exactly the contents the analysis found, however other analyses    *)
(* version the same evidence meanwhile.                                    *)
SnapshotExact ==
    \A i \in Incidents, r \in Revisions : analyses[i][r] # None =>
       /\ Valid(i, r)
       /\ \A e \in Linked(i, r) :
             records[i][e][analyses[i][r].links[e]].content = analyses[i][r].state[e]

(* The changes a reviewer is shown are the differences between the two     *)
(* stored snapshots: an id comparison tells contents apart.                *)
DiffIsTrue ==
    \A i \in Incidents : pending[i].open /\ pending[i].diff.base # 0 =>
       LET new == analyses[i][pending[i].revision].state
           old == analyses[i][pending[i].diff.base].state
       IN  /\ pending[i].diff.added = Members(new) \ Members(old)
           /\ pending[i].diff.removed = Members(old) \ Members(new)
           /\ pending[i].diff.changed =
                 {e \in Members(new) \cap Members(old) : new[e] # old[e]}

(* An approval of a revision keeps the evidence of its snapshot for good.  *)
ApprovalKeepsEvidence ==
    \A a \in approvals : a.revision # 0 =>
       /\ analyses[a.incident][a.revision] # None
       /\ a.evidence = Members(analyses[a.incident][a.revision].state)

(* What a reviewer may have seen is never rewritten, by retried workers,   *)
(* late workers or corrections: rows are only ever added.                  *)
NothingRewritten ==
    [][\A i \in Incidents :
          /\ \A r \in Revisions :
                /\ revisions[i][r] # None => revisions'[i][r] = revisions[i][r]
                /\ analyses[i][r] # None => analyses'[i][r] = analyses[i][r]
          /\ \A e \in Evidence : \A v \in 1..Len(records[i][e]) :
                records'[i][e][v] = records[i][e][v]]_vars
=============================================================================
