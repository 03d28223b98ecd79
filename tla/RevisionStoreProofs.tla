------------------------ MODULE RevisionStoreProofs ------------------------
(***************************************************************************)
(* What holds of RevisionStore for any number of incidents, jobs, workers, *)
(* pieces of evidence, contents, runs and reviews.                         *)
(***************************************************************************)
EXTENDS RevisionStore, WellFoundedInduction, TLAPS

-----------------------------------------------------------------------------
(* A nonempty set of revisions has a last one.                             *)
LEMMA LastExists ==
  ASSUME NEW S \in SUBSET Revisions, S # {}
  PROVE  \E m \in S : \A x \in S : x <= m
<1> DEFINE Less == {p \in Nat \X Nat : p[1] < p[2]}
           T == {MaxRevisions - x : x \in S}
<1>1. /\ MaxRevisions \in Nat
      /\ \A x \in S : x \in Nat /\ x <= MaxRevisions
  BY RevisionAssumption DEF Revisions
<1>2. T \subseteq Nat /\ T # {}
  BY <1>1
<1>3. \A a, b \in Nat : a < b => <<a, b>> \in Less
  OBVIOUS
<1> HIDE DEF Less, T
<1>4. IsWellFoundedOn(Less, Nat)
  BY NatLessThanWellFounded DEF Less, OpToRel
<1>5. PICK t \in T : \A u \in T : ~(<<u, t>> \in Less)
  BY <1>2, <1>4, WFMin
<1>6. PICK m \in S : t = MaxRevisions - m
  BY <1>5 DEF T
<1>7. ASSUME NEW x \in S PROVE x <= m
  <2>1. MaxRevisions - x \in T
    BY DEF T
  <2>2. ~(MaxRevisions - x < t)
    BY <2>1, <1>2, <1>3, <1>5
  <2> QED
    BY <2>2, <1>1, <1>6
<1> QED
  BY <1>7

LEMMA LastUsedIsLast ==
  ASSUME NEW i
  PROVE  /\ Used(i) = {} => LastUsed(i) = 0
         /\ Used(i) # {} => LastUsed(i) \in Used(i) /\ \A s \in Used(i) : s <= LastUsed(i)
<1>1. CASE Used(i) = {}
  BY <1>1 DEF LastUsed
<1>2. CASE Used(i) # {}
  <2>1. \E r \in Used(i) : \A s \in Used(i) : s <= r
    BY <1>2, LastExists DEF Used
  <2> QED
    BY <1>2, <2>1 DEF LastUsed
<1> QED
  BY <1>1, <1>2

-----------------------------------------------------------------------------
(* Type correctness.                                                       *)

LEMMA RowTypes ==
  /\ Idle \in RunRow /\ NoPending \in PendingRow /\ NoDiff \in DiffRow
  /\ Blank \in State /\ NoLinks \in LinkRow
<1>1. MaxRevisions \in Nat
  BY RevisionAssumption
<1>2. Blank \in State /\ NoLinks \in LinkRow
  BY DEF Blank, State, NoLinks, LinkRow
<1>3. NoDiff \in DiffRow
  BY <1>1 DEF NoDiff, DiffRow
<1> QED
  BY <1>1, <1>2, <1>3 DEF Idle, RunRow, NoPending, PendingRow

LEMMA InitTypeOK == Init => TypeOK
<1> SUFFICES ASSUME Init PROVE TypeOK
  OBVIOUS
<1>1. /\ MaxRevisions \in Nat \ {0} /\ MaxLegacy \in 0..MaxRevisions
      /\ MaxRuns \in Nat /\ MaxReviews \in Nat
  BY RevisionAssumption
<1>2. revisions \in [Incidents -> [Revisions -> RevisionRow \cup {None}]]
  BY <1>1 DEF Init, Revisions, Revision, RevisionRow
<1> QED
  BY <1>1, <1>2, RowTypes DEF Init, TypeOK, Idle, RunOK, Revised

(* What a worker has, once it works, and the row it works for.             *)
LEMMA RunTypes ==
  ASSUME TypeOK, NEW w \in Workers, run[w].pc # "idle"
  PROVE  /\ run[w] \in RunRow /\ run[w].job \in Jobs /\ IncidentOf(w) \in Incidents
         /\ run[w].base \in 0..MaxRevisions /\ run[w].revision \in 0..MaxRevisions
         /\ run[w].state \in State /\ run[w].latest \in LinkRow
         /\ run[w].pc = "insert" => run[w].base + 1 \in Revisions
         /\ run[w].pc \in Revised => run[w].revision \in Revisions
<1>1. run[w] \in RunRow /\ RunOK(run[w])
  BY DEF TypeOK
<1>2. run[w].job \in Jobs
  BY <1>1 DEF RunOK
<1>3. /\ run[w].base \in 0..MaxRevisions /\ run[w].revision \in 0..MaxRevisions
      /\ run[w].state \in State /\ run[w].latest \in LinkRow
  BY <1>1 DEF RunRow
<1>4. run[w].pc = "insert" => run[w].base + 1 \in Revisions
  BY <1>1, <1>3, RevisionAssumption DEF RunOK, Revisions
<1>5. run[w].pc \in Revised => run[w].revision \in Revisions
  BY <1>1 DEF RunOK
<1> QED
  BY <1>1, <1>2, <1>3, <1>4, <1>5, RevisionAssumption DEF IncidentOf

LEMMA AllocateTypes ==
  ASSUME TypeOK, NEW w \in Workers,
         LockHead(w) \/ AllocateAgain(w) \/ Allocate(w) \/ InsertRevision(w)
  PROVE  TypeOK'
<1>m. MaxRevisions \in Nat \ {0}
  BY RevisionAssumption
<1>n. run[w].pc # "idle"
  BY DEF LockHead, AllocateAgain, Allocate, InsertRevision, At
<1>w. /\ run[w] \in RunRow /\ run[w].job \in Jobs /\ IncidentOf(w) \in Incidents
      /\ run[w].base \in 0..MaxRevisions /\ run[w].revision \in 0..MaxRevisions
      /\ run[w].state \in State /\ run[w].latest \in LinkRow
      /\ run[w].pc = "insert" => run[w].base + 1 \in Revisions
  BY <1>n, RunTypes
<1>r. ASSUME NEW r \in Revisions PROVE WithRevision(w, r) \in RunRow /\ RunOK(WithRevision(w, r))
  <2>1. r \in 0..MaxRevisions
    BY <1>m DEF Revisions
  <2>2. WithRevision(w, r) \in RunRow
    BY <1>w, <2>1, RowTypes DEF WithRevision, RunRow
  <2>3. WithRevision(w, r).job = run[w].job /\ WithRevision(w, r).revision = r
        /\ WithRevision(w, r).pc = "analyze"
    BY RowTypes DEF WithRevision, RunRow
  <2> QED
    BY <1>w, <2>2, <2>3 DEF RunOK
<1>1. CASE LockHead(w)
  <2>1. heads[IncidentOf(w)] \in 0..MaxRevisions
    BY <1>w DEF TypeOK
  <2>2. [run[w] EXCEPT !.pc = "allocate", !.base = heads[IncidentOf(w)]] \in RunRow
    BY <1>w, <2>1 DEF RunRow
  <2>3. RunOK([run[w] EXCEPT !.pc = "allocate", !.base = heads[IncidentOf(w)]])
    BY <1>w DEF RunRow, RunOK, Revised
  <2> QED
    BY <1>1, <2>2, <2>3 DEF LockHead, tables, TypeOK
<1>2. CASE AllocateAgain(w)
  <2>1. PICK r \in Revisions : run' = [run EXCEPT ![w] = WithRevision(w, r)]
    BY <1>2 DEF AllocateAgain, RevisionsOf
  <2> QED
    BY <1>2, <1>r, <2>1 DEF AllocateAgain, tables, TypeOK
<1>3. CASE Allocate(w)
  <2> DEFINE b == Backfilled(IncidentOf(w), run[w].base)
  <2>1. b \in 0..MaxRevisions /\ b < MaxRevisions
    BY <1>3, <1>m, <1>w, LastUsedIsLast DEF Allocate, Backfilled, Bigger, Used, Revisions
  <2> HIDE DEF b
  <2>2. [run[w] EXCEPT !.pc = "insert", !.base = b] \in RunRow
    BY <1>w, <2>1 DEF RunRow
  <2>3. RunOK([run[w] EXCEPT !.pc = "insert", !.base = b])
    BY <1>w, <2>1 DEF RunRow, RunOK, Revised
  <2>4. run' = [run EXCEPT ![w] = [run[w] EXCEPT !.pc = "insert", !.base = b]]
    BY <1>3 DEF Allocate, b
  <2> QED
    BY <1>3, <2>2, <2>3, <2>4 DEF Allocate, tables, TypeOK
<1>4. CASE InsertRevision(w)
  <2>1. run[w].base + 1 \in Revisions
    BY <1>4, <1>w DEF InsertRevision, At
  <2>2. Revision(Previous(run[w].base), run[w].job) \in RevisionRow
    BY <1>m, <1>w DEF Revision, Previous, RevisionRow, Revisions
  <2>3. revisions' \in [Incidents -> [Revisions -> RevisionRow \cup {None}]]
    BY <1>4, <1>w, <2>2 DEF InsertRevision, TypeOK
  <2>4. heads' \in [Incidents -> 0..MaxRevisions]
    BY <1>4, <1>w, <2>1, <1>m DEF InsertRevision, TypeOK, Revisions
  <2>5. run' \in [Workers -> RunRow] /\ \A v \in Workers : RunOK(run'[v])
    BY <1>4, <1>r, <2>1 DEF InsertRevision, TypeOK
  <2> QED
    BY <1>4, <2>3, <2>4, <2>5 DEF InsertRevision, TypeOK
<1> QED
  BY <1>1, <1>2, <1>3, <1>4

(* A worker that analyses has the revision it analyses for.                *)
RevisedInv ==
    \A w \in Workers : run[w].pc \in Revised =>
       /\ revisions[IncidentOf(w)][run[w].revision] # None
       /\ revisions[IncidentOf(w)][run[w].revision].job = run[w].job

LEMMA AnalysisTypes ==
  ASSUME TypeOK, RevisedInv, NEW w \in Workers,
         \/ Resolved(w) \/ (\E s \in State : Analyze(w, s))
         \/ ReadBack(w) \/ ReadLatest(w) \/ WriteSnapshot(w) \/ AddPending(w)
  PROVE  TypeOK'
<1>n. run[w].pc # "idle" /\ run[w].pc \in Revised
  BY DEF Resolved, Analyze, ReadBack, ReadLatest, WriteSnapshot, AddPending, At, Revised
<1>w. /\ run[w] \in RunRow /\ run[w].job \in Jobs /\ IncidentOf(w) \in Incidents
      /\ run[w].state \in State /\ run[w].latest \in LinkRow
      /\ run[w].revision \in Revisions /\ run[w].revision \in 0..MaxRevisions
  BY <1>n, RunTypes
<1>p. ASSUME NEW pc \in {"snapshot", "write", "diff", "done"},
             NEW s \in State, NEW l \in LinkRow, NEW row,
             row = [run[w] EXCEPT !.pc = pc, !.state = s, !.latest = l]
      PROVE  row \in RunRow /\ RunOK(row)
  <2>1. row \in RunRow
    BY <1>p, <1>w DEF RunRow
  <2>2. row.pc = pc /\ row.job = run[w].job /\ row.revision = run[w].revision
    BY <1>p, <1>w DEF RunRow
  <2> QED
    BY <1>w, <2>1, <2>2 DEF RunOK
<1>s. [run[w] EXCEPT !.state = run[w].state, !.latest = run[w].latest] = run[w]
  BY <1>w DEF RunRow
<1>g. ASSUME NEW pc \in {"snapshot", "write", "diff", "done"}, Goes(w, pc)
      PROVE  run' \in [Workers -> RunRow] /\ \A v \in Workers : RunOK(run'[v])
  <2>1. [run[w] EXCEPT !.pc = pc, !.state = run[w].state, !.latest = run[w].latest]
          = [run[w] EXCEPT !.pc = pc]
    BY <1>w DEF RunRow
  <2> QED
    BY <1>g, <1>p, <1>w, <2>1 DEF Goes, TypeOK
<1>1. CASE Resolved(w)
  BY <1>1, <1>g DEF Resolved, tables, TypeOK
<1>2. CASE \E s \in State : Analyze(w, s)
  <2> PICK s \in State : Analyze(w, s)
    BY <1>2
  <2>1. [run[w] EXCEPT !.pc = "snapshot", !.state = s]
          = [run[w] EXCEPT !.pc = "snapshot", !.state = s, !.latest = run[w].latest]
    BY <1>w DEF RunRow
  <2>2. run' \in [Workers -> RunRow] /\ \A v \in Workers : RunOK(run'[v])
    BY <1>p, <1>w, <2>1 DEF Analyze, TypeOK
  <2> QED
    BY <2>2 DEF Analyze, tables, TypeOK
<1>3. CASE ReadBack(w)
  BY <1>3, <1>g DEF ReadBack, tables, TypeOK
<1>4. CASE ReadLatest(w)
  <2> DEFINE l == [e \in Evidence |-> Len(records[IncidentOf(w)][e])]
  <2>1. l \in LinkRow
    BY <1>w DEF LinkRow, TypeOK
  <2>2. run' = [run EXCEPT ![w] = [run[w] EXCEPT !.pc = "write", !.latest = l]]
    BY <1>4 DEF ReadLatest
  <2> HIDE DEF l
  <2>3. [run[w] EXCEPT !.pc = "write", !.latest = l]
          = [run[w] EXCEPT !.pc = "write", !.state = run[w].state, !.latest = l]
    BY <1>w DEF RunRow
  <2>4. run' \in [Workers -> RunRow] /\ \A v \in Workers : RunOK(run'[v])
    BY <1>p, <1>w, <2>1, <2>2, <2>3 DEF TypeOK
  <2> QED
    BY <1>4, <2>4 DEF ReadLatest, tables, TypeOK
<1>5. CASE WriteSnapshot(w)
  <2> DEFINE i == IncidentOf(w)
             r == run[w].revision
             new == [e \in Evidence |->
                      IF e \in NewEvidence(w)
                      THEN Append(records[i][e], EvidenceRecord(run[w].state[e], r))
                      ELSE records[i][e]]
             links == [e \in Evidence |->
                        IF run[w].state[e] = None THEN 0
                        ELSE run[w].latest[e] + (IF e \in NewEvidence(w) THEN 1 ELSE 0)]
  <2>1. /\ records' = [records EXCEPT ![i] = new]
        /\ analyses' = [analyses EXCEPT ![i][r] =
                           Analysis(Parent(i, r), run[w].state, links)]
        /\ run' = [run EXCEPT ![w] = [run[w] EXCEPT !.pc = "diff", !.latest = NoLinks]]
    BY <1>5 DEF WriteSnapshot
  <2>2. \A e \in NewEvidence(w) : EvidenceRecord(run[w].state[e], r) \in RecordRow
    BY <1>w DEF NewEvidence, Members, State, EvidenceRecord, RecordRow
  <2>3. new \in [Evidence -> Seq(RecordRow)]
    BY <1>w, <2>2 DEF TypeOK
  <2>4. links \in LinkRow
    BY <1>w DEF LinkRow
  <2>5. Parent(i, r) \in Revisions \cup {None}
    BY <1>n, <1>w DEF Parent, RevisedInv, TypeOK, RevisionRow
  <2> HIDE DEF new, links
  <2>6. Analysis(Parent(i, r), run[w].state, links) \in AnalysisRow
    BY <1>w, <2>4, <2>5 DEF Analysis, AnalysisRow, Members
  <2>7. analyses' \in [Incidents -> [Revisions -> AnalysisRow \cup {None}]]
    BY <1>w, <2>1, <2>6 DEF TypeOK
  <2>8. records' \in [Incidents -> [Evidence -> Seq(RecordRow)]]
    BY <1>w, <2>1, <2>3 DEF TypeOK
  <2>9. [run[w] EXCEPT !.pc = "diff", !.latest = NoLinks]
          = [run[w] EXCEPT !.pc = "diff", !.state = run[w].state, !.latest = NoLinks]
    BY <1>w DEF RunRow
  <2>10. run' \in [Workers -> RunRow] /\ \A v \in Workers : RunOK(run'[v])
    BY <1>p, <1>w, <2>1, <2>9, RowTypes DEF TypeOK
  <2> QED
    BY <1>5, <2>7, <2>8, <2>10 DEF WriteSnapshot, TypeOK
<1>6. CASE AddPending(w)
  <2> DEFINE i == IncidentOf(w)
             r == run[w].revision
  <2>1. analyses[i][r] \in AnalysisRow
    <3>1. Valid(i, r)
      BY <1>6 DEF AddPending
    <3>2. analyses[i][r] # None
      BY <3>1 DEF Valid
    <3> QED
      BY <3>2, <1>w DEF TypeOK
  <2>2. Diff(i, r) \in DiffRow
    <3>1. analyses[i][r].previous # None => analyses[i][r].previous \in 0..MaxRevisions
      BY <2>1, RevisionAssumption DEF AnalysisRow, Revisions
    <3> QED
      BY <3>1, RowTypes DEF Diff, NoDiff, DiffRow, Linked, Changed
  <2>3. pending' \in [Incidents -> PendingRow]
    BY <1>6, <1>w, <2>2 DEF AddPending, TypeOK, PendingRow
  <2>4. [run[w] EXCEPT !.pc = "done", !.state = Blank]
          = [run[w] EXCEPT !.pc = "done", !.state = Blank, !.latest = run[w].latest]
    BY <1>w DEF RunRow
  <2>5. run' = [run EXCEPT ![w] = [run[w] EXCEPT !.pc = "done", !.state = Blank]]
    BY <1>6 DEF AddPending
  <2>6. run' \in [Workers -> RunRow] /\ \A v \in Workers : RunOK(run'[v])
    BY <1>p, <1>w, <2>4, <2>5, RowTypes DEF TypeOK
  <2> QED
    BY <1>6, <2>3, <2>6 DEF AddPending, tables, TypeOK
<1> QED
  BY <1>1, <1>2, <1>3, <1>4, <1>5, <1>6

LEMMA StopTypes ==
  ASSUME TypeOK, NEW w \in Workers, Collides(w) \/ Complete(w) \/ Lose(w)
  PROVE  TypeOK'
<1>1. run' \in [Workers -> RunRow] /\ \A v \in Workers : RunOK(run'[v])
  <2>1. run' = [run EXCEPT ![w] = Idle]
    BY DEF Collides, Complete, Lose, Stops
  <2>2. RunOK(Idle)
    BY DEF RunOK, Idle, Revised
  <2> QED
    BY <2>1, <2>2, RowTypes DEF TypeOK
<1>2. completed' \subseteq Jobs
  BY RunTypes DEF Collides, Complete, Lose, At, TypeOK
<1> QED
  BY <1>1, <1>2 DEF Collides, Complete, Lose, tables, TypeOK

LEMMA StartTypes ==
  ASSUME TypeOK, NEW w \in Workers, NEW j \in Jobs, StartRun(w, j)
  PROVE  TypeOK'
<1>1. [Idle EXCEPT !.pc = "lock", !.job = j] \in RunRow
  BY RowTypes DEF RunRow
<1>2. RunOK([Idle EXCEPT !.pc = "lock", !.job = j])
  BY DEF Idle, RunOK, Revised
<1>3. run' \in [Workers -> RunRow] /\ \A v \in Workers : RunOK(run'[v])
  BY <1>1, <1>2 DEF StartRun, TypeOK
<1> QED
  BY <1>3 DEF StartRun, tables, TypeOK

LEMMA ReviewTypes ==
  ASSUME TypeOK, NEW i \in Incidents,
         Approve(i) \/ \E s \in State : AnalyzeAgain(i, s)
  PROVE  TypeOK'
<1>1. CASE Approve(i)
  <2>1. pending[i].revision \in 0..MaxRevisions
    BY DEF TypeOK, PendingRow
  <2>2. DisplayedEvidence(i) \in SUBSET Evidence
    <3>1. CASE pending[i].revision = 0
      BY <3>1 DEF DisplayedEvidence
    <3>2. CASE pending[i].revision # 0
      <4>1. pending[i].revision \in Revisions
        BY <2>1, <3>2, RevisionAssumption DEF Revisions
      <4>2. analyses[i][pending[i].revision] \in AnalysisRow
        BY <1>1, <3>2, <4>1 DEF Approve, Valid, TypeOK
      <4> QED
        BY <3>2, <4>2 DEF DisplayedEvidence, AnalysisRow
    <3> QED
      BY <3>1, <3>2
  <2>3. approvals' \subseteq ApprovalRow
    BY <1>1, <2>1, <2>2 DEF Approve, ApprovalRow, TypeOK
  <2>4. pending' \in [Incidents -> PendingRow]
    BY <1>1, RowTypes DEF Approve, TypeOK
  <2>5. reviewsLeft' \in Nat
    BY <1>1 DEF Approve, Reviewing, TypeOK
  <2> QED
    BY <1>1, <2>3, <2>4, <2>5 DEF Approve, tables, TypeOK
<1>2. CASE \E s \in State : AnalyzeAgain(i, s)
  <2> PICK s \in State : AnalyzeAgain(i, s)
    BY <1>2
  <2>1. [NoPending EXCEPT !.open = TRUE, !.state = s] \in PendingRow
    BY RowTypes DEF PendingRow
  <2>2. pending' \in [Incidents -> PendingRow]
    BY <2>1 DEF AnalyzeAgain, TypeOK
  <2>3. reviewsLeft' \in Nat
    <3>1. reviewsLeft \in Nat /\ reviewsLeft > 0 /\ reviewsLeft' = reviewsLeft - 1
      BY DEF AnalyzeAgain, Reviewing, TypeOK
    <3> QED
      BY <3>1
  <2> QED
    BY <2>2, <2>3 DEF AnalyzeAgain, tables, TypeOK
<1> QED
  BY <1>1, <1>2

LEMMA StepTypeOK == TypeOK /\ RevisedInv /\ [Next]_vars => TypeOK'
<1> SUFFICES ASSUME TypeOK, RevisedInv, [Next]_vars PROVE TypeOK'
  OBVIOUS
<1>1. CASE Next
  BY <1>1, AllocateTypes, AnalysisTypes, StopTypes, StartTypes, ReviewTypes
     DEF Next, Work
<1>2. CASE UNCHANGED vars
  BY <1>2 DEF vars, tables, TypeOK
<1> QED
  BY <1>1, <1>2

-----------------------------------------------------------------------------
(* Allocation.                                                             *)

(* The head row serves one worker at a time.                               *)
LockInv ==
    \A v, w \in Workers :
       run[v].pc \in Allocating /\ run[w].pc \in Allocating
         /\ IncidentOf(v) = IncidentOf(w) => v = w

(* What it counts from is a revision, and nothing comes after it once      *)
(* the older revisions have been looked at.                                *)
AllocInv ==
    \A w \in Workers :
       /\ run[w].pc \in Allocating /\ run[w].base # 0 =>
             revisions[IncidentOf(w)][run[w].base] # None
       /\ run[w].pc = "insert" =>
             /\ RevisionsOf(run[w].job) = {}
             /\ \A r \in Revisions : r > run[w].base => revisions[IncidentOf(w)][r] = None

HeadInv == \A i \in Incidents : heads[i] # 0 => revisions[i][heads[i]] # None

AllocationInv == LockInv /\ AllocInv /\ HeadInv /\ RevisedInv /\ RevisionChain

(* A row is not the lack of one.                                           *)
LEMMA RowExists ==
  ASSUME NEW p \in Nat \cup {None}, NEW j \in Jobs \cup {None}
  PROVE  /\ Revision(p, j) # None
         /\ Revision(p, j).previous = p /\ Revision(p, j).job = j
<1>1. Revision(p, j) \in [previous : Nat \cup {None}, job : Jobs \cup {None}]
  BY DEF Revision
<1> QED
  BY <1>1, RevisionAssumption DEF Revision

LEMMA InitAllocation == Init => AllocationInv
<1> SUFFICES ASSUME Init PROVE AllocationInv
  OBVIOUS
<1>1. \A w \in Workers : run[w].pc = "idle"
  BY DEF Init, Idle
<1>2. LockInv /\ AllocInv /\ RevisedInv
  BY <1>1 DEF LockInv, AllocInv, RevisedInv, Allocating, Revised
<1>3. HeadInv
  BY DEF Init, HeadInv
<1>4. RevisionChain
  <2>1. PICK legacy \in [Incidents -> 0..MaxLegacy] :
           revisions = [i \in Incidents |-> [r \in Revisions |->
             IF r > legacy[i] THEN None
             ELSE Revision(IF r = 1 THEN None ELSE r - 1, None)]]
    BY DEF Init
  <2> SUFFICES ASSUME NEW i \in Incidents, NEW r \in Revisions, revisions[i][r] # None
               PROVE  /\ revisions[i][r].previous = IF r = 1 THEN None ELSE r - 1
                      /\ r > 1 => revisions[i][r - 1] # None
                      /\ revisions[i][r].job = None
    BY DEF RevisionChain
  <2>2. legacy[i] \in Nat /\ r \in Nat \ {0} /\ r <= MaxRevisions
    BY RevisionAssumption DEF Revisions
  <2>3. ~(r > legacy[i]) /\ revisions[i][r] = Revision(IF r = 1 THEN None ELSE r - 1, None)
    BY <2>1
  <2>4. ASSUME r > 1 PROVE revisions[i][r - 1] # None
    <3>1. r - 1 \in Revisions /\ ~(r - 1 > legacy[i])
      BY <2>2, <2>3, <2>4, RevisionAssumption DEF Revisions
    <3>2. revisions[i][r - 1] = Revision(IF r - 1 = 1 THEN None ELSE r - 1 - 1, None)
      BY <2>1, <3>1
    <3>3. (IF r - 1 = 1 THEN None ELSE r - 1 - 1) \in Nat \cup {None}
      BY <2>2, <2>4
    <3>4. ASSUME NEW p \in Nat \cup {None} PROVE Revision(p, None) # None
      BY RowExists
    <3> QED
      BY <3>2, <3>3, <3>4
  <2> QED
    BY <2>3, <2>4 DEF Revision
<1> QED
  BY <1>2, <1>3, <1>4 DEF AllocationInv

HasItsRevision(row) ==
    row.pc \in Revised =>
       /\ revisions[JobIncident[row.job]][row.revision] # None
       /\ revisions[JobIncident[row.job]][row.revision].job = row.job

(* A step that leaves the tables alone and lets a worker go on with the    *)
(* revision of its job, or with none.                                      *)
LEMMA QuietAllocation ==
  ASSUME AllocationInv, UNCHANGED <<heads, revisions>>,
         \A v \in Workers : \/ run'[v] = run[v]
                            \/ run'[v].pc \notin Allocating /\ HasItsRevision(run'[v])
  PROVE  AllocationInv'
<1>1. \A v \in Workers : run'[v].pc \in Allocating => run'[v] = run[v]
  OBVIOUS
<1>2. LockInv'
  BY <1>1 DEF AllocationInv, LockInv, IncidentOf
<1>3. AllocInv'
  BY <1>1 DEF AllocationInv, AllocInv, Allocating, IncidentOf, RevisionsOf
<1>4. HeadInv' /\ RevisionChain'
  BY DEF AllocationInv, HeadInv, RevisionChain
<1>5. RevisedInv'
  BY DEF AllocationInv, RevisedInv, HasItsRevision, IncidentOf
<1> QED
  BY <1>2, <1>3, <1>4, <1>5 DEF AllocationInv

LEMMA LockHeadAllocation ==
  ASSUME TypeOK, AllocationInv, NEW w \in Workers, LockHead(w)
  PROVE  AllocationInv'
<1>w. /\ run[w].pc # "idle" /\ run[w] \in RunRow /\ IncidentOf(w) \in Incidents
  BY RunTypes DEF LockHead, At
<1>1. /\ \A v \in Workers : v # w => run'[v] = run[v]
      /\ run'[w].pc = "allocate" /\ run'[w].base = heads[IncidentOf(w)]
      /\ run'[w].job = run[w].job
      /\ UNCHANGED <<heads, revisions>>
  BY <1>w DEF LockHead, tables, TypeOK, RunRow
<1>2. \A v \in Workers : IncidentOf(v)' = IncidentOf(v)
  BY <1>1 DEF IncidentOf
<1>3. LockInv'
  BY <1>1, <1>2 DEF AllocationInv, LockInv, LockHead, HeadFree
<1>4. AllocInv'
  BY <1>1, <1>2, <1>w DEF AllocationInv, AllocInv, HeadInv, Allocating, RevisionsOf
<1>5. RevisedInv'
  BY <1>1, <1>2 DEF AllocationInv, RevisedInv, Revised
<1> QED
  BY <1>1, <1>3, <1>4, <1>5 DEF AllocationInv, HeadInv, RevisionChain

LEMMA AllocateAllocation ==
  ASSUME TypeOK, AllocationInv, NEW w \in Workers, Allocate(w)
  PROVE  AllocationInv'
<1> DEFINE i == IncidentOf(w)
           b == Backfilled(i, run[w].base)
<1>w. /\ run[w].pc = "allocate" /\ run[w] \in RunRow /\ i \in Incidents
      /\ run[w].base \in 0..MaxRevisions /\ MaxRevisions \in Nat
  BY RunTypes, RevisionAssumption DEF Allocate, At
<1>1. /\ \A v \in Workers : v # w => run'[v] = run[v]
      /\ run'[w].pc = "insert" /\ run'[w].base = b /\ run'[w].job = run[w].job
      /\ UNCHANGED <<heads, revisions>>
  BY <1>w DEF Allocate, tables, TypeOK, RunRow
<1>2. \A v \in Workers : IncidentOf(v)' = IncidentOf(v)
  BY <1>1 DEF IncidentOf
<1>3. b # 0 => revisions[i][b] # None
  BY <1>w, LastUsedIsLast DEF Backfilled, Bigger, Used, AllocationInv, AllocInv, Allocating
<1>4. \A r \in Revisions : r > b => revisions[i][r] = None
  BY <1>w, LastUsedIsLast DEF Backfilled, Bigger, Used, Revisions
<1> HIDE DEF b
<1>5. LockInv'
  BY <1>1, <1>2, <1>w DEF AllocationInv, LockInv, Allocating
<1>6. RevisionsOf(run[w].job) = {}
  BY DEF Allocate
<1>7. AllocInv'
  BY <1>1, <1>2, <1>3, <1>4, <1>6 DEF AllocationInv, AllocInv, RevisionsOf
<1>8. RevisedInv'
  BY <1>1, <1>2 DEF AllocationInv, RevisedInv, Revised
<1> QED
  BY <1>1, <1>5, <1>7, <1>8 DEF AllocationInv, HeadInv, RevisionChain

LEMMA InsertAllocation ==
  ASSUME TypeOK, AllocationInv, NEW w \in Workers, InsertRevision(w)
  PROVE  AllocationInv'
<1> DEFINE i == IncidentOf(w)
           b == run[w].base
           j == run[w].job
           row == Revision(Previous(b), j)
<1>w. /\ run[w].pc = "insert" /\ run[w] \in RunRow /\ i \in Incidents /\ j \in Jobs
      /\ b \in 0..MaxRevisions /\ b + 1 \in Revisions /\ MaxRevisions \in Nat
      /\ i = JobIncident[j]
  BY RunTypes, RevisionAssumption DEF InsertRevision, At, IncidentOf
<1>a. /\ \A r \in Revisions : r > b => revisions[i][r] = None
      /\ RevisionsOf(j) = {}
      /\ b # 0 => revisions[i][b] # None
  BY <1>w DEF AllocationInv, AllocInv, Allocating
<1>r. row # None /\ row.previous = Previous(b) /\ row.job = j
  BY <1>w, RowExists DEF Previous
<1>1. /\ \A v \in Workers : v # w => run'[v] = run[v]
      /\ run'[w] = WithRevision(w, b + 1)
      /\ \A k \in Incidents : k # i => revisions'[k] = revisions[k] /\ heads'[k] = heads[k]
      /\ \A r \in Revisions : r # b + 1 => revisions'[i][r] = revisions[i][r]
      /\ revisions'[i][b + 1] = row /\ heads'[i] = b + 1
  BY <1>w DEF InsertRevision, TypeOK
<1>2. run'[w].pc = "analyze" /\ run'[w].job = j /\ run'[w].revision = b + 1
  BY <1>1, RowTypes DEF WithRevision, RunRow
<1>3. \A v \in Workers : IncidentOf(v)' = IncidentOf(v)
  BY <1>1, <1>2 DEF IncidentOf
<1> HIDE DEF row
<1>4. LockInv'
  BY <1>1, <1>2, <1>3 DEF AllocationInv, LockInv, Allocating
<1>5. AllocInv'
  <2> SUFFICES ASSUME NEW v \in Workers, v # w, run[v].pc \in Allocating
               PROVE  /\ run[v].base # 0 => revisions'[IncidentOf(v)][run[v].base] # None
                      /\ run[v].pc = "insert" =>
                            /\ RevisionsOf(run[v].job)' = {}
                            /\ \A r \in Revisions :
                                  r > run[v].base => revisions'[IncidentOf(v)][r] = None
    BY <1>1, <1>2, <1>3 DEF AllocInv, Allocating, RevisionsOf
  <2>1. IncidentOf(v) # i /\ IncidentOf(v) \in Incidents
    BY <1>w, RunTypes DEF AllocationInv, LockInv, Allocating
  <2>2. revisions'[IncidentOf(v)] = revisions[IncidentOf(v)]
    BY <1>1, <2>1
  <2>3. RevisionsOf(run[v].job)' = RevisionsOf(run[v].job)
    BY <1>1, <2>2 DEF RevisionsOf, IncidentOf
  <2> QED
    BY <2>2, <2>3 DEF AllocationInv, AllocInv, Allocating
<1>6. HeadInv'
  BY <1>1, <1>r, <1>a, RevisionAssumption DEF AllocationInv, HeadInv, TypeOK, Revisions
<1>7. RevisedInv'
  <2>1. ASSUME NEW v \in Workers, v # w, run[v].pc \in Revised
        PROVE  revisions'[IncidentOf(v)][run[v].revision] = revisions[IncidentOf(v)][run[v].revision]
    <3>1. /\ revisions[IncidentOf(v)][run[v].revision] # None
          /\ IncidentOf(v) \in Incidents /\ run[v].revision \in Revisions
      BY <2>1, RunTypes DEF AllocationInv, RevisedInv, Revised
    <3>2. b + 1 > b
      BY <1>w
    <3>3. ~(IncidentOf(v) = i /\ run[v].revision = b + 1)
      BY <1>w, <1>a, <3>1, <3>2
    <3> QED
      BY <1>1, <3>1, <3>3
  <2> QED
    BY <1>1, <1>2, <1>3, <1>r, <2>1 DEF AllocationInv, RevisedInv
<1>8. RevisionChain'
  <2> SUFFICES ASSUME NEW k \in Incidents, NEW r \in Revisions, revisions'[k][r] # None
               PROVE  /\ revisions'[k][r].previous = IF r = 1 THEN None ELSE r - 1
                      /\ r > 1 => revisions'[k][r - 1] # None
                      /\ revisions'[k][r].job # None =>
                            /\ JobIncident[revisions'[k][r].job] = k
                            /\ \A q \in Revisions : revisions'[k][q] # None
                                  /\ revisions'[k][q].job = revisions'[k][r].job => q = r
    BY DEF RevisionChain
  <2>1. CASE k # i
    BY <1>1, <2>1 DEF AllocationInv, RevisionChain
  <2>2. \A q \in Revisions : revisions[i][q] # None => revisions[i][q].job # j
    BY <1>a, <1>w DEF RevisionsOf
  <2>3. CASE k = i /\ r = b + 1
    <3>1. r > 1 => b \in Revisions /\ b # 0 /\ r - 1 = b /\ b # b + 1
      BY <1>w, <2>3 DEF Revisions
    <3>2. r > 1 => revisions'[i][r - 1] # None
      BY <1>1, <1>a, <3>1
    <3>3. row.previous = IF r = 1 THEN None ELSE r - 1
      BY <1>r, <1>w, <2>3 DEF Previous
    <3>4. \A q \in Revisions : revisions'[i][q] # None /\ revisions'[i][q].job = j => q = r
      BY <1>1, <2>2, <2>3
    <3> QED
      BY <1>1, <1>r, <1>w, <2>3, <3>2, <3>3, <3>4
  <2>4. CASE k = i /\ r # b + 1
    <3>1. revisions'[i][r] = revisions[i][r]
      BY <1>1, <2>4
    <3>2. /\ revisions[i][r].previous = IF r = 1 THEN None ELSE r - 1
          /\ r > 1 => revisions[i][r - 1] # None
          /\ revisions[i][r].job # None =>
                /\ JobIncident[revisions[i][r].job] = i
                /\ \A q \in Revisions : revisions[i][q] # None
                      /\ revisions[i][q].job = revisions[i][r].job => q = r
      BY <2>4, <3>1 DEF AllocationInv, RevisionChain
    <3>3. revisions[i][r].job # j
      BY <2>2, <2>4, <3>1
    <3>4. r > 1 => revisions'[i][r - 1] # None
      <4>1. r > 1 => r - 1 \in Revisions
        BY RevisionAssumption DEF Revisions
      <4> QED
        BY <1>1, <1>r, <3>2, <4>1
    <3>5. \A q \in Revisions : revisions'[i][q] # None
             /\ revisions'[i][q].job = revisions[i][r].job => q = r \/ revisions[i][r].job = None
      BY <1>1, <1>r, <3>2, <3>3
    <3> QED
      BY <2>4, <3>1, <3>2, <3>4, <3>5
  <2> QED
    BY <2>1, <2>3, <2>4
<1> QED
  BY <1>4, <1>5, <1>6, <1>7, <1>8 DEF AllocationInv

LEMMA StepAllocation == TypeOK /\ AllocationInv /\ [Next]_vars => AllocationInv'
<1> SUFFICES ASSUME TypeOK, AllocationInv, [Next]_vars PROVE AllocationInv'
  OBVIOUS
<1>q. ASSUME NEW w \in Workers, NEW row, run' = [run EXCEPT ![w] = row],
             UNCHANGED <<heads, revisions>>,
             row.pc \notin Allocating /\ HasItsRevision(row)
      PROVE  AllocationInv'
  <2>1. \A v \in Workers : run'[v] = run[v] \/ run'[v] = row
    BY <1>q DEF TypeOK
  <2> QED
    BY <1>q, <2>1, QuietAllocation
<1>g. ASSUME NEW w \in Workers, NEW row, run' = [run EXCEPT ![w] = row],
             UNCHANGED <<heads, revisions>>, run[w].pc \in Revised,
             row.pc \in Revised, row.job = run[w].job, row.revision = run[w].revision
      PROVE  AllocationInv'
  <2>1. HasItsRevision(row)
    BY <1>g DEF HasItsRevision, AllocationInv, RevisedInv, IncidentOf
  <2> QED
    BY <1>g, <1>q, <2>1 DEF Allocating, Revised
<1>s. ASSUME NEW w \in Workers, Stops(w), UNCHANGED <<heads, revisions>>
      PROVE  AllocationInv'
  BY <1>s, <1>q DEF Stops, HasItsRevision, Idle, Allocating, Revised
<1>1. ASSUME NEW w \in Workers, Work(w) PROVE AllocationInv'
  <2>w. run[w].pc # "idle" => run[w] \in RunRow /\ run[w].job \in Jobs
    BY <1>1, RunTypes
  <2>1. CASE LockHead(w)
    BY <2>1, LockHeadAllocation
  <2>2. CASE AllocateAgain(w)
    <3>1. PICK r \in RevisionsOf(run[w].job) : run' = [run EXCEPT ![w] = WithRevision(w, r)]
      BY <2>2 DEF AllocateAgain
    <3>2. /\ WithRevision(w, r).pc = "analyze" /\ WithRevision(w, r).job = run[w].job
          /\ WithRevision(w, r).revision = r
      BY RowTypes DEF WithRevision, RunRow
    <3>3. HasItsRevision(WithRevision(w, r))
      BY <3>1, <3>2 DEF HasItsRevision, RevisionsOf
    <3> QED
      BY <1>q, <2>2, <3>1, <3>2, <3>3 DEF AllocateAgain, tables, Allocating
  <2>3. CASE Allocate(w)
    BY <2>3, AllocateAllocation
  <2>4. CASE InsertRevision(w)
    BY <2>4, InsertAllocation
  <2>5. CASE Resolved(w)
    BY <1>g, <2>5, <2>w DEF Resolved, At, Goes, tables, Revised, RunRow
  <2>6. CASE \E s \in State : Analyze(w, s)
    <3> PICK s \in State : Analyze(w, s)
      BY <2>6
    <3> DEFINE row == [run[w] EXCEPT !.pc = "snapshot", !.state = s]
    <3>1. row.pc = "snapshot" /\ row.job = run[w].job /\ row.revision = run[w].revision
      BY <2>w DEF Analyze, At, RunRow
    <3>2. run' = [run EXCEPT ![w] = row]
      BY DEF Analyze
    <3> QED
      BY <1>g, <3>1, <3>2 DEF Analyze, At, tables, Revised
  <2>7. CASE ReadBack(w)
    BY <1>g, <2>7, <2>w DEF ReadBack, At, Goes, tables, Revised, RunRow
  <2>8. CASE ReadLatest(w)
    <3> DEFINE l == [e \in Evidence |-> Len(records[IncidentOf(w)][e])]
               row == [run[w] EXCEPT !.pc = "write", !.latest = l]
    <3>1. run' = [run EXCEPT ![w] = row]
      BY <2>8 DEF ReadLatest
    <3> HIDE DEF l
    <3>2. row.pc = "write" /\ row.job = run[w].job /\ row.revision = run[w].revision
      BY <2>8, <2>w DEF ReadLatest, At, RunRow
    <3> QED
      BY <1>g, <2>8, <3>1, <3>2 DEF ReadLatest, At, tables, Revised
  <2>9. CASE WriteSnapshot(w)
    <3> DEFINE row == [run[w] EXCEPT !.pc = "diff", !.latest = NoLinks]
    <3>1. /\ run' = [run EXCEPT ![w] = row] /\ run[w].pc = "write"
          /\ UNCHANGED <<heads, revisions>>
      BY <2>9 DEF WriteSnapshot, At
    <3>2. row.pc = "diff" /\ row.job = run[w].job /\ row.revision = run[w].revision
      BY <2>w, <3>1 DEF RunRow
    <3> QED
      BY <1>g, <3>1, <3>2 DEF Revised
  <2>10. CASE Collides(w)
    BY <1>s, <2>10 DEF Collides, tables
  <2>11. CASE AddPending(w)
    <3> DEFINE row == [run[w] EXCEPT !.pc = "done", !.state = Blank]
    <3>1. /\ run' = [run EXCEPT ![w] = row] /\ run[w].pc = "diff"
          /\ UNCHANGED <<heads, revisions>>
      BY <2>11 DEF AddPending, At, tables
    <3>2. row.pc = "done" /\ row.job = run[w].job /\ row.revision = run[w].revision
      BY <2>w, <3>1 DEF RunRow
    <3> QED
      BY <1>g, <3>1, <3>2 DEF Revised
  <2>12. CASE Complete(w)
    BY <1>s, <2>12 DEF Complete, tables
  <2> QED
    BY <1>1, <2>1, <2>2, <2>3, <2>4, <2>5, <2>6, <2>7, <2>8, <2>9, <2>10, <2>11, <2>12
       DEF Work
<1>2. ASSUME NEW w \in Workers, Lose(w) PROVE AllocationInv'
  BY <1>2, <1>s DEF Lose, tables
<1>3. ASSUME NEW w \in Workers, NEW j \in Jobs, StartRun(w, j) PROVE AllocationInv'
  <2>1. [Idle EXCEPT !.pc = "lock", !.job = j].pc = "lock"
    BY DEF Idle
  <2> QED
    BY <1>3, <1>q, <2>1 DEF StartRun, tables, HasItsRevision, Allocating, Revised
<1>4. ASSUME UNCHANGED <<heads, revisions, run>> PROVE AllocationInv'
  BY <1>4, QuietAllocation
<1>5. ASSUME NEW i \in Incidents, Approve(i) \/ \E s \in State : AnalyzeAgain(i, s)
      PROVE  UNCHANGED <<heads, revisions, run>>
  BY <1>5 DEF Approve, AnalyzeAgain, tables
<1>6. CASE UNCHANGED vars
  BY <1>4, <1>6 DEF vars, tables
<1> QED
  BY <1>1, <1>2, <1>3, <1>4, <1>5, <1>6 DEF Next

-----------------------------------------------------------------------------
(* The theorems about the numbering of revisions.                          *)

Numbering == TypeOK /\ AllocationInv

LEMMA NumberingHolds == Spec => []Numbering
<1>1. Init => Numbering
  BY InitTypeOK, InitAllocation DEF Numbering
<1>2. Numbering /\ [Next]_vars => Numbering'
  BY StepTypeOK, StepAllocation DEF Numbering, AllocationInv
<1> QED
  BY <1>1, <1>2, PTL DEF Spec

(* Rows and handlers keep the columns and ranges the schema gives them     *)
(* (incident_store.py, the tables of _initialize).                         *)
THEOREM TypeCorrect == Spec => []TypeOK
BY NumberingHolds, PTL DEF Numbering

(* create_revision: no number and no job is ever taken twice, whichever    *)
(* workers race and whatever the head row has missed.                      *)
THEOREM AllocationsAreFree == Spec => []AllocationFree
<1>1. Numbering => AllocationFree
  <2> SUFFICES ASSUME Numbering, NEW w \in Workers, run[w].pc = "insert"
               PROVE  RevisionFree(w)
    BY DEF AllocationFree, At
  <2>1. run[w].base + 1 \in Revisions /\ run[w].base \in 0..MaxRevisions
    BY RunTypes DEF Numbering
  <2>2. run[w].base + 1 > run[w].base
    BY <2>1, RevisionAssumption
  <2> QED
    BY <2>1, <2>2 DEF Numbering, AllocationInv, AllocInv, RevisionFree
<1> QED
  BY <1>1, NumberingHolds, PTL

(* create_revision: the revisions of an incident form one unbroken chain,  *)
(* and a job that is run again gets the revision it has.                   *)
THEOREM RevisionsFormAChain == Spec => []RevisionChain
BY NumberingHolds, PTL DEF Numbering, AllocationInv

-----------------------------------------------------------------------------
(* Snapshots and evidence records are only ever added.                     *)

LEMMA OnlySnapshotsAdd ==
  [Next]_vars => UNCHANGED <<analyses, records>> \/ \E w \in Workers : WriteSnapshot(w)
<1> SUFFICES ASSUME [Next]_vars, \A w \in Workers : ~WriteSnapshot(w)
             PROVE  UNCHANGED <<analyses, records>>
  OBVIOUS
<1>1. ASSUME NEW w \in Workers, Work(w) PROVE UNCHANGED <<analyses, records>>
  BY <1>1 DEF Work, LockHead, AllocateAgain, Allocate, InsertRevision, Resolved, Analyze,
              ReadBack, ReadLatest, Collides, AddPending, Complete, tables
<1>2. ASSUME NEW w \in Workers, Lose(w) \/ \E j \in Jobs : StartRun(w, j)
      PROVE  UNCHANGED <<analyses, records>>
  BY <1>2 DEF Lose, StartRun, tables
<1>3. ASSUME NEW i \in Incidents, Approve(i) \/ \E s \in State : AnalyzeAgain(i, s)
      PROVE  UNCHANGED <<analyses, records>>
  BY <1>3 DEF Approve, AnalyzeAgain, tables
<1> QED
  BY <1>1, <1>2, <1>3 DEF Next, vars, tables

(* What a worker writes: the links of its snapshot and the new versions.   *)
Links(w) == [e \in Evidence |->
               IF run[w].state[e] = None THEN 0
               ELSE run[w].latest[e] + (IF e \in NewEvidence(w) THEN 1 ELSE 0)]

LEMMA SnapshotWrites ==
  ASSUME TypeOK, RevisedInv, NEW w \in Workers, WriteSnapshot(w)
  PROVE  LET i == IncidentOf(w)
             r == run[w].revision
         IN  /\ i \in Incidents /\ r \in Revisions
             /\ run[w].state \in State /\ run[w].latest \in LinkRow /\ Links(w) \in LinkRow
             /\ analyses[i][r] = None /\ revisions[i][r] # None
             /\ UNCHANGED revisions
             /\ analyses'[i][r] = Analysis(Parent(i, r), run[w].state, Links(w))
             /\ \A k \in Incidents, q \in Revisions :
                   k # i \/ q # r => analyses'[k][q] = analyses[k][q]
             /\ \A k \in Incidents : k # i => records'[k] = records[k]
             /\ \A e \in Evidence : e \notin NewEvidence(w) =>
                   records'[i][e] = records[i][e]
             /\ \A e \in NewEvidence(w) :
                   /\ Len(records[i][e]) = run[w].latest[e]
                   /\ run[w].state[e] \notin ContentsOf(i, e)
                   /\ records'[i][e] =
                         Append(records[i][e], EvidenceRecord(run[w].state[e], r))
<1> DEFINE i == IncidentOf(w)
           r == run[w].revision
<1>1. /\ i \in Incidents /\ r \in Revisions
      /\ run[w].state \in State /\ run[w].latest \in LinkRow
  BY RunTypes DEF WriteSnapshot, At, Revised
<1>2. Links(w) \in LinkRow
  BY <1>1 DEF Links, LinkRow
<1>3. revisions[i][r] # None
  BY DEF WriteSnapshot, At, Revised, RevisedInv
<1>4. SnapshotFree(w)
  BY DEF WriteSnapshot
<1>5. /\ analyses[i][r] = None
      /\ \A e \in NewEvidence(w) : /\ Len(records[i][e]) = run[w].latest[e]
                                    /\ run[w].state[e] \notin ContentsOf(i, e)
  BY <1>4 DEF SnapshotFree, Snapshot
<1>6. /\ UNCHANGED revisions
      /\ analyses' = [analyses EXCEPT ![i][r] = Analysis(Parent(i, r), run[w].state, Links(w))]
      /\ records' = [records EXCEPT ![i] = [e \in Evidence |->
                IF e \in NewEvidence(w)
                THEN Append(records[i][e], EvidenceRecord(run[w].state[e], r))
                ELSE records[i][e]]]
  BY DEF WriteSnapshot, Links
<1>7. NewEvidence(w) \subseteq Evidence
  BY DEF NewEvidence, Members
<1>8. /\ analyses'[i][r] = Analysis(Parent(i, r), run[w].state, Links(w))
      /\ \A k \in Incidents, q \in Revisions :
            k # i \/ q # r => analyses'[k][q] = analyses[k][q]
  BY <1>1, <1>6 DEF TypeOK
<1>9. /\ \A k \in Incidents : k # i => records'[k] = records[k]
      /\ records'[i] = [e \in Evidence |->
                IF e \in NewEvidence(w)
                THEN Append(records[i][e], EvidenceRecord(run[w].state[e], r))
                ELSE records[i][e]]
  BY <1>1, <1>6 DEF TypeOK
<1> QED
  BY <1>1, <1>2, <1>3, <1>5, <1>6, <1>7, <1>8, <1>9

LEMMA RecordsGrow ==
  ASSUME TypeOK, RevisedInv, [Next]_vars, NEW i \in Incidents, NEW e \in Evidence
  PROVE  /\ Len(records[i][e]) \in Nat /\ Len(records'[i][e]) \in Nat
         /\ Len(records[i][e]) <= Len(records'[i][e])
         /\ \A v \in 1..Len(records[i][e]) : records'[i][e][v] = records[i][e][v]
<1>1. records[i][e] \in Seq(RecordRow) /\ Len(records[i][e]) \in Nat
  BY DEF TypeOK
<1>2. CASE UNCHANGED <<analyses, records>>
  BY <1>1, <1>2
<1>3. ASSUME NEW w \in Workers, WriteSnapshot(w)
      PROVE  \/ records'[i][e] = records[i][e]
             \/ records'[i][e] =
                   Append(records[i][e], EvidenceRecord(run[w].state[e], run[w].revision))
                   /\ EvidenceRecord(run[w].state[e], run[w].revision) \in RecordRow
  <2>1. CASE i # IncidentOf(w) \/ e \notin NewEvidence(w)
    BY <1>3, <2>1, SnapshotWrites
  <2>2. CASE i = IncidentOf(w) /\ e \in NewEvidence(w)
    <3>1. run[w].state[e] \in Contents
      BY <1>3, <2>2, SnapshotWrites DEF NewEvidence, Members, State
    <3>2. EvidenceRecord(run[w].state[e], run[w].revision) \in RecordRow
      BY <1>3, <3>1, SnapshotWrites DEF EvidenceRecord, RecordRow
    <3> QED
      BY <1>3, <2>2, <3>2, SnapshotWrites
  <2> QED
    BY <2>1, <2>2
<1> QED
  BY <1>1, <1>2, <1>3, OnlySnapshotsAdd

(* A snapshot that is stored stays as it is.                               *)
LEMMA SnapshotsStay ==
  ASSUME TypeOK, RevisedInv, [Next]_vars, NEW i \in Incidents, NEW r \in Revisions,
         analyses[i][r] # None
  PROVE  analyses'[i][r] = analyses[i][r]
<1>1. ASSUME NEW w \in Workers, WriteSnapshot(w) PROVE analyses'[i][r] = analyses[i][r]
  BY <1>1, SnapshotWrites
<1> QED
  BY <1>1, OnlySnapshotsAdd

LEMMA RevisionsStay ==
  ASSUME TypeOK, AllocationInv, [Next]_vars, NEW i \in Incidents, NEW r \in Revisions,
         revisions[i][r] # None
  PROVE  revisions'[i][r] = revisions[i][r]
<1>1. ASSUME NEW w \in Workers, InsertRevision(w) PROVE revisions'[i][r] = revisions[i][r]
  <2>1. /\ IncidentOf(w) \in Incidents /\ run[w].base + 1 \in Revisions
    BY <1>1, RunTypes DEF InsertRevision, At
  <2>2. revisions[IncidentOf(w)][run[w].base + 1] = None
    BY <1>1 DEF InsertRevision, RevisionFree
  <2>3. revisions' = [revisions EXCEPT ![IncidentOf(w)][run[w].base + 1] =
                        Revision(Previous(run[w].base), run[w].job)]
    BY <1>1 DEF InsertRevision
  <2> QED
    BY <2>1, <2>2, <2>3 DEF TypeOK
<1>2. ASSUME NEW w \in Workers, Work(w), ~InsertRevision(w) PROVE UNCHANGED revisions
  BY <1>2 DEF Work, LockHead, AllocateAgain, Allocate, Resolved, Analyze,
              ReadBack, ReadLatest, WriteSnapshot, Collides, AddPending, Complete, tables
<1>3. ASSUME NEW w \in Workers, Lose(w) \/ \E j \in Jobs : StartRun(w, j)
      PROVE  UNCHANGED revisions
  BY <1>3 DEF Lose, StartRun, tables
<1>4. ASSUME NEW k \in Incidents, Approve(k) \/ \E s \in State : AnalyzeAgain(k, s)
      PROVE  UNCHANGED revisions
  BY <1>4 DEF Approve, AnalyzeAgain, tables
<1> QED
  BY <1>1, <1>2, <1>3, <1>4 DEF Next, vars, tables

(* _append_analysis_evidence, record_analysis_revision, create_revision:   *)
(* no retried or late worker rewrites what a reviewer may have seen.       *)
THEOREM StoredStays == Spec => NothingRewritten
<1> DEFINE Kept ==
      \A i \in Incidents :
         /\ \A r \in Revisions :
               /\ revisions[i][r] # None => revisions'[i][r] = revisions[i][r]
               /\ analyses[i][r] # None => analyses'[i][r] = analyses[i][r]
         /\ \A e \in Evidence : \A v \in 1..Len(records[i][e]) :
               records'[i][e][v] = records[i][e][v]
<1>1. Numbering /\ [Next]_vars => Kept
  <2> SUFFICES ASSUME Numbering, [Next]_vars PROVE Kept
    OBVIOUS
  <2>1. TypeOK /\ AllocationInv /\ RevisedInv
    BY DEF Numbering, AllocationInv
  <2> QED
    BY <2>1, RevisionsStay, SnapshotsStay, RecordsGrow
<1>2. Numbering /\ [Next]_vars => [Kept]_vars
  BY <1>1
<1> QED
  BY <1>2, NumberingHolds, PTL DEF Spec, NothingRewritten

-----------------------------------------------------------------------------
(* What a stored snapshot says.                                            *)

(* A version of an evidence record that a worker has read is still there.  *)
LatestInv ==
    \A w \in Workers : run[w].pc = "write" =>
       \A e \in Evidence : run[w].latest[e] <= Len(records[IncidentOf(w)][e])

(* No content is stored under two versions.                                *)
DistinctInv ==
    \A i \in Incidents, e \in Evidence : \A u, v \in 1..Len(records[i][e]) :
       records[i][e][u].content = records[i][e][v].content => u = v

(* A snapshot comes from its revision and links the contents it found.     *)
LinkedRight(i, r) ==
    LET a == analyses[i][r]
    IN  \A e \in Evidence :
          IF a.state[e] = None THEN a.links[e] = 0
          ELSE /\ a.links[e] \in 1..Len(records[i][e])
               /\ records[i][e][a.links[e]].content = a.state[e]

SnapshotInv ==
    \A i \in Incidents, r \in Revisions : analyses[i][r] # None =>
       /\ revisions[i][r] # None
       /\ analyses[i][r].previous = IF r = 1 THEN None ELSE r - 1
       /\ analyses[i][r].members = Members(analyses[i][r].state)
       /\ LinkedRight(i, r)

StoreInv == LatestInv /\ DistinctInv /\ SnapshotInv

LEMMA InitStore == Init => StoreInv
<1> SUFFICES ASSUME Init PROVE StoreInv
  OBVIOUS
<1>1. LatestInv
  BY DEF Init, LatestInv, Idle
<1>2. \A i \in Incidents, e \in Evidence : records[i][e] = <<>>
  BY DEF Init
<1>3. DistinctInv
  BY <1>2 DEF DistinctInv
<1>4. SnapshotInv
  BY DEF Init, SnapshotInv
<1> QED
  BY <1>1, <1>3, <1>4 DEF StoreInv

(* Only reading makes a worker ready to write.                             *)
LEMMA OnlyReadersWrite ==
  ASSUME TypeOK, [Next]_vars, NEW v \in Workers, run'[v].pc = "write"
  PROVE  run'[v] = run[v] \/ ReadLatest(v)
<1>e. \A w \in Workers : \A row : run' = [run EXCEPT ![w] = row] =>
        run'[v] = run[v] \/ (v = w /\ run'[v] = row)
  BY DEF TypeOK
<1>s. ASSUME NEW w \in Workers, Stops(w) PROVE run'[v] = run[v]
  BY <1>s, <1>e DEF Stops, Idle
<1>1. ASSUME NEW w \in Workers, Work(w) PROVE run'[v] = run[v] \/ ReadLatest(v)
  <2>w. run[w].pc # "idle" => run[w] \in RunRow
    BY RunTypes
  <2>p. ASSUME NEW row, run' = [run EXCEPT ![w] = row], row.pc # "write"
        PROVE  run'[v] = run[v]
    BY <2>p, <1>e
  <2>1. CASE LockHead(w)
    <3>1. run[w].pc = "lock" /\ run' = [run EXCEPT ![w] =
            [run[w] EXCEPT !.pc = "allocate", !.base = heads[IncidentOf(w)]]]
      BY <2>1 DEF LockHead, At
    <3>2. [run[w] EXCEPT !.pc = "allocate", !.base = heads[IncidentOf(w)]].pc = "allocate"
      BY <3>1, <2>w DEF RunRow
    <3> QED
      BY <2>p, <3>1, <3>2
  <2>2. CASE AllocateAgain(w) \/ InsertRevision(w)
    <3>1. \A r : WithRevision(w, r).pc = "analyze"
      BY DEF WithRevision, Idle
    <3>2. \E r : run' = [run EXCEPT ![w] = WithRevision(w, r)]
      BY <2>2 DEF AllocateAgain, InsertRevision
    <3> QED
      BY <2>p, <3>1, <3>2
  <2>3. CASE Allocate(w)
    <3> DEFINE b == Backfilled(IncidentOf(w), run[w].base)
    <3>1. run[w].pc = "allocate" /\ run' = [run EXCEPT ![w] =
            [run[w] EXCEPT !.pc = "insert", !.base = b]]
      BY <2>3 DEF Allocate, At
    <3> HIDE DEF b
    <3>2. [run[w] EXCEPT !.pc = "insert", !.base = b].pc = "insert"
      BY <3>1, <2>w DEF RunRow
    <3> QED
      BY <2>p, <3>1, <3>2
  <2>4. CASE Resolved(w) \/ ReadBack(w)
    <3>1. run[w] \in RunRow /\ \E pc \in {"done", "diff"} : Goes(w, pc)
      BY <2>4, <2>w DEF Resolved, ReadBack, At
    <3>2. PICK pc \in {"done", "diff"} : run' = [run EXCEPT ![w] = [run[w] EXCEPT !.pc = pc]]
      BY <3>1 DEF Goes
    <3>3. [run[w] EXCEPT !.pc = pc].pc = pc
      BY <3>1 DEF RunRow
    <3> QED
      BY <2>p, <3>2, <3>3
  <2>5. CASE \E s \in State : Analyze(w, s)
    <3>1. PICK s \in State : /\ run[w].pc = "analyze"
                            /\ run' = [run EXCEPT ![w] =
                                 [run[w] EXCEPT !.pc = "snapshot", !.state = s]]
      BY <2>5 DEF Analyze, At
    <3>2. [run[w] EXCEPT !.pc = "snapshot", !.state = s].pc = "snapshot"
      BY <2>w, <3>1 DEF RunRow
    <3> QED
      BY <2>p, <3>1, <3>2
  <2>6. CASE ReadLatest(w)
    <3>1. \E row : run' = [run EXCEPT ![w] = row]
      BY <2>6 DEF ReadLatest
    <3> QED
      BY <1>e, <2>6, <3>1
  <2>7. CASE WriteSnapshot(w)
    <3>1. run[w].pc = "write" /\ run' = [run EXCEPT ![w] =
            [run[w] EXCEPT !.pc = "diff", !.latest = NoLinks]]
      BY <2>7 DEF WriteSnapshot, At
    <3>2. [run[w] EXCEPT !.pc = "diff", !.latest = NoLinks].pc = "diff"
      BY <2>w, <3>1 DEF RunRow
    <3> QED
      BY <2>p, <3>1, <3>2
  <2>8. CASE AddPending(w)
    <3>1. run[w].pc = "diff" /\ run' = [run EXCEPT ![w] =
            [run[w] EXCEPT !.pc = "done", !.state = Blank]]
      BY <2>8 DEF AddPending, At
    <3>2. [run[w] EXCEPT !.pc = "done", !.state = Blank].pc = "done"
      BY <2>w, <3>1 DEF RunRow
    <3> QED
      BY <2>p, <3>1, <3>2
  <2>9. CASE Collides(w) \/ Complete(w)
    BY <1>s, <2>9 DEF Collides, Complete
  <2> QED
    BY <1>1, <2>1, <2>2, <2>3, <2>4, <2>5, <2>6, <2>7, <2>8, <2>9 DEF Work
<1>2. ASSUME NEW w \in Workers, Lose(w) PROVE run'[v] = run[v]
  BY <1>2, <1>s DEF Lose
<1>3. ASSUME NEW w \in Workers, NEW j \in Jobs, StartRun(w, j) PROVE run'[v] = run[v]
  <2>1. [Idle EXCEPT !.pc = "lock", !.job = j].pc = "lock"
    BY DEF Idle
  <2> QED
    BY <1>3, <1>e, <2>1 DEF StartRun
<1>4. ASSUME NEW i \in Incidents, Approve(i) \/ \E s \in State : AnalyzeAgain(i, s)
      PROVE  run' = run
  BY <1>4 DEF Approve, AnalyzeAgain
<1> QED
  BY <1>1, <1>2, <1>3, <1>4 DEF Next, vars

LEMMA StepLatest ==
  ASSUME TypeOK, RevisedInv, LatestInv, [Next]_vars
  PROVE  LatestInv'
<1> SUFFICES ASSUME NEW v \in Workers, run'[v].pc = "write", NEW e \in Evidence
             PROVE  run'[v].latest[e] <= Len(records'[JobIncident[run'[v].job]][e])
  BY DEF LatestInv, IncidentOf
<1>1. CASE run'[v] = run[v]
  <2>1. /\ IncidentOf(v) \in Incidents /\ run[v].latest[e] \in Nat
        /\ run[v].latest[e] <= Len(records[IncidentOf(v)][e])
    BY <1>1, RunTypes DEF LatestInv, LinkRow
  <2> QED
    BY <1>1, <2>1, RecordsGrow DEF IncidentOf
<1>2. CASE ReadLatest(v)
  <2> DEFINE l == [x \in Evidence |-> Len(records[IncidentOf(v)][x])]
  <2>1. /\ run[v] \in RunRow /\ IncidentOf(v) \in Incidents
        /\ run' = [run EXCEPT ![v] = [run[v] EXCEPT !.pc = "write", !.latest = l]]
        /\ UNCHANGED records
    BY <1>2, RunTypes DEF ReadLatest, At, tables
  <2>2. l[e] = Len(records[IncidentOf(v)][e])
    OBVIOUS
  <2> HIDE DEF l
  <2>3. run'[v].latest = l /\ run'[v].job = run[v].job
    BY <2>1 DEF TypeOK, RunRow
  <2>4. Len(records[IncidentOf(v)][e]) \in Nat
    BY <2>1 DEF TypeOK
  <2> QED
    BY <2>1, <2>2, <2>3, <2>4 DEF IncidentOf
<1> QED
  BY <1>1, <1>2, OnlyReadersWrite

LEMMA StepDistinct ==
  ASSUME TypeOK, RevisedInv, DistinctInv, [Next]_vars
  PROVE  DistinctInv'
<1>1. ASSUME NEW w \in Workers, WriteSnapshot(w),
             NEW i \in Incidents, NEW e \in Evidence,
             NEW u \in 1..Len(records'[i][e]), NEW v \in 1..Len(records'[i][e]),
             records'[i][e][u].content = records'[i][e][v].content
      PROVE  u = v
  <2>1. records[i][e] \in Seq(RecordRow)
    BY DEF TypeOK
  <2>2. CASE i # IncidentOf(w) \/ e \notin NewEvidence(w)
    BY <1>1, <2>2, SnapshotWrites DEF DistinctInv
  <2>3. CASE i = IncidentOf(w) /\ e \in NewEvidence(w)
    <3> DEFINE n == Len(records[i][e])
               x == EvidenceRecord(run[w].state[e], run[w].revision)
    <3>1. records'[i][e] = Append(records[i][e], x) /\ run[w].state[e] \notin ContentsOf(i, e)
      BY <1>1, <2>3, SnapshotWrites
    <3>2. x.content = run[w].state[e] /\ x \in RecordRow
      BY <1>1, <2>3, SnapshotWrites
         DEF EvidenceRecord, RecordRow, NewEvidence, Members, State
    <3> HIDE DEF x
    <3>3. /\ n \in Nat /\ Len(records'[i][e]) = n + 1
          /\ \A k \in 1..n : records'[i][e][k] = records[i][e][k]
          /\ records'[i][e][n + 1] = x
      BY <2>1, <3>1, <3>2
    <3>4. \A k \in 1..n : records[i][e][k].content # run[w].state[e]
      BY <3>1 DEF ContentsOf
    <3>5. \A j, k \in 1..n : records[i][e][j].content = records[i][e][k].content => j = k
      BY DEF DistinctInv
    <3>6. /\ u = n + 1 \/ u \in 1..n
          /\ v = n + 1 \/ v \in 1..n
      BY <3>3
    <3> HIDE DEF n
    <3> QED
      BY <1>1, <3>2, <3>3, <3>4, <3>5, <3>6
  <2> QED
    BY <2>2, <2>3
<1>2. CASE UNCHANGED <<analyses, records>>
  BY <1>2 DEF DistinctInv
<1> QED
  BY <1>1, <1>2, OnlySnapshotsAdd DEF DistinctInv

LEMMA StepSnapshots ==
  ASSUME TypeOK, AllocationInv, LatestInv, SnapshotInv, [Next]_vars
  PROVE  SnapshotInv'
<1>a. RevisedInv /\ RevisionChain
  BY DEF AllocationInv
<1> SUFFICES ASSUME NEW i \in Incidents, NEW r \in Revisions, analyses'[i][r] # None
             PROVE  /\ revisions'[i][r] # None
                    /\ analyses'[i][r].previous = IF r = 1 THEN None ELSE r - 1
                    /\ analyses'[i][r].members = Members(analyses'[i][r].state)
                    /\ LinkedRight(i, r)'
  BY DEF SnapshotInv
<1>1. CASE analyses[i][r] # None
  <2>1. analyses'[i][r] = analyses[i][r] /\ LinkedRight(i, r)
    BY <1>1, <1>a, SnapshotsStay DEF SnapshotInv
  <2>2. revisions'[i][r] # None
    BY <1>1, RevisionsStay DEF SnapshotInv
  <2>3. LinkedRight(i, r)'
    <3> SUFFICES ASSUME NEW e \in Evidence, analyses[i][r].state[e] # None
                 PROVE  /\ analyses[i][r].links[e] \in 1..Len(records'[i][e])
                        /\ records'[i][e][analyses[i][r].links[e]].content
                              = analyses[i][r].state[e]
      BY <2>1 DEF LinkedRight
    <3>1. /\ analyses[i][r].links[e] \in 1..Len(records[i][e])
          /\ records[i][e][analyses[i][r].links[e]].content = analyses[i][r].state[e]
      BY <2>1 DEF LinkedRight
    <3>2. /\ Len(records[i][e]) \in Nat /\ Len(records'[i][e]) \in Nat
          /\ Len(records[i][e]) <= Len(records'[i][e])
          /\ \A v \in 1..Len(records[i][e]) : records'[i][e][v] = records[i][e][v]
      BY <1>a, RecordsGrow
    <3>3. analyses[i][r].links[e] \in 1..Len(records'[i][e])
      BY <3>1, <3>2
    <3> QED
      BY <3>1, <3>2, <3>3
  <2> QED
    BY <1>1, <2>1, <2>2, <2>3 DEF SnapshotInv
<1>2. CASE analyses[i][r] = None
  <2>1. PICK w \in Workers : WriteSnapshot(w)
    BY <1>2, OnlySnapshotsAdd
  <2>2. i = IncidentOf(w) /\ r = run[w].revision
    BY <1>2, <1>a, <2>1, SnapshotWrites
  <2>3. /\ analyses'[i][r] = Analysis(Parent(i, r), run[w].state, Links(w))
        /\ revisions'[i][r] # None /\ revisions[i][r] # None
        /\ run[w].state \in State /\ run[w].latest \in LinkRow
    BY <1>a, <2>1, <2>2, SnapshotWrites
  <2>4. Parent(i, r) = IF r = 1 THEN None ELSE r - 1
    BY <1>a, <2>3 DEF Parent, RevisionChain
  <2>5. /\ analyses'[i][r].previous = Parent(i, r) /\ analyses'[i][r].state = run[w].state
        /\ analyses'[i][r].members = Members(run[w].state)
        /\ analyses'[i][r].links = Links(w)
    BY <2>3 DEF Analysis
  <2>6. LinkedRight(i, r)'
    <3> SUFFICES ASSUME NEW e \in Evidence
                 PROVE  IF run[w].state[e] = None THEN Links(w)[e] = 0
                        ELSE /\ Links(w)[e] \in 1..Len(records'[i][e])
                             /\ records'[i][e][Links(w)[e]].content = run[w].state[e]
      BY <2>5 DEF LinkedRight
    <3>0. /\ run[w].latest[e] \in Nat
          /\ run[w].latest[e] <= Len(records[i][e]) /\ Len(records[i][e]) \in Nat
      BY <2>1, <2>2, <2>3 DEF LatestInv, WriteSnapshot, At, LinkRow, TypeOK
    <3>1. CASE run[w].state[e] = None
      BY <3>1 DEF Links
    <3>2. CASE e \in NewEvidence(w)
      <4>1. run[w].state[e] \in Contents
        BY <2>3, <3>2 DEF NewEvidence, Members, State
      <4>2. EvidenceRecord(run[w].state[e], r) \in RecordRow
        BY <4>1 DEF EvidenceRecord, RecordRow
      <4>3. /\ Len(records[i][e]) = run[w].latest[e]
            /\ records'[i][e] = Append(records[i][e], EvidenceRecord(run[w].state[e], r))
        BY <1>a, <2>1, <2>2, <3>2, SnapshotWrites
      <4>4. records[i][e] \in Seq(RecordRow)
        BY DEF TypeOK
      <4>5. /\ Len(records'[i][e]) = run[w].latest[e] + 1
            /\ records'[i][e][run[w].latest[e] + 1] = EvidenceRecord(run[w].state[e], r)
        BY <4>2, <4>3, <4>4
      <4>6. Links(w)[e] = run[w].latest[e] + 1 /\ run[w].state[e] # None
        BY <3>2, <4>1, RevisionAssumption DEF Links
      <4>7. EvidenceRecord(run[w].state[e], r).content = run[w].state[e]
        BY DEF EvidenceRecord
      <4> QED
        BY <3>0, <4>5, <4>6, <4>7
    <3>3. CASE run[w].state[e] # None /\ e \notin NewEvidence(w)
      <4>1. Same(i, e, run[w].latest[e], run[w].state[e])
        BY <2>2, <3>3 DEF NewEvidence, Members
      <4>2. /\ run[w].latest[e] \in 1..Len(records[i][e])
            /\ records[i][e][run[w].latest[e]].content = run[w].state[e]
        BY <3>0, <4>1 DEF Same
      <4>3. records'[i][e] = records[i][e]
        BY <1>a, <2>1, <2>2, <3>3, SnapshotWrites
      <4>4. Links(w)[e] = run[w].latest[e]
        BY <3>0, <3>3 DEF Links
      <4> QED
        BY <3>3, <4>2, <4>3, <4>4
    <3> QED
      BY <3>1, <3>2, <3>3
  <2> QED
    BY <2>3, <2>4, <2>5, <2>6
<1> QED
  BY <1>1, <1>2

Stored == Numbering /\ StoreInv

LEMMA StoredHolds == Spec => []Stored
<1>1. Init => StoreInv
  BY InitStore
<1>2. Numbering /\ StoreInv /\ [Next]_vars => StoreInv'
  BY StepLatest, StepDistinct, StepSnapshots DEF Numbering, AllocationInv, StoreInv
<1> QED
  BY <1>1, <1>2, NumberingHolds, PTL DEF Spec, Stored

(* record_analysis_revision: a snapshot hangs below the revision allocated *)
(* before its own, whichever worker writes first.                          *)
THEOREM SnapshotsFollowTheChain == Spec => []AnalysisFollowsChain
<1>1. Stored => AnalysisFollowsChain
  BY DEF Stored, StoreInv, SnapshotInv, AnalysisFollowsChain
<1> QED
  BY <1>1, StoredHolds, PTL

(* What a snapshot links are its members.                                  *)
LEMMA LinkedMembers ==
  ASSUME Stored, NEW i \in Incidents, NEW r \in Revisions, analyses[i][r] # None
  PROVE  /\ Linked(i, r) = analyses[i][r].members
         /\ analyses[i][r].members = Members(analyses[i][r].state)
         /\ \A e \in Linked(i, r) :
               /\ analyses[i][r].links[e] \in 1..Len(records[i][e])
               /\ records[i][e][analyses[i][r].links[e]].content = analyses[i][r].state[e]
<1>1. LinkedRight(i, r) /\ analyses[i][r].members = Members(analyses[i][r].state)
  BY DEF Stored, StoreInv, SnapshotInv
<1>2. \A e \in Evidence : analyses[i][r].links[e] # 0 <=> analyses[i][r].state[e] # None
  BY <1>1 DEF LinkedRight
<1> QED
  BY <1>1, <1>2 DEF LinkedRight, Linked, Members

(* record_analysis_revision, validate_analysis_evidence: the snapshot of a *)
(* revision is valid for good and links exactly what its analysis found.   *)
THEOREM SnapshotsAreExact == Spec => []SnapshotExact
<1>1. Stored => SnapshotExact
  BY LinkedMembers DEF SnapshotExact, Valid
<1> QED
  BY <1>1, StoredHolds, PTL

-----------------------------------------------------------------------------
(* What a reviewer is shown, and what an approval keeps.                   *)

ShownInv ==
    \A i \in Incidents : pending[i].open /\ pending[i].diff.base # 0 =>
       \E r \in Revisions : /\ pending[i].revision = r
                           /\ analyses[i][r] # None
                           /\ pending[i].diff = Diff(i, r)

ApprovedInv ==
    \A a \in approvals : a.revision # 0 =>
       /\ analyses[a.incident][a.revision] # None
       /\ a.evidence = analyses[a.incident][a.revision].members

(* Who changes the review row, and how.                                    *)
LEMMA PendingChanges ==
  ASSUME TypeOK, [Next]_vars, NEW i \in Incidents
  PROVE  \/ pending'[i] = pending[i]
         \/ pending'[i].diff.base = 0
         \/ \E w \in Workers : /\ AddPending(w) /\ i = IncidentOf(w)
                               /\ run[w].revision \in Revisions
                               /\ pending'[i].revision = run[w].revision
                               /\ pending'[i].diff = Diff(i, run[w].revision)
<1>1. ASSUME NEW w \in Workers, AddPending(w)
      PROVE  \/ pending'[i] = pending[i]
             \/ /\ i = IncidentOf(w) /\ run[w].revision \in Revisions
                /\ pending'[i].revision = run[w].revision
                /\ pending'[i].diff = Diff(i, run[w].revision)
  <2>1. /\ IncidentOf(w) \in Incidents /\ run[w].revision \in Revisions
    BY <1>1, RunTypes DEF AddPending, At, Revised
  <2>2. pending' = [pending EXCEPT ![IncidentOf(w)] =
                [open |-> TRUE, revision |-> run[w].revision, state |-> run[w].state,
                 diff |-> Diff(IncidentOf(w), run[w].revision)]]
    BY <1>1 DEF AddPending
  <2> QED
    BY <2>1, <2>2 DEF TypeOK
<1>2. ASSUME NEW w \in Workers, Work(w), ~AddPending(w) PROVE UNCHANGED pending
  BY <1>2 DEF Work, LockHead, AllocateAgain, Allocate, InsertRevision, Resolved, Analyze,
              ReadBack, ReadLatest, WriteSnapshot, Collides, Complete, tables
<1>3. ASSUME NEW w \in Workers, Lose(w) \/ \E j \in Jobs : StartRun(w, j)
      PROVE  UNCHANGED pending
  BY <1>3 DEF Lose, StartRun, tables
<1>4. ASSUME NEW k \in Incidents, Approve(k) \/ \E s \in State : AnalyzeAgain(k, s)
      PROVE  pending'[i] = pending[i] \/ pending'[i].diff.base = 0
  <2>1. CASE Approve(k)
    <3>1. pending' = [pending EXCEPT ![k] = NoPending]
      BY <2>1 DEF Approve
    <3> QED
      BY <3>1 DEF TypeOK, NoPending, NoDiff
  <2>2. CASE \E s \in State : AnalyzeAgain(k, s)
    <3>1. PICK s \in State :
            pending' = [pending EXCEPT ![k] = [NoPending EXCEPT !.open = TRUE, !.state = s]]
      BY <2>2 DEF AnalyzeAgain
    <3>2. [NoPending EXCEPT !.open = TRUE, !.state = s].diff = NoDiff
      BY DEF NoPending
    <3> QED
      BY <3>1, <3>2 DEF TypeOK, NoDiff
  <2> QED
    BY <1>4, <2>1, <2>2
<1> QED
  BY <1>1, <1>2, <1>3, <1>4 DEF Next, vars

(* The difference of two stored snapshots stays what it is.                *)
LEMMA DiffStays ==
  ASSUME Stored, [Next]_vars, NEW i \in Incidents, NEW r \in Revisions,
         analyses[i][r] # None, Diff(i, r).base # 0
  PROVE  Diff(i, r)' = Diff(i, r)
<1> DEFINE p == analyses[i][r].previous
<1>s. TypeOK /\ RevisedInv
  BY DEF Stored, Numbering, AllocationInv
<1>1. p # None /\ analyses[i][p] # None
  BY DEF Diff, NoDiff
<1>2. p \in Revisions
  BY <1>s, <1>1 DEF TypeOK, AnalysisRow
<1>3. analyses'[i][r] = analyses[i][r] /\ analyses'[i][p] = analyses[i][p]
  BY <1>s, <1>1, <1>2, SnapshotsStay
<1> QED
  BY <1>1, <1>3 DEF Diff, Linked, Changed

LEMMA StepShown == Stored /\ ShownInv /\ [Next]_vars => ShownInv'
<1> SUFFICES ASSUME Stored, ShownInv, [Next]_vars, NEW i \in Incidents,
                    pending'[i].open, pending'[i].diff.base # 0
             PROVE  \E r \in Revisions : /\ pending'[i].revision = r
                                         /\ analyses'[i][r] # None
                                         /\ pending'[i].diff = Diff(i, r)'
  BY DEF ShownInv
<1>s. TypeOK /\ RevisedInv
  BY DEF Stored, Numbering, AllocationInv
<1>d. ASSUME NEW r \in Revisions, analyses[i][r] # None,
             pending'[i].revision = r, pending'[i].diff = Diff(i, r)
      PROVE  analyses'[i][r] # None /\ pending'[i].diff = Diff(i, r)'
  <2>1. Diff(i, r)' = Diff(i, r)
    BY <1>d, DiffStays
  <2> QED
    BY <1>d, <1>s, <2>1, SnapshotsStay
<1>1. CASE pending'[i] = pending[i]
  <2>1. PICK r \in Revisions : /\ pending[i].revision = r /\ analyses[i][r] # None
                              /\ pending[i].diff = Diff(i, r)
    BY <1>1 DEF ShownInv
  <2> QED
    BY <1>1, <1>d, <2>1
<1>2. ASSUME NEW w \in Workers, AddPending(w), i = IncidentOf(w),
             run[w].revision \in Revisions,
             pending'[i].revision = run[w].revision,
             pending'[i].diff = Diff(i, run[w].revision)
      PROVE  \E r \in Revisions : /\ pending'[i].revision = r
                                  /\ analyses'[i][r] # None
                                  /\ pending'[i].diff = Diff(i, r)'
  <2>1. Valid(i, run[w].revision)
    BY <1>2 DEF AddPending
  <2>2. PICK r \in Revisions : r = run[w].revision
    BY <1>2
  <2>3. analyses[i][r] # None
    BY <2>1, <2>2 DEF Valid
  <2> QED
    BY <1>2, <1>d, <2>2, <2>3
<1> QED
  BY <1>1, <1>2, <1>s, PendingChanges

LEMMA StepApproved == Stored /\ ApprovedInv /\ [Next]_vars => ApprovedInv'
<1> SUFFICES ASSUME Stored, ApprovedInv, [Next]_vars, NEW a \in approvals', a.revision # 0
             PROVE  /\ analyses'[a.incident][a.revision] # None
                    /\ a.evidence = analyses'[a.incident][a.revision].members
  BY DEF ApprovedInv
<1>s. TypeOK /\ RevisedInv
  BY DEF Stored, Numbering, AllocationInv
<1>1. CASE a \in approvals
  <2>1. a \in ApprovalRow
    BY <1>1, <1>s DEF TypeOK
  <2>2. a.incident \in Incidents /\ a.revision \in Revisions
    BY <2>1, RevisionAssumption DEF ApprovalRow, Revisions
  <2>3. /\ analyses[a.incident][a.revision] # None
        /\ a.evidence = analyses[a.incident][a.revision].members
    BY <1>1 DEF ApprovedInv
  <2> QED
    BY <1>s, <2>2, <2>3, SnapshotsStay
<1>2. CASE a \notin approvals
  <2>1. ASSUME NEW w \in Workers, Work(w) \/ Lose(w) \/ \E j \in Jobs : StartRun(w, j)
        PROVE  UNCHANGED approvals
    BY <2>1 DEF Work, LockHead, AllocateAgain, Allocate, InsertRevision, Resolved, Analyze,
         ReadBack, ReadLatest, WriteSnapshot, Collides, AddPending, Complete, Lose, StartRun
  <2>2. ASSUME NEW k \in Incidents, NEW t \in State, AnalyzeAgain(k, t)
        PROVE  UNCHANGED approvals
    BY <2>2 DEF AnalyzeAgain
  <2>3. PICK i \in Incidents : Approve(i)
    BY <1>2, <2>1, <2>2 DEF Next, vars
  <2>4. a = [incident |-> i, revision |-> pending[i].revision,
             evidence |-> DisplayedEvidence(i)]
    BY <1>2, <2>3 DEF Approve
  <2>5. pending[i].revision \in Revisions
    <3>1. pending[i].revision \in 0..MaxRevisions
      BY <1>s DEF TypeOK, PendingRow
    <3> QED
      BY <2>4, <3>1, RevisionAssumption DEF Revisions
  <2>6. Valid(i, pending[i].revision) /\ pending[i].revision # 0
    BY <2>3, <2>4 DEF Approve
  <2>7. analyses[i][pending[i].revision] # None
    BY <2>6 DEF Valid
  <2>8. a.evidence = analyses[i][pending[i].revision].members
    BY <2>4, <2>6 DEF DisplayedEvidence
  <2> QED
    BY <1>s, <2>4, <2>5, <2>7, <2>8, SnapshotsStay
<1> QED
  BY <1>1, <1>2

LEMMA ShownHolds == Spec => [](Stored /\ ShownInv /\ ApprovedInv)
<1>1. Init => ShownInv /\ ApprovedInv
  BY DEF Init, ShownInv, ApprovedInv, NoPending
<1> QED
  BY <1>1, StoredHolds, StepShown, StepApproved, PTL DEF Spec

(* record_review_decision: what was approved can be told from the store    *)
(* for good.                                                               *)
THEOREM ApprovalsKeepTheirEvidence == Spec => []ApprovalKeepsEvidence
<1>1. Stored /\ ApprovedInv => ApprovalKeepsEvidence
  <2> SUFFICES ASSUME Stored, ApprovedInv, NEW a \in approvals, a.revision # 0
               PROVE  /\ analyses[a.incident][a.revision] # None
                      /\ a.evidence = Members(analyses[a.incident][a.revision].state)
    BY DEF ApprovalKeepsEvidence
  <2>1. a \in ApprovalRow
    BY DEF Stored, Numbering, TypeOK
  <2>2. a.incident \in Incidents /\ a.revision \in Revisions
    BY <2>1, RevisionAssumption DEF ApprovalRow, Revisions
  <2>3. /\ analyses[a.incident][a.revision] # None
        /\ a.evidence = analyses[a.incident][a.revision].members
    BY DEF ApprovedInv
  <2> QED
    BY <2>2, <2>3, LinkedMembers
<1> QED
  BY <1>1, ShownHolds, PTL

(* get_analysis_revision_diff: comparing record ids compares contents.     *)
THEOREM DiffsAreTrue == Spec => []DiffIsTrue
<1>1. Stored /\ ShownInv => DiffIsTrue
  <2> SUFFICES ASSUME Stored, ShownInv, NEW i \in Incidents, pending[i].open,
                      pending[i].diff.base # 0
               PROVE  LET new == analyses[i][pending[i].revision].state
                          old == analyses[i][pending[i].diff.base].state
                      IN  /\ pending[i].diff.added = Members(new) \ Members(old)
                          /\ pending[i].diff.removed = Members(old) \ Members(new)
                          /\ pending[i].diff.changed =
                                {e \in Members(new) \cap Members(old) : new[e] # old[e]}
    BY DEF DiffIsTrue
  <2> DEFINE r == pending[i].revision
             p == analyses[i][r].previous
  <2>1. r \in Revisions /\ analyses[i][r] # None /\ pending[i].diff = Diff(i, r)
    BY DEF ShownInv
  <2>2. p # None /\ analyses[i][p] # None
    BY <2>1 DEF Diff, NoDiff
  <2>3. p \in Revisions
    BY <2>1, <2>2 DEF Stored, Numbering, TypeOK, AnalysisRow
  <2>4. /\ pending[i].diff.base = p
        /\ pending[i].diff.added = Linked(i, r) \ Linked(i, p)
        /\ pending[i].diff.changed = Changed(i, r, p)
        /\ pending[i].diff.removed = Linked(i, p) \ Linked(i, r)
    <3> HIDE DEF r
    <3>1. Diff(i, r) = [base |-> p, added |-> Linked(i, r) \ Linked(i, p),
                        changed |-> Changed(i, r, p), removed |-> Linked(i, p) \ Linked(i, r)]
      BY <2>2 DEF Diff
    <3> QED
      BY <2>1, <3>1
  <2>5. \A q \in {r, p} :
          /\ Linked(i, q) = Members(analyses[i][q].state)
          /\ \A e \in Linked(i, q) :
                /\ analyses[i][q].links[e] \in 1..Len(records[i][e])
                /\ records[i][e][analyses[i][q].links[e]].content = analyses[i][q].state[e]
    BY <2>1, <2>2, <2>3, LinkedMembers
  <2>6. \A e \in Linked(i, r) \cap Linked(i, p) :
          analyses[i][r].links[e] = analyses[i][p].links[e]
            <=> analyses[i][r].state[e] = analyses[i][p].state[e]
    <3> SUFFICES ASSUME NEW e \in Linked(i, r) \cap Linked(i, p)
                 PROVE  analyses[i][r].links[e] = analyses[i][p].links[e]
                          <=> analyses[i][r].state[e] = analyses[i][p].state[e]
      OBVIOUS
    <3>1. /\ analyses[i][r].links[e] \in 1..Len(records[i][e])
          /\ analyses[i][p].links[e] \in 1..Len(records[i][e])
          /\ records[i][e][analyses[i][r].links[e]].content = analyses[i][r].state[e]
          /\ records[i][e][analyses[i][p].links[e]].content = analyses[i][p].state[e]
      BY <2>5
    <3>2. \A u, v \in 1..Len(records[i][e]) :
             records[i][e][u].content = records[i][e][v].content => u = v
      BY DEF Linked, Stored, StoreInv, DistinctInv
    <3> QED
      BY <3>1, <3>2
  <2>7. Changed(i, r, p) =
          {e \in Linked(i, r) \cap Linked(i, p) :
              analyses[i][r].state[e] # analyses[i][p].state[e]}
    BY <2>6 DEF Changed
  <2>8. Linked(i, r) = Members(analyses[i][r].state) /\ Linked(i, p) = Members(analyses[i][p].state)
    BY <2>5
  <2> HIDE DEF p
  <2> QED
    BY <2>4, <2>7, <2>8
<1> QED
  BY <1>1, ShownHolds, PTL

=============================================================================
