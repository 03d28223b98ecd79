-------------------------- MODULE CollectionProofs --------------------------
(***************************************************************************)
(* What holds of Collection for any threads, sources, window, limits and   *)
(* tries.                                                                  *)
(***************************************************************************)
EXTENDS Collection, FiniteSetTheorems, WellFoundedInduction, TLAPS

(* A collection that has begun has a source.                               *)
Typed ==
    /\ TypeOK
    /\ \A c \in Collectors : work[c].pc # "rest" => work[c].source \in Sources

(* Where a collection stands in its plan, for the sources that have no     *)
(* count.                                                                  *)
InPlan(w) ==
    /\ w.source = "prometheus" => w.at <= MetricNames
    /\ w.source = "github" => w.at = 1

(* What a collection has, next to the lines there are: nothing that is not *)
(* among them, a total that was their number at the count, and no loss but *)
(* of metrics.                                                             *)
Sound(w) ==
    /\ w.got \subseteq lines /\ w.counted \subseteq lines
    /\ w.total # -1 => w.total = Cardinality(w.counted) /\ w.source = "loki"
    /\ w.source = "prometheus" \/ w.lost = 0

(* What a report of ok or empty stands for.                                *)
Complete(w) ==
    w.status \in {"ok", "empty"} =>
       /\ w.lost = 0
       /\ w.got \subseteq lines /\ w.counted \subseteq lines
       /\ w.total # -1 =>
             w.total = Cardinality(w.counted) /\ w.total <= Cardinality(w.got)

GapsInv ==
    \A c \in Collectors :
       /\ work[c].pc \in {"request", "send", "failing"} => InPlan(work[c]) /\ Sound(work[c])
       /\ work[c].pc = "done" => Complete(work[c])

(* A circuit that is closed has been sent nothing while open, and one that *)
(* is open has its failures, so that another does not close it.            *)
OutageInv ==
    /\ OutageNotHammered
    /\ \A s \in Sources : circuit[s].open => circuit[s].failures >= 3
    /\ \A s \in Sources : ~circuit[s].open => \A c \in Collectors : hammered[s][c] = 0

-----------------------------------------------------------------------------
(* The operators.                                                          *)
LEMMA LinesFinite ==
    ASSUME NEW S \in SUBSET Times
    PROVE  IsFiniteSet(S) /\ Cardinality(S) \in Nat
<1>1. IsFiniteSet(Times)
  BY FS_Interval, CollectionAssumption DEF Times, CollectionAssumption
<1> QED
  BY <1>1, FS_Subset, FS_CardinalityType

(* A set of naturals has its least element, and Min is that.               *)
LEMMA LeastExists ==
    ASSUME NEW S \in SUBSET Nat, S # {}
    PROVE  Min(S) \in S /\ \A x \in S : Min(S) <= x
<1> DEFINE Less == {p \in Nat \X Nat : p[1] < p[2]}
<1>1. \A a, b \in Nat : a < b => <<a, b>> \in Less
  OBVIOUS
<1>2. IsWellFoundedOn(Less, Nat)
  BY NatLessThanWellFounded DEF OpToRel
<1> HIDE DEF Less
<1>3. PICK m \in S : \A x \in S : ~(<<x, m>> \in Less)
  BY <1>2, WFMin
<1>4. ASSUME NEW x \in S PROVE m <= x
  <2>1. m \in Nat /\ x \in Nat
    OBVIOUS
  <2>2. ~(x < m)
    BY <1>1, <1>3, <2>1
  <2> QED
    BY <2>1, <2>2
<1> QED
  BY <1>4 DEF Min

LEMMA BudgetsAddUp ==
    ASSUME NEW limit \in Nat \ {0}
    PROVE  /\ GeneralBudget(limit) \in Nat \ {0} /\ SignalBudget(limit) \in Nat
           /\ GeneralBudget(limit) + SignalBudget(limit) = limit
BY DEF GeneralBudget, SignalBudget

(* One to four slices, and two general lines for each if there are several.*)
LEMMA SlicesFilled ==
    ASSUME NEW limit \in Nat \ {0}
    PROVE  /\ SliceCount(limit) \in 1 .. 4
           /\ SliceCount(limit) = 1 \/ 2 * SliceCount(limit) <= GeneralBudget(limit)
<1> DEFINE half == GeneralBudget(limit) \div 2
           count == IF half < 1 THEN 1 ELSE IF half > 4 THEN 4 ELSE half
<1>1. half \in Nat /\ 2 * half <= GeneralBudget(limit)
  BY BudgetsAddUp
<1>2. count \in 1 .. 4 /\ (count = 1 \/ count <= half)
  BY <1>1
<1>3. SliceCount(limit) = count
  BY <1>2 DEF SliceCount
<1> HIDE DEF half
<1> QED
  BY <1>1, <1>2, <1>3, BudgetsAddUp

(* The plan of a collection of logs: the count, two requests for a slice,  *)
(* one for its signals, and one for what is missing.                       *)
LEMMA PlanOfLogs ==
    ASSUME NEW limit \in Nat \ {0}
    PROVE  LET n == SliceCount(limit)
               plan == Plan("loki", limit)
               quota(i) == Quota(i, GeneralBudget(limit), n)
               forward(i) == (quota(i) + 1) \div 2
           IN  /\ Len(plan) = 3 * n + 2
               /\ plan[1] = Asking("count", 0, 0)
               /\ plan[3 * n + 2] = Asking("top_up", 0, limit)
               /\ \A i \in 1 .. n :
                     /\ plan[2 * i] = Asking("forward", i, forward(i))
                     /\ plan[2 * i + 1] = Asking("backward", i, quota(i) - forward(i))
                     /\ plan[2 * n + 1 + i] =
                           Asking("signal", i, Quota(i, SignalBudget(limit), n))
<1> DEFINE n == SliceCount(limit)
           quota(i) == Quota(i, GeneralBudget(limit), n)
           forward(i) == (quota(i) + 1) \div 2
           ahead(i) == Asking("forward", i, forward(i))
           back(i) == Asking("backward", i, quota(i) - forward(i))
           signal(i) == Asking("signal", i, Quota(i, SignalBudget(limit), n))
           request(k) == IF k > 2 * n THEN signal(k - 2 * n)
                         ELSE IF k % 2 = 1 THEN ahead((k + 1) \div 2) ELSE back(k \div 2)
           plan == Plan("loki", limit)
<1>1. n \in 1 .. 4
  BY SlicesFilled
<1>2. Sampling(limit) = [k \in 1 .. 3 * n |-> request(k)]
  BY DEF Sampling
<1>3. plan = <<Asking("count", 0, 0)>> \o Sampling(limit) \o <<Asking("top_up", 0, limit)>>
  BY DEF Plan
<1> HIDE DEF n, ahead, back, signal, plan
<1>4. ASSUME NEW i \in 1 .. n
      PROVE  /\ 2 * i - 1 \in 1 .. 3 * n /\ request(2 * i - 1) = ahead(i)
             /\ 2 * i \in 1 .. 3 * n /\ request(2 * i) = back(i)
             /\ 2 * n + i \in 1 .. 3 * n /\ request(2 * n + i) = signal(i)
  <2>0. i \in 1 .. 4 /\ i <= n /\ n \in Nat
    BY <1>1
  <2>1. /\ 2 * i - 1 <= 2 * n /\ (2 * i - 1 + 1) \div 2 = i /\ (2 * i - 1) % 2 = 1
        /\ 2 * i <= 2 * n /\ (2 * i) \div 2 = i /\ (2 * i) % 2 = 0
        /\ 2 * n + i > 2 * n /\ 2 * n + i - 2 * n = i
    <3>1. i = 1 \/ i = 2 \/ i = 3 \/ i = 4
      BY <2>0
    <3>2. /\ 2 * i - 1 + 1 = 2 * i /\ 2 * i - 1 <= 2 * n /\ 2 * i <= 2 * n
          /\ 2 * n + i > 2 * n /\ 2 * n + i - 2 * n = i
      BY <2>0
    <3>3. (2 * i) \div 2 = i /\ (2 * i) % 2 = 0
      BY <3>1
    <3>4. (2 * i - 1) % 2 = 1
      BY <3>1
    <3> QED
      BY <3>2, <3>3, <3>4
  <2>2. 2 * i - 1 \in 1 .. 3 * n /\ 2 * i \in 1 .. 3 * n /\ 2 * n + i \in 1 .. 3 * n
    BY <1>1
  <2>3. ~(2 * i - 1 > 2 * n) /\ ~(2 * i > 2 * n) /\ (2 * i) % 2 # 1
    BY <2>0, <2>1
  <2>4. request(2 * i - 1) = ahead(i)
    BY <2>1, <2>3, Zenon
  <2>5. request(2 * i) = back(i)
    BY <2>1, <2>3, Zenon
  <2>6. request(2 * n + i) = signal(i)
    <3> DEFINE k == 2 * n + i
    <3>1. k > 2 * n /\ k - 2 * n = i
      BY <2>0
    <3> HIDE DEF k
    <3>2. request(k) = signal(i)
      BY <3>1
    <3> QED
      BY <3>2 DEF k
  <2> HIDE DEF request
  <2> QED
    BY <2>2, <2>4, <2>5, <2>6
<1> HIDE DEF request
<1> DEFINE middle == [k \in 1 .. 3 * n |-> request(k)]
<1>5. /\ middle \in Seq({request(k) : k \in 1 .. 3 * n}) /\ Len(middle) = 3 * n
      /\ 3 * n \in Nat
  BY <1>1
<1>6. /\ Len(plan) = 3 * n + 2 /\ plan[1] = Asking("count", 0, 0)
      /\ plan[3 * n + 2] = Asking("top_up", 0, limit)
      /\ \A k \in 1 .. 3 * n : plan[k + 1] = request(k)
  BY <1>2, <1>3, <1>5
<1>7. ASSUME NEW i \in 1 .. n
      PROVE  /\ plan[2 * i] = request(2 * i - 1) /\ plan[2 * i + 1] = request(2 * i)
             /\ plan[2 * n + 1 + i] = request(2 * n + i)
  BY <1>1, <1>4, <1>6
<1> QED
  BY <1>4, <1>6, <1>7 DEF ahead, back, signal, n, plan

LEMMA EndsWithin ==
    ASSUME NEW S, NEW n
    PROVE  Earliest(S, n) \subseteq S /\ Latest(S, n) \subseteq S
BY DEF Earliest, Latest

LEMMA FetchedWithin ==
    ASSUME NEW w, NEW query
    PROVE  Fetched(w, query) \subseteq lines
<1> DEFINE there == lines \cap Slice(query.slice, SliceCount(w.limit))
<1>1. there \subseteq lines
  OBVIOUS
<1> HIDE DEF there
<1>2. /\ Earliest(there, query.quota) \subseteq lines
      /\ Latest(there, query.quota) \subseteq lines
      /\ Earliest(there \cap Signals, query.quota) \subseteq lines
      /\ Latest(lines, Remaining(w)) \subseteq lines
  BY <1>1, EndsWithin
<1>3. Fetched(w, query) \in {Earliest(there, query.quota), Latest(there, query.quota),
                             Earliest(there \cap Signals, query.quota), TopUp(w), {}}
  BY DEF Fetched, there
<1> QED
  BY <1>2, <1>3 DEF TopUp

LEMMA FinishedTyped ==
    ASSUME NEW w \in Works, NEW status \in Statuses
    PROVE  LET f == Finished(w, status)
           IN  /\ f \in Works /\ f.pc = "done" /\ f.status = status /\ f.try = 1
               /\ f.source = w.source /\ f.got = w.got /\ f.counted = w.counted
               /\ f.total = w.total /\ f.lost = w.lost
<1>1. 1 \in 1 .. Tries /\ 1 \in Nat \ {0}
  BY CollectionAssumption DEF CollectionAssumption
<1> QED
  BY <1>1 DEF Finished, Works

LEMMA ReportsTyped ==
    ASSUME NEW w, NEW fetched, NEW count, NEW lost
    PROVE  /\ StatusForCount(count) \in {"ok", "empty"}
           /\ LogStatus(w, fetched) \in {"ok", "empty", "partial"}
           /\ MetricStatus(lost) \in {"ok", "empty", "partial", "failed"}
           /\ {"ok", "empty", "partial", "failed"} \subseteq Statuses
BY DEF StatusForCount, LogStatus, MetricStatus, Statuses

LEMMA ConcludedTyped ==
    ASSUME NEW w \in Works, w.source \in Sources
    PROVE  /\ Concluded(w) \in Works /\ Concluded(w).pc = "done" /\ Concluded(w).try = 1
           /\ Concluded(w).source = w.source
<1>0. w.source \in {"loki", "prometheus", "github"}
  BY CollectionAssumption DEF CollectionAssumption
<1>1. CASE w.source = "loki"
  <2> DEFINE fetched == Earliest(w.got, w.limit)
             v == [w EXCEPT !.got = fetched]
  <2>1. fetched \in SUBSET Times
    BY EndsWithin DEF Works
  <2> HIDE DEF fetched
  <2>2. v \in Works /\ v.source = w.source
    BY <2>1 DEF Works
  <2>3. LogStatus(w, fetched) \in Statuses
    BY ReportsTyped
  <2>4. Concluded(w) = Finished(v, LogStatus(w, fetched))
    BY <1>1 DEF Concluded, fetched
  <2> HIDE DEF v
  <2> QED
    BY <2>2, <2>3, <2>4, FinishedTyped
<1>2. CASE w.source = "prometheus"
  <2>1. Concluded(w) = Finished(w, MetricStatus(w.lost)) /\ MetricStatus(w.lost) \in Statuses
    BY <1>2, ReportsTyped DEF Concluded
  <2> QED
    BY <2>1, FinishedTyped
<1>3. CASE w.source = "github"
  <2>1. Concluded(w) = Finished(w, StatusForCount(w.deploys))
        /\ StatusForCount(w.deploys) \in Statuses
    BY <1>3, ReportsTyped DEF Concluded
  <2> QED
    BY <2>1, FinishedTyped
<1> QED
  BY <1>0, <1>1, <1>2, <1>3

(* A collection goes on with the least request that is sent, or is over.   *)
LEMMA OnwardGoes ==
    ASSUME NEW w \in Works
    PROVE  \/ /\ Ahead(w) = {} \/ (w.source = "loki" /\ w.total = 0)
              /\ Onward(w) = Concluded(w)
           \/ /\ ~(w.source = "loki" /\ w.total = 0)
              /\ \E k \in Ahead(w) :
                    /\ k \in Nat \ {0} /\ \A m \in Ahead(w) : k <= m
                    /\ Onward(w) = [w EXCEPT !.at = k, !.try = 1, !.pc = "request"]
<1>1. Ahead(w) \in SUBSET Nat /\ \A k \in Ahead(w) : k # 0
  BY DEF Ahead, Works
<1>2. CASE Ahead(w) = {} \/ (w.source = "loki" /\ w.total = 0)
  BY <1>2 DEF Onward
<1>3. CASE Ahead(w) # {} /\ ~(w.source = "loki" /\ w.total = 0)
  <2>1. Min(Ahead(w)) \in Ahead(w) /\ \A m \in Ahead(w) : Min(Ahead(w)) <= m
    BY <1>1, <1>3, LeastExists
  <2>2. Onward(w) = [w EXCEPT !.at = Min(Ahead(w)), !.try = 1, !.pc = "request"]
    BY <1>3 DEF Onward
  <2> QED
    BY <1>1, <1>3, <2>1, <2>2
<1> QED
  BY <1>2, <1>3

LEMMA OnwardTyped ==
    ASSUME NEW w \in Works, w.source \in Sources
    PROVE  /\ Onward(w) \in Works /\ Onward(w).pc \in {"request", "done"}
           /\ Onward(w).try = 1 /\ Onward(w).source = w.source
<1>1. CASE Onward(w) = Concluded(w)
  BY <1>1, ConcludedTyped
<1>2. ASSUME NEW k \in Nat \ {0}, Onward(w) = [w EXCEPT !.at = k, !.try = 1, !.pc = "request"]
      PROVE  /\ Onward(w) \in Works /\ Onward(w).pc \in {"request", "done"}
             /\ Onward(w).try = 1 /\ Onward(w).source = w.source
  <2>1. 1 \in 1 .. Tries
    BY CollectionAssumption DEF CollectionAssumption
  <2> QED
    BY <1>2, <2>1 DEF Works
<1> QED
  BY <1>1, <1>2, OnwardGoes

LEMMA AfterErrorTyped ==
    ASSUME NEW w \in Works, w.source \in Sources, NEW kind, NEW category \in Statuses
    PROVE  /\ AfterError(w, kind, category) \in Works
           /\ AfterError(w, kind, category).pc \in {"request", "done"}
           /\ AfterError(w, kind, category).try = 1
           /\ AfterError(w, kind, category).source = w.source
<1>1. CASE kind = "count"
  <2> DEFINE v == [w EXCEPT !.total = -1]
  <2>1. v \in Works /\ v.source = w.source
    BY DEF Works
  <2> HIDE DEF v
  <2>2. AfterError(w, kind, category) = Onward(v)
    BY <1>1 DEF AfterError, v
  <2> QED
    BY <2>1, <2>2, OnwardTyped
<1>2. CASE kind # "count" /\ w.source = "prometheus"
  <2> DEFINE v == [w EXCEPT !.lost = w.lost + 1]
  <2>0. w.lost + 1 \in Nat
    BY DEF Works
  <2>1. v \in Works /\ v.source = w.source
    BY <2>0 DEF Works
  <2> HIDE DEF v
  <2>2. AfterError(w, kind, category) = Onward(v)
    BY <1>2 DEF AfterError, v
  <2> QED
    BY <2>1, <2>2, OnwardTyped
<1>3. CASE kind # "count" /\ w.source # "prometheus"
  <2> DEFINE v == [w EXCEPT !.got = {}, !.lost = w.lost + 1]
  <2>0. w.lost + 1 \in Nat
    BY DEF Works
  <2>1. v \in Works /\ v.source = w.source
    BY <2>0 DEF Works
  <2> HIDE DEF v
  <2>2. AfterError(w, kind, category) = Finished(v, category)
    BY <1>3 DEF AfterError, v
  <2> QED
    BY <2>1, <2>2, FinishedTyped
<1> QED
  BY <1>1, <1>2, <1>3

LEMMA AfterAnswerTyped ==
    ASSUME NEW w \in Works, w.source \in Sources, NEW query, NEW deploys \in 0 .. 1,
           lines \subseteq Times
    PROVE  /\ AfterAnswer(w, query, deploys) \in Works
           /\ AfterAnswer(w, query, deploys).pc \in {"request", "done"}
           /\ AfterAnswer(w, query, deploys).try = 1
           /\ AfterAnswer(w, query, deploys).source = w.source
<1>1. CASE query.kind = "count"
  <2> DEFINE v == [w EXCEPT !.total = Cardinality(lines), !.counted = lines]
  <2>0. Cardinality(lines) \in Int
    BY LinesFinite
  <2>1. v \in Works /\ v.source = w.source
    BY <2>0 DEF Works
  <2> HIDE DEF v
  <2>2. AfterAnswer(w, query, deploys) = Onward(v)
    BY <1>1 DEF AfterAnswer, v
  <2> QED
    BY <2>1, <2>2, OnwardTyped
<1>2. CASE query.kind # "count"
  <2> DEFINE v == [w EXCEPT !.got = w.got \cup Fetched(w, query), !.deploys = deploys]
  <2>0. w.got \cup Fetched(w, query) \in SUBSET Times
    BY FetchedWithin DEF Works
  <2>1. v \in Works /\ v.source = w.source
    BY <2>0 DEF Works
  <2> HIDE DEF v
  <2>2. AfterAnswer(w, query, deploys) = Onward(v)
    BY <1>2 DEF AfterAnswer, v
  <2> QED
    BY <2>1, <2>2, OnwardTyped
<1> QED
  BY <1>1, <1>2

-----------------------------------------------------------------------------
(* Types.                                                                  *)
LEMMA InitTyped == Init => Typed
<1> SUFFICES ASSUME Init PROVE Typed
  OBVIOUS
<1>1. /\ 1 \in 1 .. Tries /\ 0 \in 0 .. MaxArrivals /\ 0 \in 0 .. MaxRuns
      /\ Contents \subseteq SUBSET Times
  BY CollectionAssumption DEF CollectionAssumption, Times
<1>2. Resting \in Works /\ Resting.pc = "rest"
  BY <1>1 DEF Resting, Works, Statuses
<1>3. TypeOK
  BY <1>1, <1>2 DEF Init, TypeOK, NoState, Calm
<1> QED
  BY <1>2, <1>3 DEF Init, Typed

(* What each step makes of its collector's work.                           *)
LEMMA StepWorks ==
    ASSUME Typed, NEW c \in Collectors, Start(c) \/ Request(c)
    PROVE  \E w \in Works :
              /\ work' = [work EXCEPT ![c] = w]
              /\ w.pc # "rest" => w.source \in Sources
              /\ Request(c) => w.source = work[c].source
              /\ w.pc = "send" =>
                    \/ CheckCircuit(c) /\ ~circuit[w.source].open
                    \/ AttemptFails(c) /\ w.try = work[c].try + 1
<1>0. /\ work[c] \in Works /\ lines \subseteq Times
      /\ work[c].pc # "rest" => work[c].source \in Sources
  BY DEF Typed, TypeOK
<1>1. CASE Start(c)
  <2>1. PICK source \in Sources, limit \in Nat :
           work' = [work EXCEPT ![c] =
             [Resting EXCEPT !.pc = "request", !.source = source, !.limit = limit,
                             !.before = lines]]
    BY <1>1, CollectionAssumption DEF Start, CollectionAssumption
  <2> DEFINE w == [Resting EXCEPT !.pc = "request", !.source = source, !.limit = limit,
                                  !.before = lines]
  <2>2. 1 \in 1 .. Tries
    BY CollectionAssumption DEF CollectionAssumption
  <2>3. w \in Works /\ w.pc = "request" /\ w.source = source
    <3>1. Resting \in Works
      BY <2>2 DEF Resting, Works, Statuses
    <3> QED
      BY <1>0, <3>1 DEF Works
  <2>4. ~Request(c)
    BY <1>1 DEF Start, Request, CheckCircuit, Answered, RefusedBySource, AttemptFails,
                CountFailure
  <2> QED
    BY <2>1, <2>3, <2>4
<1>2. CASE CheckCircuit(c)
  <2>1. work[c].source \in Sources
    BY <1>0, <1>2 DEF CheckCircuit
  <2>2. CASE Refused(c)
    <3> DEFINE w == AfterError(work[c], Query(c).kind, "failed")
    <3>1. work' = [work EXCEPT ![c] = w]
      BY <1>2, <2>2 DEF CheckCircuit
    <3>2. w \in Works /\ w.pc \in {"request", "done"} /\ w.source = work[c].source
      BY <1>0, <2>1, AfterErrorTyped DEF Statuses
    <3> HIDE DEF w
    <3> QED
      BY <2>1, <3>1, <3>2
  <2>3. CASE ~Refused(c)
    <3> DEFINE w == [work[c] EXCEPT !.pc = "send"]
    <3>1. work' = [work EXCEPT ![c] = w]
      BY <1>2, <2>3 DEF CheckCircuit
    <3>2. w \in Works /\ w.source = work[c].source
      BY <1>0 DEF Works
    <3> HIDE DEF w
    <3> QED
      BY <1>2, <2>1, <2>3, <3>1, <3>2 DEF Refused
  <2> QED
    BY <2>2, <2>3
<1>3. CASE Answered(c)
  <2>1. work[c].source \in Sources
    BY <1>0, <1>3 DEF Answered
  <2>2. PICK deploys \in 0 .. 1 :
           work' = [work EXCEPT ![c] = AfterAnswer(work[c], Query(c), deploys)]
    <3>1. 0 .. (IF work[c].source = "github" THEN 1 ELSE 0) \subseteq 0 .. 1
      OBVIOUS
    <3> QED
      BY <1>3, <3>1 DEF Answered
  <2> DEFINE w == AfterAnswer(work[c], Query(c), deploys)
  <2>3. w \in Works /\ w.pc \in {"request", "done"} /\ w.source = work[c].source
    BY <1>0, <2>1, AfterAnswerTyped
  <2> HIDE DEF w
  <2>4. work' = [work EXCEPT ![c] = w]
    BY <2>2 DEF w
  <2> QED
    BY <2>1, <2>3, <2>4
<1>4. CASE RefusedBySource(c)
  <2>1. work[c].source \in Sources
    BY <1>0, <1>4 DEF RefusedBySource
  <2>2. PICK category \in Categories :
           work' = [work EXCEPT ![c] = AfterError(work[c], Query(c).kind, category)]
    BY <1>4 DEF RefusedBySource
  <2> DEFINE w == AfterError(work[c], Query(c).kind, category)
  <2>a. category \in Statuses
    BY DEF Statuses
  <2>3. w \in Works /\ w.pc \in {"request", "done"} /\ w.source = work[c].source
    BY <1>0, <2>1, <2>a, AfterErrorTyped
  <2> HIDE DEF w
  <2>4. work' = [work EXCEPT ![c] = w]
    BY <2>2 DEF w
  <2> QED
    BY <2>1, <2>3, <2>4
<1>5. CASE AttemptFails(c)
  <2>1. work[c].source \in Sources
    BY <1>0, <1>5 DEF AttemptFails
  <2>2. CASE work[c].try < Tries
    <3> DEFINE w == [work[c] EXCEPT !.try = work[c].try + 1]
    <3>0. work[c].try + 1 \in 1 .. Tries
      BY <1>0, <2>2, CollectionAssumption DEF CollectionAssumption, Works
    <3>1. w \in Works /\ w.source = work[c].source /\ w.try = work[c].try + 1
      BY <1>0, <3>0 DEF Works
    <3>2. work' = [work EXCEPT ![c] = w]
      BY <1>5, <2>2 DEF AttemptFails
    <3> HIDE DEF w
    <3> QED
      BY <1>5, <2>1, <3>1, <3>2
  <2>3. CASE ~(work[c].try < Tries)
    <3> DEFINE w == [work[c] EXCEPT !.pc = "failing"]
    <3>1. w \in Works /\ w.source = work[c].source /\ w.pc = "failing"
      BY <1>0 DEF Works
    <3>2. work' = [work EXCEPT ![c] = w]
      BY <1>5, <2>3 DEF AttemptFails
    <3> HIDE DEF w
    <3> QED
      BY <2>1, <3>1, <3>2
  <2> QED
    BY <2>2, <2>3
<1>6. CASE CountFailure(c)
  <2>1. work[c].source \in Sources
    BY <1>0, <1>6 DEF CountFailure
  <2> DEFINE w == AfterError(work[c], Query(c).kind, "failed")
  <2>3. w \in Works /\ w.pc \in {"request", "done"} /\ w.source = work[c].source
    BY <1>0, <2>1, AfterErrorTyped DEF Statuses
  <2>4. work' = [work EXCEPT ![c] = w]
    BY <1>6 DEF CountFailure
  <2> HIDE DEF w
  <2> QED
    BY <2>1, <2>3, <2>4
<1> QED
  BY <1>1, <1>2, <1>3, <1>4, <1>5, <1>6 DEF Request

LEMMA TypedStep == Typed /\ [Next]_vars => Typed'
<1> SUFFICES ASSUME Typed, [Next]_vars PROVE Typed'
  OBVIOUS
<1>t. /\ TypeOK /\ \A c \in Collectors : work[c].pc # "rest" => work[c].source \in Sources
  BY DEF Typed
<1>1. ASSUME NEW c \in Collectors, Start(c) \/ Request(c) PROVE Typed'
  <2>1. /\ work' \in [Collectors -> Works]
        /\ \A d \in Collectors : work'[d].pc # "rest" => work'[d].source \in Sources
    BY <1>1, <1>t, StepWorks DEF TypeOK
  <2>2. CASE Start(c)
    <3>1. runs' \in 0 .. MaxRuns
      BY <2>2, <1>t, CollectionAssumption DEF Start, TypeOK, CollectionAssumption
    <3> QED
      BY <2>1, <2>2, <3>1, <1>t DEF Start, TypeOK, Typed
  <2>3. CASE CheckCircuit(c)
    BY <2>1, <2>3, <1>t DEF CheckCircuit, TypeOK, Typed
  <2>4. CASE Answered(c)
    <3>1. circuit' \in [Sources -> [failures : Nat, open : BOOLEAN]]
          /\ hammered' \in [Sources -> [Collectors -> Nat]]
      BY <2>4, <1>t DEF Answered, TypeOK, NoState, Calm
    <3> QED
      BY <2>1, <2>4, <3>1, <1>t DEF Answered, TypeOK, Typed
  <2>5. CASE RefusedBySource(c) \/ AttemptFails(c)
    <3>1. hammered' \in [Sources -> [Collectors -> Nat]]
      <4>1. Attempted(c)
        BY <2>5 DEF RefusedBySource, AttemptFails
      <4>2. PICK source : source = work[c].source
        OBVIOUS
      <4>3. hammered' = hammered
            \/ hammered' = [hammered EXCEPT ![source][c] = hammered[source][c] + 1]
        BY <4>1, <4>2 DEF Attempted
      <4>4. CASE hammered' = [hammered EXCEPT ![source][c] = hammered[source][c] + 1]
        <5>1. source \in Sources
          BY <2>5, <4>2, <1>t DEF RefusedBySource, AttemptFails
        <5>2. PICK n \in Nat : n = hammered[source][c] + 1
          BY <1>t, <5>1 DEF TypeOK
        <5>3. hammered' = [hammered EXCEPT ![source][c] = n]
          BY <4>4, <5>2
        <5> QED
          BY <1>t, <5>1, <5>3 DEF TypeOK
      <4> QED
        BY <4>3, <4>4, <1>t DEF TypeOK
    <3> QED
      BY <2>1, <2>5, <3>1, <1>t DEF RefusedBySource, AttemptFails, TypeOK, Typed
  <2>6. CASE CountFailure(c)
    <3>1. PICK source : source = work[c].source
      OBVIOUS
    <3>2. circuit' = [circuit EXCEPT ![source] =
              [failures |-> circuit[source].failures + 1,
               open |-> circuit[source].failures + 1 >= 3]]
      BY <2>6, <3>1 DEF CountFailure
    <3>3. source \in Sources
      BY <2>6, <3>1, <1>t DEF CountFailure
    <3>4. circuit' \in [Sources -> [failures : Nat, open : BOOLEAN]]
      BY <1>t, <3>2, <3>3 DEF TypeOK
    <3> QED
      BY <2>1, <2>6, <3>4, <1>t DEF CountFailure, TypeOK, Typed
  <2> QED
    BY <1>1, <2>2, <2>3, <2>4, <2>5, <2>6 DEF Request
<1>2. ASSUME NEW s \in Sources, CircuitExpires(s) PROVE Typed'
  BY <1>2, <1>t DEF CircuitExpires, TypeOK, Typed, Calm
<1>3. CASE LineArrives
  <2>1. arrivals' \in 0 .. MaxArrivals /\ lines' \subseteq Times
    BY <1>3, <1>t, CollectionAssumption DEF LineArrives, TypeOK, CollectionAssumption
  <2> QED
    BY <1>3, <1>t, <2>1 DEF LineArrives, TypeOK, Typed
<1>4. CASE UNCHANGED vars
  BY <1>4, <1>t DEF vars, TypeOK, Typed
<1> QED
  BY <1>1, <1>2, <1>3, <1>4 DEF Next

-----------------------------------------------------------------------------
(* The circuit.                                                            *)
LEMMA InitOutage == Init => OutageInv
BY DEF Init, OutageInv, OutageNotHammered, NoState, Calm

LEMMA OutageStep == Typed /\ OutageInv /\ [Next]_vars => OutageInv'
<1> SUFFICES ASSUME Typed, OutageInv, [Next]_vars PROVE OutageInv'
  OBVIOUS
<1>t. /\ work \in [Collectors -> Works] /\ hammered \in [Sources -> [Collectors -> Nat]]
      /\ circuit \in [Sources -> [failures : Nat, open : BOOLEAN]]
      /\ \A c \in Collectors : work[c].pc # "rest" => work[c].source \in Sources
  BY DEF Typed, TypeOK
<1>o. /\ \A s \in Sources, c \in Collectors :
            circuit[s].open =>
               /\ hammered[s][c] <= Tries
               /\ Sending(c, s) => hammered[s][c] < work[c].try
      /\ \A s \in Sources : ~circuit[s].open => \A c \in Collectors : hammered[s][c] = 0
      /\ \A s \in Sources : circuit[s].open => circuit[s].failures >= 3
  BY DEF OutageInv, OutageNotHammered
<1>g. ASSUME \A s \in Sources, c \in Collectors :
                (circuit'[s].open =>
                    /\ hammered'[s][c] <= Tries
                    /\ Sending(c, s)' => hammered'[s][c] < work'[c].try)
                /\ (~circuit'[s].open => hammered'[s][c] = 0),
             \A s \in Sources : circuit'[s].open => circuit'[s].failures >= 3
      PROVE  OutageInv'
  BY <1>g DEF OutageInv, OutageNotHammered
<1>n. Tries \in Nat /\ Tries > 0 /\ \A c \in Collectors : work[c].try \in 1 .. Tries
  BY <1>t, CollectionAssumption DEF CollectionAssumption, Works
<1>1. ASSUME NEW c \in Collectors, Start(c) \/ CheckCircuit(c) PROVE OutageInv'
  <2>1. PICK w \in Works :
           /\ work' = [work EXCEPT ![c] = w]
           /\ w.pc = "send" => (CheckCircuit(c) /\ ~circuit[w.source].open) \/ AttemptFails(c)
    BY <1>1, StepWorks DEF Request
  <2>2. UNCHANGED <<circuit, hammered>> /\ ~AttemptFails(c)
    BY <1>1 DEF Start, CheckCircuit, AttemptFails
  <2>3. ASSUME NEW s \in Sources, NEW d \in Collectors, circuit[s].open, Sending(d, s)'
        PROVE  Sending(d, s) /\ work'[d].try = work[d].try
    BY <1>t, <2>1, <2>2, <2>3 DEF Sending
  <2> QED
    BY <1>g, <1>o, <2>2, <2>3
<1>2. ASSUME NEW c \in Collectors, Answered(c) PROVE OutageInv'
  <2>1. PICK w \in Works : work' = [work EXCEPT ![c] = w] /\ w.source = work[c].source
    BY <1>2, StepWorks DEF Request
  <2>2. PICK source \in Sources : source = work[c].source
    BY <1>2, <1>t DEF Answered
  <2>3. /\ circuit' = [circuit EXCEPT ![source] = NoState]
        /\ hammered' = [hammered EXCEPT ![source] = Calm]
    BY <1>2, <2>2 DEF Answered
  <2>4. ASSUME NEW s \in Sources, NEW d \in Collectors, s # source
        PROVE  /\ circuit'[s] = circuit[s] /\ hammered'[s] = hammered[s]
               /\ Sending(d, s)' => Sending(d, s) /\ work'[d].try = work[d].try
    BY <1>t, <2>1, <2>2, <2>3, <2>4 DEF Sending
  <2>5. ~circuit'[source].open /\ \A d \in Collectors : hammered'[source][d] = 0
    BY <1>t, <2>3 DEF NoState, Calm
  <2>6. \A s \in Sources : circuit'[s].open => circuit'[s].failures >= 3
    BY <1>t, <1>o, <2>3, <2>5
  <2> QED
    BY <1>g, <1>o, <2>4, <2>5, <2>6
<1>3. ASSUME NEW c \in Collectors, RefusedBySource(c) \/ AttemptFails(c) PROVE OutageInv'
  <2>1. PICK w \in Works : /\ work' = [work EXCEPT ![c] = w] /\ w.source = work[c].source
                           /\ w.pc = "send" => w.try = work[c].try + 1
    <3>1. ~CheckCircuit(c)
      BY <1>3 DEF RefusedBySource, AttemptFails, CheckCircuit
    <3> QED
      BY <1>3, <3>1, StepWorks DEF Request
  <2>2. PICK source \in Sources : source = work[c].source
    BY <1>3, <1>t DEF RefusedBySource, AttemptFails
  <2>3. /\ UNCHANGED circuit /\ Sending(c, source)
        /\ hammered' = IF circuit[source].open
                       THEN [hammered EXCEPT ![source][c] = hammered[source][c] + 1]
                       ELSE hammered
    BY <1>3, <2>2 DEF RefusedBySource, AttemptFails, Attempted, Sending
  <2>4. CASE ~circuit[source].open
    <3>1. ASSUME NEW s \in Sources, NEW d \in Collectors, circuit[s].open, Sending(d, s)'
          PROVE  Sending(d, s) /\ work'[d].try = work[d].try
      BY <1>t, <2>1, <2>2, <2>4, <3>1 DEF Sending
    <3> QED
      BY <1>g, <1>o, <2>3, <2>4, <3>1
  <2>5. CASE circuit[source].open
    <3>1. ASSUME NEW s \in Sources, NEW d \in Collectors, s # source \/ d # c
          PROVE  /\ hammered'[s][d] = hammered[s][d]
                 /\ Sending(d, s)' => Sending(d, s) /\ work'[d].try = work[d].try
      BY <1>t, <2>1, <2>2, <2>3, <2>5, <3>1 DEF Sending
    <3>2. hammered'[source][c] = hammered[source][c] + 1
      BY <1>t, <2>3, <2>5
    <3>3. hammered[source][c] \in Nat /\ hammered[source][c] < work[c].try
          /\ work[c].try \in 1 .. Tries
      BY <1>t, <1>n, <1>o, <2>3, <2>5
    <3>4. Sending(c, source)' => work'[c].try = work[c].try + 1
      BY <1>t, <2>1 DEF Sending
    <3>5. /\ hammered'[source][c] <= Tries
          /\ Sending(c, source)' => hammered'[source][c] < work'[c].try
      BY <1>n, <3>2, <3>3, <3>4
    <3> QED
      BY <1>g, <1>o, <2>3, <2>5, <3>1, <3>5
  <2> QED
    BY <2>4, <2>5
<1>4. ASSUME NEW c \in Collectors, CountFailure(c) PROVE OutageInv'
  <2>1. PICK w \in Works : work' = [work EXCEPT ![c] = w] /\ w.pc # "send"
    <3>1. ~CheckCircuit(c) /\ ~AttemptFails(c)
      BY <1>4 DEF CountFailure, AttemptFails, CheckCircuit
    <3> QED
      BY <1>4, <3>1, StepWorks DEF Request
  <2>2. PICK source \in Sources : source = work[c].source
    BY <1>4, <1>t DEF CountFailure
  <2>3. /\ UNCHANGED hammered
        /\ circuit' = [circuit EXCEPT ![source] =
              [failures |-> circuit[source].failures + 1,
               open |-> circuit[source].failures + 1 >= 3]]
    BY <1>4, <2>2 DEF CountFailure
  <2>4. ASSUME NEW s \in Sources, NEW d \in Collectors, Sending(d, s)'
        PROVE  Sending(d, s) /\ work'[d].try = work[d].try
    BY <1>t, <2>1, <2>4 DEF Sending
  <2>5. ASSUME NEW s \in Sources, NEW d \in Collectors
        PROVE  /\ hammered[s][d] <= Tries
               /\ Sending(d, s) => hammered[s][d] < work[d].try
    BY <1>n, <1>o, <2>5
  <2>6. \A s \in Sources : s # source => circuit'[s] = circuit[s]
    BY <1>t, <2>3
  <2>7. ASSUME NEW d \in Collectors, ~circuit'[source].open
        PROVE  hammered[source][d] = 0
    <3>1. circuit[source].failures \in Nat
      BY <1>t
    <3> DEFINE n == circuit[source].failures
    <3> HIDE DEF n
    <3>2. circuit' = [circuit EXCEPT ![source] = [failures |-> n + 1, open |-> n + 1 >= 3]]
      BY <2>3 DEF n
    <3>3. circuit'[source].open <=> n + 1 >= 3
      BY <1>t, <3>2
    <3>4. ~(n >= 3)
      BY <2>7, <3>1, <3>3 DEF n
    <3>5. ~circuit[source].open
      BY <1>o, <3>4 DEF n
    <3> QED
      BY <1>o, <3>5
  <2>8. \A s \in Sources : circuit'[s].open => circuit'[s].failures >= 3
    <3>1. circuit'[source].open => circuit'[source].failures >= 3
      BY <1>t, <2>3
    <3> QED
      BY <1>o, <2>6, <3>1
  <2> QED
    BY <1>g, <1>o, <2>3, <2>4, <2>5, <2>6, <2>7, <2>8
<1>5. ASSUME NEW s \in Sources, CircuitExpires(s) PROVE OutageInv'
  <2>1. /\ circuit' = [circuit EXCEPT ![s].open = FALSE]
        /\ hammered' = [hammered EXCEPT ![s] = Calm] /\ UNCHANGED work
    BY <1>5 DEF CircuitExpires
  <2>2. ~circuit'[s].open /\ \A d \in Collectors : hammered'[s][d] = 0
    BY <1>t, <2>1 DEF Calm
  <2>3. \A q \in Sources : q # s => circuit'[q] = circuit[q] /\ hammered'[q] = hammered[q]
    BY <1>t, <2>1
  <2>4. \A q \in Sources : circuit'[q].open => circuit'[q].failures >= 3
    BY <1>o, <2>2, <2>3
  <2> QED
    BY <1>g, <1>o, <2>1, <2>2, <2>3, <2>4 DEF Sending
<1>6. CASE LineArrives \/ UNCHANGED vars
  BY <1>6 DEF LineArrives, vars, OutageInv, OutageNotHammered, Sending
<1> QED
  BY <1>1, <1>2, <1>3, <1>4, <1>5, <1>6 DEF Next, Request

(* While a source's circuit is open no thread sends it more attempts than  *)
(* the tries of one request (utils/resilience.request).                    *)
THEOREM OutageLimited == Spec => []OutageNotHammered
<1>1. OutageInv => OutageNotHammered
  BY DEF OutageInv
<1> QED
  BY <1>1, InitTyped, TypedStep, InitOutage, OutageStep, PTL DEF Spec

(* Every variable has its type (Collection.TypeOK), and samples are lines  *)
(* of the window.                                                          *)
THEOREM TypeCorrect == Spec => []TypeOK
<1>1. Typed => TypeOK
  BY DEF Typed
<1> QED
  BY <1>1, InitTyped, TypedStep, PTL DEF Spec

-----------------------------------------------------------------------------
(* Reports.                                                                *)

(* A source that has no count has no request of that kind in its plan.     *)
LEMMA NoCount ==
    ASSUME NEW c \in Collectors, work[c] \in Works, InPlan(work[c]),
           work[c].source \in Sources, Query(c).kind = "count"
    PROVE  work[c].source = "loki"
<1>0. work[c].source \in {"loki", "prometheus", "github"} /\ work[c].at \in Nat \ {0}
      /\ MetricNames \in Nat
  BY CollectionAssumption DEF CollectionAssumption, Works
<1>1. CASE work[c].source = "prometheus"
  <2>1. Query(c) = [i \in 1 .. MetricNames |-> Asking("metric", i, 0)][work[c].at]
    BY <1>1 DEF Query, Plan
  <2>2. work[c].at \in 1 .. MetricNames
    BY <1>0, <1>1 DEF InPlan
  <2>3. Query(c).kind = "metric"
    BY <2>1, <2>2 DEF Asking
  <2> QED
    BY <2>3
<1>2. CASE work[c].source = "github"
  <2>1. Query(c) = <<Asking("deploys", 0, 0)>>[1]
    BY <1>2 DEF Query, Plan, InPlan
  <2>2. Query(c).kind = "deploys"
    BY <2>1 DEF Asking
  <2> QED
    BY <2>2
<1> QED
  BY <1>0, <1>1, <1>2

(* A plan that is over is reported as complete only when it is.            *)
LEMMA ConcludedComplete ==
    ASSUME NEW w \in Works, w.source \in Sources, lines \subseteq Times, Sound(w)
    PROVE  Complete(Concluded(w))
<1>0. w.source \in {"loki", "prometheus", "github"} /\ w.total \in Int
  BY CollectionAssumption DEF CollectionAssumption, Works
<1>1. CASE w.source = "loki"
  <2> DEFINE fetched == Earliest(w.got, w.limit)
             v == [w EXCEPT !.got = fetched]
             f == Finished(v, LogStatus(w, fetched))
  <2>1. fetched \subseteq w.got /\ fetched \in SUBSET Times
    BY EndsWithin DEF Works
  <2>2. Cardinality(fetched) \in Nat
    BY <2>1, LinesFinite
  <2>3. LogStatus(w, fetched) \in {"ok", "empty"} /\ w.total # -1
          => w.total <= Cardinality(fetched)
    BY <1>0, <2>2 DEF LogStatus, Truncated
  <2>s. LogStatus(w, fetched) \in Statuses
    BY ReportsTyped
  <2> HIDE DEF fetched
  <2>4. /\ v \in Works /\ v.got = fetched /\ v.counted = w.counted
        /\ v.total = w.total /\ v.lost = w.lost
    BY <2>1 DEF Works
  <2>5. Concluded(w) = f
    BY <1>1 DEF Concluded, fetched
  <2>6. /\ f.status = LogStatus(w, fetched) /\ f.got = fetched /\ f.counted = w.counted
        /\ f.total = w.total /\ f.lost = w.lost
    BY <2>4, <2>s, FinishedTyped
  <2> HIDE DEF f
  <2> QED
    BY <1>1, <2>1, <2>3, <2>5, <2>6 DEF Sound, Complete
<1>2. CASE w.source = "prometheus"
  <2>1. Concluded(w) = Finished(w, MetricStatus(w.lost)) /\ MetricStatus(w.lost) \in Statuses
    BY <1>2, ReportsTyped DEF Concluded
  <2>2. MetricStatus(w.lost) \in {"ok", "empty"} => w.lost = 0
    BY DEF MetricStatus
  <2>3. w.total = -1
    BY <1>2 DEF Sound
  <2> QED
    BY <2>1, <2>2, <2>3, FinishedTyped DEF Sound, Complete
<1>3. CASE w.source = "github"
  <2>1. Concluded(w) = Finished(w, StatusForCount(w.deploys))
        /\ StatusForCount(w.deploys) \in Statuses
    BY <1>3, ReportsTyped DEF Concluded
  <2>2. w.total = -1 /\ w.lost = 0
    BY <1>3 DEF Sound
  <2> QED
    BY <2>1, <2>2, FinishedTyped DEF Sound, Complete
<1> QED
  BY <1>0, <1>1, <1>2, <1>3

(* What GapsInv says of one collection.                                    *)
Fair(w) ==
    /\ w.pc \in {"request", "send", "failing"} => InPlan(w) /\ Sound(w)
    /\ w.pc = "done" => Complete(w)

LEMMA OnwardFair ==
    ASSUME NEW w \in Works, w.source \in Sources, lines \subseteq Times, InPlan(w), Sound(w)
    PROVE  Fair(Onward(w))
<1>1. CASE Onward(w) = Concluded(w)
  BY <1>1, ConcludedTyped, ConcludedComplete DEF Fair
<1>2. ASSUME NEW k \in Ahead(w), k \in Nat \ {0},
             Onward(w) = [w EXCEPT !.at = k, !.try = 1, !.pc = "request"]
      PROVE  Fair(Onward(w))
  <2> DEFINE next == [w EXCEPT !.at = k, !.try = 1, !.pc = "request"]
             plan == Plan(w.source, w.limit)
  <2>1. /\ next.pc = "request" /\ next.source = w.source /\ next.at = k
        /\ next.got = w.got /\ next.counted = w.counted /\ next.total = w.total
        /\ next.lost = w.lost
    BY DEF Works
  <2>2. Sound(next)
    BY <2>1 DEF Sound
  <2>3. k \in w.at + 1 .. Len(plan)
    BY DEF Ahead
  <2>4. w.source = "prometheus" => k <= MetricNames
    <3>1. MetricNames \in Nat
      BY CollectionAssumption DEF CollectionAssumption
    <3>2. w.source = "prometheus" => Len(plan) = MetricNames
      BY <3>1 DEF Plan
    <3> QED
      BY <2>3, <3>1, <3>2
  <2>5. w.source # "github"
    <3> SUFFICES ASSUME w.source = "github" PROVE FALSE
      OBVIOUS
    <3>1. plan = <<Asking("deploys", 0, 0)>> /\ w.at = 1
      BY DEF Plan, InPlan
    <3>2. Len(plan) = 1
      BY <3>1
    <3> HIDE DEF plan
    <3>3. k \in 2 .. 1
      BY <2>3, <3>1, <3>2
    <3> QED
      BY <3>3
  <2>6. InPlan(next)
    BY <2>1, <2>4, <2>5 DEF InPlan
  <2> HIDE DEF next
  <2> QED
    BY <1>2, <2>1, <2>2, <2>6 DEF Fair, next
<1> QED
  BY <1>1, <1>2, OnwardGoes

LEMMA AfterErrorFair ==
    ASSUME NEW w \in Works, w.source \in Sources, lines \subseteq Times, InPlan(w), Sound(w),
           NEW kind, NEW category \in Statuses \ {"ok", "empty"}
    PROVE  Fair(AfterError(w, kind, category))
<1>1. CASE kind = "count"
  <2> DEFINE v == [w EXCEPT !.total = -1]
  <2>1. /\ v \in Works /\ v.source = w.source /\ v.at = w.at /\ v.got = w.got
        /\ v.counted = w.counted /\ v.total = -1 /\ v.lost = w.lost
    BY DEF Works
  <2> HIDE DEF v
  <2>2. AfterError(w, kind, category) = Onward(v)
    BY <1>1 DEF AfterError, v
  <2>3. InPlan(v) /\ Sound(v)
    BY <2>1 DEF InPlan, Sound
  <2> QED
    BY <2>1, <2>2, <2>3, OnwardFair
<1>2. CASE kind # "count" /\ w.source = "prometheus"
  <2> DEFINE v == [w EXCEPT !.lost = w.lost + 1]
  <2>0. w.lost + 1 \in Nat
    BY DEF Works
  <2>1. /\ v \in Works /\ v.source = w.source /\ v.at = w.at /\ v.got = w.got
        /\ v.counted = w.counted /\ v.total = w.total
    BY <2>0 DEF Works
  <2> HIDE DEF v
  <2>2. AfterError(w, kind, category) = Onward(v)
    BY <1>2 DEF AfterError, v
  <2>3. InPlan(v) /\ Sound(v)
    BY <1>2, <2>1 DEF InPlan, Sound
  <2> QED
    BY <2>1, <2>2, <2>3, OnwardFair
<1>3. CASE kind # "count" /\ w.source # "prometheus"
  <2> DEFINE v == [w EXCEPT !.got = {}, !.lost = w.lost + 1]
  <2>0. w.lost + 1 \in Nat
    BY DEF Works
  <2>1. v \in Works
    BY <2>0 DEF Works
  <2> HIDE DEF v
  <2>2. AfterError(w, kind, category) = Finished(v, category)
    BY <1>3 DEF AfterError, v
  <2>3. Finished(v, category).pc = "done" /\ Finished(v, category).status = category
    BY <2>1, FinishedTyped
  <2> QED
    BY <2>2, <2>3 DEF Fair, Complete
<1> QED
  BY <1>1, <1>2, <1>3

LEMMA AfterAnswerFair ==
    ASSUME NEW w \in Works, w.source \in Sources, lines \subseteq Times, InPlan(w), Sound(w),
           NEW query, query.kind = "count" => w.source = "loki", NEW deploys \in 0 .. 1
    PROVE  Fair(AfterAnswer(w, query, deploys))
<1>1. CASE query.kind = "count"
  <2> DEFINE v == [w EXCEPT !.total = Cardinality(lines), !.counted = lines]
  <2>0. Cardinality(lines) \in Int
    BY LinesFinite
  <2>1. /\ v \in Works /\ v.source = w.source /\ v.at = w.at /\ v.got = w.got
        /\ v.counted = lines /\ v.total = Cardinality(lines) /\ v.lost = w.lost
    BY <2>0 DEF Works
  <2> HIDE DEF v
  <2>2. AfterAnswer(w, query, deploys) = Onward(v)
    BY <1>1 DEF AfterAnswer, v
  <2>3. InPlan(v) /\ Sound(v)
    BY <1>1, <2>1 DEF InPlan, Sound
  <2> QED
    BY <2>1, <2>2, <2>3, OnwardFair
<1>2. CASE query.kind # "count"
  <2> DEFINE v == [w EXCEPT !.got = w.got \cup Fetched(w, query), !.deploys = deploys]
  <2>0. w.got \cup Fetched(w, query) \in SUBSET Times /\ Fetched(w, query) \subseteq lines
    BY FetchedWithin DEF Works
  <2>1. /\ v \in Works /\ v.source = w.source /\ v.at = w.at
        /\ v.got = w.got \cup Fetched(w, query)
        /\ v.counted = w.counted /\ v.total = w.total /\ v.lost = w.lost
    BY <2>0 DEF Works
  <2> HIDE DEF v
  <2>2. AfterAnswer(w, query, deploys) = Onward(v)
    BY <1>2 DEF AfterAnswer, v
  <2>3. InPlan(v) /\ Sound(v)
    BY <2>0, <2>1 DEF InPlan, Sound
  <2> QED
    BY <2>1, <2>2, <2>3, OnwardFair
<1> QED
  BY <1>1, <1>2

LEMMA InitGaps == Init => GapsInv
BY DEF Init, GapsInv, Resting

LEMMA GapsStep == Typed /\ GapsInv /\ [Next]_vars => GapsInv'
<1> SUFFICES ASSUME Typed, GapsInv, [Next]_vars PROVE GapsInv'
  OBVIOUS
<1>t. /\ work \in [Collectors -> Works] /\ lines \subseteq Times
      /\ \A c \in Collectors : work[c].pc # "rest" => work[c].source \in Sources
  BY DEF Typed, TypeOK
<1>f. \A c \in Collectors : Fair(work[c])
  BY DEF GapsInv, Fair
<1>g. ASSUME NEW c \in Collectors, NEW w, work' = [work EXCEPT ![c] = w],
             lines' = lines, Fair(w)
      PROVE  GapsInv'
  <2>1. \A d \in Collectors : Fair(work'[d])
    BY <1>t, <1>f, <1>g
  <2> QED
    BY <1>g, <2>1 DEF GapsInv, Fair, InPlan, Sound, Complete
<1>q. ASSUME NEW c \in Collectors, work[c].pc \in {"request", "send", "failing"}
      PROVE  /\ work[c] \in Works /\ work[c].source \in Sources
             /\ InPlan(work[c]) /\ Sound(work[c])
  BY <1>q, <1>t, <1>f DEF Fair
<1>1. ASSUME NEW c \in Collectors, Start(c) PROVE GapsInv'
  <2>1. PICK source \in Sources, limit \in Nat :
           work' = [work EXCEPT ![c] =
             [Resting EXCEPT !.pc = "request", !.source = source, !.limit = limit,
                             !.before = lines]]
    BY <1>1, CollectionAssumption DEF Start, CollectionAssumption
  <2> DEFINE w == [Resting EXCEPT !.pc = "request", !.source = source, !.limit = limit,
                                  !.before = lines]
  <2>2. Fair(w)
    BY CollectionAssumption DEF CollectionAssumption, Resting, Fair, InPlan, Sound
  <2> HIDE DEF w
  <2>3. work' = [work EXCEPT ![c] = w]
    BY <2>1 DEF w
  <2> QED
    BY <1>1, <1>g, <2>2, <2>3 DEF Start
<1>2. ASSUME NEW c \in Collectors, CheckCircuit(c) PROVE GapsInv'
  <2>1. CASE Refused(c)
    <3>1. work' = [work EXCEPT ![c] = AfterError(work[c], Query(c).kind, "failed")]
      BY <1>2, <2>1 DEF CheckCircuit
    <3>2. Fair(AfterError(work[c], Query(c).kind, "failed"))
      BY <1>2, <1>q, <1>t, AfterErrorFair DEF CheckCircuit, Statuses
    <3> QED
      BY <1>2, <1>g, <3>1, <3>2 DEF CheckCircuit
  <2>2. CASE ~Refused(c)
    <3> DEFINE w == [work[c] EXCEPT !.pc = "send"]
    <3>1. work' = [work EXCEPT ![c] = w]
      BY <1>2, <2>2 DEF CheckCircuit
    <3>2. Fair(w)
      BY <1>2, <1>q DEF CheckCircuit, Works, Fair, InPlan, Sound
    <3> QED
      BY <1>2, <1>g, <3>1, <3>2 DEF CheckCircuit
  <2> QED
    BY <2>1, <2>2
<1>3. ASSUME NEW c \in Collectors, Answered(c) PROVE GapsInv'
  <2>1. PICK deploys \in 0 .. 1 :
           work' = [work EXCEPT ![c] = AfterAnswer(work[c], Query(c), deploys)]
    <3>1. 0 .. (IF work[c].source = "github" THEN 1 ELSE 0) \subseteq 0 .. 1
      OBVIOUS
    <3> QED
      BY <1>3, <3>1 DEF Answered
  <2>2. /\ work[c] \in Works /\ work[c].source \in Sources
        /\ InPlan(work[c]) /\ Sound(work[c])
    BY <1>3, <1>q DEF Answered
  <2>3. Query(c).kind = "count" => work[c].source = "loki"
    BY <2>2, NoCount
  <2>4. Fair(AfterAnswer(work[c], Query(c), deploys))
    BY <1>t, <2>2, <2>3, AfterAnswerFair
  <2> QED
    BY <1>3, <1>g, <2>1, <2>4 DEF Answered
<1>4. ASSUME NEW c \in Collectors, RefusedBySource(c) PROVE GapsInv'
  <2>1. PICK category \in Categories :
           work' = [work EXCEPT ![c] = AfterError(work[c], Query(c).kind, category)]
    BY <1>4 DEF RefusedBySource
  <2>2. category \in Statuses \ {"ok", "empty"}
    BY CollectionAssumption DEF CollectionAssumption, Statuses
  <2>3. Fair(AfterError(work[c], Query(c).kind, category))
    BY <1>4, <1>q, <1>t, <2>2, AfterErrorFair DEF RefusedBySource
  <2> QED
    BY <1>4, <1>g, <2>1, <2>3 DEF RefusedBySource
<1>5. ASSUME NEW c \in Collectors, AttemptFails(c) PROVE GapsInv'
  <2> DEFINE w == [work[c] EXCEPT !.try = work[c].try + 1]
             v == [work[c] EXCEPT !.pc = "failing"]
  <2>1. PICK u \in {w, v} : work' = [work EXCEPT ![c] = u]
    BY <1>5 DEF AttemptFails
  <2>2. Fair(w) /\ Fair(v)
    BY <1>5, <1>q DEF AttemptFails, Works, Fair, InPlan, Sound
  <2> HIDE DEF w, v
  <2> QED
    BY <1>5, <1>g, <2>1, <2>2 DEF AttemptFails
<1>6. ASSUME NEW c \in Collectors, CountFailure(c) PROVE GapsInv'
  <2>1. work' = [work EXCEPT ![c] = AfterError(work[c], Query(c).kind, "failed")]
    BY <1>6 DEF CountFailure
  <2>2. Fair(AfterError(work[c], Query(c).kind, "failed"))
    BY <1>6, <1>q, <1>t, AfterErrorFair DEF CountFailure, Statuses
  <2> QED
    BY <1>6, <1>g, <2>1, <2>2 DEF CountFailure
<1>7. CASE LineArrives
  <2>1. lines \subseteq lines' /\ UNCHANGED work
    BY <1>7 DEF LineArrives
  <2> QED
    BY <2>1 DEF GapsInv, InPlan, Sound, Complete
<1>8. CASE UNCHANGED vars
  BY <1>8 DEF vars, GapsInv, InPlan, Sound, Complete
<1>9. ASSUME NEW s \in Sources, CircuitExpires(s) PROVE GapsInv'
  BY <1>9 DEF CircuitExpires, GapsInv, InPlan, Sound, Complete
<1> QED
  BY <1>1, <1>2, <1>3, <1>4, <1>5, <1>6, <1>7, <1>8, <1>9 DEF Next, Request

(* A report of ok or empty has lost no request but a count, and with its   *)
(* count known it has every line there was at the count, unless more have  *)
(* come since (gather_logs, gather_metrics, gather_deploys).               *)
THEOREM GapsAreShown == Spec => []GapsShown
<1>1. Typed /\ GapsInv => GapsShown
  <2> SUFFICES ASSUME Typed, GapsInv, NEW c \in Collectors, Reports(c, {"ok", "empty"})
               PROVE  /\ work[c].lost = 0
                      /\ (work[c].total # -1 /\ lines = work[c].counted) => work[c].got = lines
    BY DEF GapsShown
  <2>1. /\ work[c].lost = 0 /\ work[c].got \subseteq lines
        /\ work[c].total # -1 => work[c].total = Cardinality(work[c].counted)
                                  /\ work[c].total <= Cardinality(work[c].got)
    BY DEF GapsInv, Complete, Reports, Reporting
  <2>2. IsFiniteSet(lines) /\ Cardinality(lines) \in Nat
    BY LinesFinite DEF Typed, TypeOK
  <2>3. ASSUME work[c].total # -1, lines = work[c].counted PROVE work[c].got = lines
    <3>1. Cardinality(work[c].got) \in Nat /\ Cardinality(lines) <= Cardinality(work[c].got)
      BY <2>1, <2>2, <2>3, FS_Subset, FS_CardinalityType
    <3> QED
      BY <2>1, <2>2, <3>1, FS_Subset
  <2> QED
    BY <2>1, <2>3
<1> QED
  BY <1>1, InitTyped, TypedStep, InitGaps, GapsStep, PTL DEF Spec
-----------------------------------------------------------------------------
(* What a plan asks for.                                                   *)

(* Lines asked of the slices before the i-th, and of a plan's requests     *)
(* before the k-th.                                                        *)
Prior(i, total, n) ==
    (i - 1) * (total \div n) + IF i - 1 <= total % n THEN i - 1 ELSE total % n
Half(i, limit) == (Quota(i, GeneralBudget(limit), SliceCount(limit)) + 1) \div 2
Asked(limit, k) ==
    LET n == SliceCount(limit)
        general(i) == Prior(i, GeneralBudget(limit), n)
    IN  IF k = 1 THEN 0
        ELSE IF k > 2 * n + 1
             THEN GeneralBudget(limit) + Prior(k - (2 * n + 1), SignalBudget(limit), n)
        ELSE IF k % 2 = 0 THEN general(k \div 2) ELSE general(k \div 2) + Half(k \div 2, limit)

LEMMA QuotasAddUp ==
    ASSUME NEW n \in 1 .. 4, NEW total \in Nat
    PROVE  /\ Prior(1, total, n) = 0 /\ Prior(n + 1, total, n) = total
           /\ \A i \in 1 .. n + 1 : Prior(i, total, n) \in Nat
           /\ \A i \in 1 .. n : /\ Quota(i, total, n) \in Nat
                                /\ total >= n => Quota(i, total, n) >= 1
                                /\ Prior(i + 1, total, n) = Prior(i, total, n) + Quota(i, total, n)
<1> DEFINE q == total \div n
           r == total % n
<1>1. /\ q \in Nat /\ r \in 0 .. n - 1 /\ total = n * q + r
      /\ total >= n => q >= 1
  <2>1. n = 1 \/ n = 2 \/ n = 3 \/ n = 4
    OBVIOUS
  <2> QED
    BY <2>1
<1>2. /\ \A i : Prior(i, total, n) = (i - 1) * q + IF i - 1 <= r THEN i - 1 ELSE r
      /\ \A i : Quota(i, total, n) = q + (IF i <= r THEN 1 ELSE 0)
  BY DEF Prior, Quota
<1> HIDE DEF q, r
<1>3. /\ 0 * q = 0 /\ 1 * q = q /\ 2 * q = q + q /\ 3 * q = q + q + q
      /\ 4 * q = q + q + q + q
  BY <1>1
<1>4. Prior(1, total, n) = 0
  BY <1>1, <1>2, <1>3
<1>5. Prior(n + 1, total, n) = total
  <2>1. n + 1 - 1 = n /\ ~(n <= r)
    BY <1>1
  <2> QED
    BY <1>1, <1>2, <2>1
<1>6. ASSUME NEW i \in 1 .. n + 1 PROVE Prior(i, total, n) \in Nat
  <2>1. (i - 1) * q \in Nat
    BY <1>1
  <2> QED
    BY <1>1, <1>2, <2>1
<1>7. ASSUME NEW i \in 1 .. n
      PROVE  /\ Quota(i, total, n) \in Nat /\ (total >= n => Quota(i, total, n) >= 1)
             /\ Prior(i + 1, total, n) = Prior(i, total, n) + Quota(i, total, n)
  <2>1. i + 1 - 1 = i /\ i * q = (i - 1) * q + q
    <3>1. i = 1 \/ i = 2 \/ i = 3 \/ i = 4
      OBVIOUS
    <3> QED
      BY <1>1, <1>3, <3>1
  <2>2. (i - 1) * q \in Nat
    BY <1>1
  <2>3. Prior(i + 1, total, n) = i * q + IF i <= r THEN i ELSE r
    <3>1. Prior(i + 1, total, n) = (i + 1 - 1) * q + IF i + 1 - 1 <= r THEN i + 1 - 1 ELSE r
      BY <1>2
    <3> QED
      BY <2>1, <3>1, Zenon
  <2>4. Prior(i, total, n) = (i - 1) * q + IF i - 1 <= r THEN i - 1 ELSE r
    BY <1>2
  <2>5. Quota(i, total, n) = q + IF i <= r THEN 1 ELSE 0
    BY <1>2
  <2> DEFINE x == (i - 1) * q
             y == i * q
  <2>6. x \in Nat /\ y = x + q
    BY <2>1, <2>2
  <2>7. Prior(i + 1, total, n) = y + IF i <= r THEN i ELSE r
    BY <2>3
  <2>8. Prior(i, total, n) = x + IF i - 1 <= r THEN i - 1 ELSE r
    BY <2>4
  <2> HIDE DEF x, y
  <2> QED
    BY <1>1, <2>5, <2>6, <2>7, <2>8
<1> QED
  BY <1>4, <1>5, <1>6, <1>7

LEMMA AskedAt ==
    ASSUME NEW limit \in Nat \ {0}
    PROVE  LET n == SliceCount(limit)
           IN  /\ Asked(limit, 1) = 0
               /\ \A i \in 1 .. n :
                     /\ Asked(limit, 2 * i) = Prior(i, GeneralBudget(limit), n)
                     /\ Asked(limit, 2 * i + 1) =
                           Prior(i, GeneralBudget(limit), n) + Half(i, limit)
               /\ \A i \in 1 .. n + 1 :
                     Asked(limit, 2 * n + 1 + i) =
                        GeneralBudget(limit) + Prior(i, SignalBudget(limit), n)
<1> DEFINE n == SliceCount(limit)
           general(i) == Prior(i, GeneralBudget(limit), n)
           half(i) == Half(i, limit)
           signal(i) == Prior(i, SignalBudget(limit), n)
<1>1. n \in 1 .. 4
  BY SlicesFilled
<1>2. \A k : Asked(limit, k) =
        IF k = 1 THEN 0
        ELSE IF k > 2 * n + 1 THEN GeneralBudget(limit) + signal(k - (2 * n + 1))
        ELSE IF k % 2 = 0 THEN general(k \div 2) ELSE general(k \div 2) + half(k \div 2)
  BY DEF Asked
<1> HIDE DEF n, general, half, signal
<1>3. ASSUME NEW i \in 1 .. n
      PROVE  /\ Asked(limit, 2 * i) = general(i)
             /\ Asked(limit, 2 * i + 1) = general(i) + half(i)
  <2>1. i = 1 \/ i = 2 \/ i = 3 \/ i = 4
    BY <1>1
  <2>2. /\ (2 * i) \div 2 = i /\ (2 * i) % 2 = 0
        /\ (2 * i + 1) \div 2 = i /\ (2 * i + 1) % 2 # 0
    BY <2>1
  <2>3. 2 * i # 1 /\ ~(2 * i > 2 * n + 1) /\ 2 * i + 1 # 1 /\ ~(2 * i + 1 > 2 * n + 1)
    BY <1>1
  <2> QED
    BY <1>2, <2>2, <2>3, Zenon
<1>4. ASSUME NEW i \in 1 .. n + 1
      PROVE  Asked(limit, 2 * n + 1 + i) = GeneralBudget(limit) + signal(i)
  <2> DEFINE k == 2 * n + 1 + i
  <2>1. k # 1 /\ k > 2 * n + 1 /\ k - (2 * n + 1) = i
    BY <1>1
  <2> HIDE DEF k
  <2>2. Asked(limit, k) = GeneralBudget(limit) + signal(i)
    BY <1>2, <2>1
  <2> QED
    BY <2>2 DEF k
<1> QED
  BY <1>2, <1>3, <1>4 DEF n, general, half, signal

(* Which request is the k-th.                                              *)
LEMMA WhichRequest ==
    ASSUME NEW n \in 1 .. 4, NEW k \in 1 .. 3 * n + 2
    PROVE  \/ k = 1 \/ k = 3 * n + 2
           \/ \E i \in 1 .. n : k = 2 * i \/ k = 2 * i + 1 \/ k = 2 * n + 1 + i
<1>1. CASE k \in 2 .. 2 * n + 1
  <2>1. k \div 2 \in 1 .. n /\ (k = 2 * (k \div 2) \/ k = 2 * (k \div 2) + 1)
    BY <1>1
  <2> QED
    BY <2>1
<1>2. CASE k \in 2 * n + 2 .. 3 * n + 1
  <2>1. k - (2 * n + 1) \in 1 .. n /\ k = 2 * n + 1 + (k - (2 * n + 1))
    BY <1>2
  <2> QED
    BY <2>1
<1> QED
  BY <1>1, <1>2

(* Each request adds its quota to what was asked for, and the sampling     *)
(* asks for the limit in all.                                              *)
LEMMA AskedAddsUp ==
    ASSUME NEW limit \in Nat \ {0}
    PROVE  LET plan == Plan("loki", limit)
               end == 3 * SliceCount(limit) + 2
           IN  /\ Asked(limit, 1) = 0 /\ Asked(limit, 2) = 0 /\ Asked(limit, end) = limit
               /\ \A k \in 1 .. end : Asked(limit, k) \in Nat
               /\ \A k \in 1 .. end - 1 :
                     /\ plan[k].quota \in Nat
                     /\ Asked(limit, k + 1) = Asked(limit, k) + plan[k].quota
<1> DEFINE n == SliceCount(limit)
           G == GeneralBudget(limit)
           S == SignalBudget(limit)
           plan == Plan("loki", limit)
<1>1. /\ n \in 1 .. 4 /\ G \in Nat /\ S \in Nat /\ G + S = limit
  BY SlicesFilled, BudgetsAddUp
<1>2. /\ plan[1].quota = 0
      /\ \A i \in 1 .. n : /\ plan[2 * i].quota = Half(i, limit)
                           /\ plan[2 * i + 1].quota = Quota(i, G, n) - Half(i, limit)
                           /\ plan[2 * n + 1 + i].quota = Quota(i, S, n)
  <2>1. /\ plan[1] = Asking("count", 0, 0)
        /\ \A i \in 1 .. n :
              /\ plan[2 * i] = Asking("forward", i, Half(i, limit))
              /\ plan[2 * i + 1] = Asking("backward", i, Quota(i, G, n) - Half(i, limit))
              /\ plan[2 * n + 1 + i] = Asking("signal", i, Quota(i, S, n))
    BY PlanOfLogs, Zenon DEF Half
  <2>2. \A kind, i, m : Asking(kind, i, m).quota = m
    BY DEF Asking
  <2> HIDE DEF plan, n, G, S
  <2> QED
    BY <2>1, <2>2
<1>3. /\ Prior(1, G, n) = 0 /\ Prior(n + 1, G, n) = G
      /\ \A i \in 1 .. n + 1 : Prior(i, G, n) \in Nat
      /\ \A i \in 1 .. n : /\ Quota(i, G, n) \in Nat
                           /\ Prior(i + 1, G, n) = Prior(i, G, n) + Quota(i, G, n)
  BY <1>1, QuotasAddUp
<1>4. /\ Prior(1, S, n) = 0 /\ Prior(n + 1, S, n) = S
      /\ \A i \in 1 .. n + 1 : Prior(i, S, n) \in Nat
      /\ \A i \in 1 .. n : /\ Quota(i, S, n) \in Nat
                           /\ Prior(i + 1, S, n) = Prior(i, S, n) + Quota(i, S, n)
  BY <1>1, QuotasAddUp
<1>5. \A i \in 1 .. n : Half(i, limit) \in Nat /\ Quota(i, G, n) - Half(i, limit) \in Nat
  BY <1>3 DEF Half
<1>6. /\ Asked(limit, 1) = 0
      /\ \A i \in 1 .. n : /\ Asked(limit, 2 * i) = Prior(i, G, n)
                           /\ Asked(limit, 2 * i + 1) = Prior(i, G, n) + Half(i, limit)
      /\ \A i \in 1 .. n + 1 : Asked(limit, 2 * n + 1 + i) = G + Prior(i, S, n)
  BY AskedAt
<1> HIDE DEF n, G, S, plan
<1>7. 2 = 2 * 1 /\ 1 \in 1 .. n /\ 3 * n + 2 = 2 * n + 1 + (n + 1) /\ n + 1 \in 1 .. n + 1
      /\ 2 * n + 2 = 2 * n + 1 + 1 /\ 1 \in 1 .. n + 1
  BY <1>1
<1>8. Asked(limit, 2) = 0 /\ Asked(limit, 3 * n + 2) = limit
  BY <1>1, <1>3, <1>4, <1>6, <1>7
<1>9. ASSUME NEW i \in 1 .. n
      PROVE  /\ Asked(limit, 2 * i) \in Nat /\ Asked(limit, 2 * i + 1) \in Nat
             /\ Asked(limit, 2 * n + 1 + i) \in Nat
             /\ plan[2 * i].quota \in Nat /\ plan[2 * i + 1].quota \in Nat
             /\ plan[2 * n + 1 + i].quota \in Nat
             /\ Asked(limit, 2 * i + 1) = Asked(limit, 2 * i) + plan[2 * i].quota
             /\ Asked(limit, 2 * i + 2) = Asked(limit, 2 * i + 1) + plan[2 * i + 1].quota
             /\ Asked(limit, 2 * n + 1 + i + 1) =
                   Asked(limit, 2 * n + 1 + i) + plan[2 * n + 1 + i].quota
  <2>0. i \in 1 .. n + 1 /\ i + 1 \in 1 .. n + 1
    BY <1>1
  <2>1. /\ Asked(limit, 2 * i) \in Nat /\ Asked(limit, 2 * i + 1) \in Nat
        /\ Asked(limit, 2 * n + 1 + i) \in Nat
        /\ plan[2 * i].quota \in Nat /\ plan[2 * i + 1].quota \in Nat
        /\ plan[2 * n + 1 + i].quota \in Nat
    <3>1. /\ Prior(i, G, n) \in Nat /\ Prior(i, S, n) \in Nat /\ Half(i, limit) \in Nat
          /\ Quota(i, G, n) - Half(i, limit) \in Nat /\ Quota(i, S, n) \in Nat
      BY <1>3, <1>4, <1>5, <2>0
    <3>2. G + Prior(i, S, n) \in Nat /\ Prior(i, G, n) + Half(i, limit) \in Nat
      BY <1>1, <3>1
    <3>3. Asked(limit, 2 * n + 1 + i) = G + Prior(i, S, n)
      BY <1>6, <2>0
    <3> QED
      BY <1>2, <1>6, <3>1, <3>2, <3>3
  <2>2. Asked(limit, 2 * i + 1) = Asked(limit, 2 * i) + plan[2 * i].quota
    BY <1>2, <1>6
  <2>3. Asked(limit, 2 * i + 2) = Prior(i + 1, G, n)
    <3>1. CASE i = n
      BY <1>1, <1>3, <1>4, <1>6, <1>7, <3>1
    <3>2. CASE i # n
      <4>1. i + 1 \in 1 .. n /\ 2 * (i + 1) = 2 * i + 2
        BY <1>1, <3>2
      <4> QED
        BY <1>6, <4>1
    <3> QED
      BY <3>1, <3>2
  <2>4. Asked(limit, 2 * i + 2) = Asked(limit, 2 * i + 1) + plan[2 * i + 1].quota
    <3>1. Prior(i, G, n) \in Nat /\ Quota(i, G, n) \in Nat /\ Half(i, limit) \in Nat
      BY <1>3, <1>5, <2>0
    <3> QED
      BY <1>2, <1>3, <1>6, <2>3, <3>1
  <2>5. 2 * n + 1 + i + 1 = 2 * n + 1 + (i + 1)
    BY <1>1
  <2>6. Asked(limit, 2 * n + 1 + i + 1) =
                   Asked(limit, 2 * n + 1 + i) + plan[2 * n + 1 + i].quota
    <3>1. Asked(limit, 2 * n + 1 + (i + 1)) = G + Prior(i + 1, S, n)
      BY <1>6, <2>0
    <3>2. Asked(limit, 2 * n + 1 + i) = G + Prior(i, S, n)
      BY <1>6, <2>0
    <3>3. plan[2 * n + 1 + i].quota = Quota(i, S, n)
      BY <1>2
    <3>4. /\ Prior(i + 1, S, n) = Prior(i, S, n) + Quota(i, S, n)
          /\ Prior(i, S, n) \in Nat /\ Quota(i, S, n) \in Nat
      BY <1>4, <2>0
    <3>5. Asked(limit, 2 * n + 1 + i + 1) = G + Prior(i + 1, S, n)
      BY <2>5, <3>1
    <3> HIDE DEF Prior, Quota
    <3> QED
      BY <1>1, <3>2, <3>3, <3>4, <3>5
  <2> QED
    BY <2>1, <2>2, <2>4, <2>6
<1>10. ASSUME NEW k \in 1 .. 3 * n + 2 PROVE Asked(limit, k) \in Nat
  <2>1. CASE k = 1 \/ k = 3 * n + 2
    BY <1>6, <1>8, <2>1
  <2>2. CASE \E i \in 1 .. n : k = 2 * i \/ k = 2 * i + 1 \/ k = 2 * n + 1 + i
    BY <1>9, <2>2
  <2> QED
    BY <1>1, <2>1, <2>2, WhichRequest
<1>11. ASSUME NEW k \in 1 .. 3 * n + 1
       PROVE  plan[k].quota \in Nat /\ Asked(limit, k + 1) = Asked(limit, k) + plan[k].quota
  <2>1. CASE k = 1
    BY <1>2, <1>6, <1>8, <2>1
  <2>2. ASSUME NEW i \in 1 .. n, k = 2 * i \/ k = 2 * i + 1 \/ k = 2 * n + 1 + i
        PROVE  plan[k].quota \in Nat /\ Asked(limit, k + 1) = Asked(limit, k) + plan[k].quota
    <3>1. 2 * i + 1 + 1 = 2 * i + 2
      BY <1>1
    <3> QED
      BY <1>9, <2>2, <3>1
  <2>3. k \in 1 .. 3 * n + 2 /\ k # 3 * n + 2
    BY <1>1
  <2> QED
    BY <1>1, <2>1, <2>2, <2>3, WhichRequest
<1>12. (3 * n + 2) - 1 = 3 * n + 1
  BY <1>1
<1> QED
  <2>1. /\ \A k \in 1 .. 3 * n + 2 : Asked(limit, k) \in Nat
        /\ \A k \in 1 .. (3 * n + 2) - 1 :
              plan[k].quota \in Nat /\ Asked(limit, k + 1) = Asked(limit, k) + plan[k].quota
    BY <1>10, <1>11, <1>12
  <2> QED
    BY <1>6, <1>8, <2>1 DEF n, plan

(* So what was asked for never shrinks along the plan.                     *)
LEMMA AskedGrows ==
    ASSUME NEW limit \in Nat \ {0}, NEW k \in 1 .. 3 * SliceCount(limit) + 2,
           NEW m \in 1 .. 3 * SliceCount(limit) + 2, k <= m
    PROVE  Asked(limit, k) <= Asked(limit, m)
<1> DEFINE end == 3 * SliceCount(limit) + 2
           Lower == {x \in 1 .. end : k <= x /\ Asked(limit, x) < Asked(limit, k)}
<1>0. end \in Nat
  BY SlicesFilled
<1>1. /\ \A x \in 1 .. end : Asked(limit, x) \in Nat
      /\ \A x \in 1 .. end - 1 : Asked(limit, x) <= Asked(limit, x + 1)
  <2>1. \A x \in 1 .. end : Asked(limit, x) \in Nat
    BY AskedAddsUp
  <2>2. ASSUME NEW x \in 1 .. end - 1 PROVE Asked(limit, x) <= Asked(limit, x + 1)
    <3>1. /\ Plan("loki", limit)[x].quota \in Nat
          /\ Asked(limit, x + 1) = Asked(limit, x) + Plan("loki", limit)[x].quota
      BY AskedAddsUp
    <3>2. x \in 1 .. end
      BY <1>0
    <3> QED
      BY <2>1, <3>1, <3>2
  <2> QED
    BY <2>1, <2>2
<1> HIDE DEF end
<1>2. Lower = {}
  <2> SUFFICES ASSUME Lower # {} PROVE FALSE
    OBVIOUS
  <2>1. Lower \in SUBSET Nat
    BY <1>0
  <2>2. Min(Lower) \in Lower /\ \A x \in Lower : Min(Lower) <= x
    BY <2>1, LeastExists
  <2> DEFINE x == Min(Lower)
  <2>3. /\ x \in 1 .. end /\ k <= x /\ Asked(limit, x) < Asked(limit, k) /\ k \in Nat
        /\ k \in 1 .. end
    BY <2>2 DEF end
  <2>4. \A y \in Lower : x <= y
    BY <2>2
  <2> HIDE DEF x
  <2>5. x # k
    BY <1>1, <2>3
  <2>6. x - 1 \in 1 .. end - 1 /\ x - 1 \in 1 .. end /\ k <= x - 1 /\ x - 1 + 1 = x
    BY <1>0, <2>3, <2>5
  <2>7. x - 1 \notin Lower
    BY <2>3, <2>4
  <2>8. Asked(limit, x - 1) <= Asked(limit, x)
    BY <1>1, <2>6
  <2> QED
    BY <1>1, <2>3, <2>6, <2>7, <2>8
<1>3. m \in 1 .. end /\ k \in 1 .. end
  BY DEF end
<1> QED
  BY <1>1, <1>2, <1>3

-----------------------------------------------------------------------------
(* The earliest and the latest of a set of lines.                          *)
LEMMA GreatestExists ==
    ASSUME NEW S \in SUBSET Times, S # {}
    PROVE  \E m \in S : \A x \in S : x <= m
<1> DEFINE T == {y \in Nat : \E x \in S : y = Window - x}
<1>1. Window \in Nat /\ \A x \in S : x \in Nat /\ x < Window
  BY CollectionAssumption DEF CollectionAssumption, Times
<1>2. \A x \in S : Window - x \in T
  BY <1>1
<1>3. T \in SUBSET Nat /\ T # {}
  BY <1>2
<1>4. Min(T) \in T /\ \A y \in T : Min(T) <= y
  BY <1>3, LeastExists
<1>5. PICK m \in S : Min(T) = Window - m
  BY <1>4
<1>6. ASSUME NEW x \in S PROVE x <= m
  <2>1. Window - m <= Window - x
    BY <1>2, <1>4, <1>5
  <2> QED
    BY <1>1, <2>1
<1> QED
  BY <1>6

(* No more lines come back than were asked for.                            *)
LEMMA EndsBounded ==
    ASSUME NEW S \in SUBSET Times, NEW n \in Nat
    PROVE  Cardinality(Earliest(S, n)) <= n /\ Cardinality(Latest(S, n)) <= n
<1>0. \A R \in SUBSET S : IsFiniteSet(R) /\ Cardinality(R) \in Nat
  BY LinesFinite
<1>1. ASSUME NEW E \in SUBSET S, NEW m \in E, NEW R \in SUBSET S,
             Cardinality(R) < n, E \subseteq R \cup {m}
      PROVE  Cardinality(E) <= n
  <2>1. R \cup {m} \in SUBSET S
    OBVIOUS
  <2>2. Cardinality(E) <= Cardinality(R \cup {m})
    BY <1>0, <1>1, <2>1, FS_Subset
  <2>3. Cardinality(R \cup {m}) <= Cardinality(R) + 1
    BY <1>0, FS_AddElement
  <2> QED
    BY <1>0, <1>1, <2>1, <2>2, <2>3
<1>2. Cardinality({}) = 0
  BY FS_EmptySet
<1>3. Cardinality(Earliest(S, n)) <= n
  <2>1. CASE Earliest(S, n) = {}
    BY <1>2, <2>1
  <2>2. CASE Earliest(S, n) # {}
    <3>1. Earliest(S, n) \in SUBSET S /\ Earliest(S, n) \in SUBSET Times
      BY EndsWithin
    <3>2. PICK m \in Earliest(S, n) : \A x \in Earliest(S, n) : x <= m
      BY <2>2, <3>1, GreatestExists
    <3>3. Cardinality({u \in S : u < m}) < n
      BY <3>2 DEF Earliest
    <3>4. Earliest(S, n) \subseteq {u \in S : u < m} \cup {m}
      BY <3>1, <3>2 DEF Times
    <3> QED
      BY <1>1, <3>1, <3>3, <3>4
  <2> QED
    BY <2>1, <2>2
<1>4. Cardinality(Latest(S, n)) <= n
  <2>1. CASE Latest(S, n) = {}
    BY <1>2, <2>1
  <2>2. CASE Latest(S, n) # {}
    <3>0. Times \subseteq Nat
      BY DEF Times
    <3>1. Latest(S, n) \in SUBSET S /\ Latest(S, n) \in SUBSET Nat
      BY <3>0, EndsWithin
    <3>2. PICK m \in Latest(S, n) : \A x \in Latest(S, n) : m <= x
      BY <2>2, <3>1, LeastExists
    <3>3. Cardinality({u \in S : u > m}) < n
      BY <3>2 DEF Latest
    <3>4. Latest(S, n) \subseteq {u \in S : u > m} \cup {m}
      BY <3>1, <3>2 DEF Times
    <3> QED
      BY <1>1, <3>1, <3>3, <3>4
  <2> QED
    BY <2>1, <2>2
<1> QED
  BY <1>3, <1>4

(* One line from an end is at least as far out as any line there was.      *)
LEMMA EndsReach ==
    ASSUME NEW S \in SUBSET Times, NEW t \in S, NEW n \in Nat \ {0}
    PROVE  /\ \E u \in Earliest(S, n) : u <= t
           /\ \E u \in Latest(S, n) : u >= t
<1>0. Cardinality({}) = 0 /\ \A x \in S : x \in Nat
  BY FS_EmptySet DEF Times
<1>1. \E u \in Earliest(S, n) : u <= t
  <2>1. PICK m \in S : \A x \in S : m <= x
    BY <1>0, LeastExists
  <2>2. {u \in S : u < m} = {}
    BY <1>0, <2>1
  <2>3. m \in Earliest(S, n)
    BY <1>0, <2>2 DEF Earliest
  <2> QED
    BY <2>1, <2>3
<1>2. \E u \in Latest(S, n) : u >= t
  <2>1. PICK m \in S : \A x \in S : x <= m
    BY GreatestExists
  <2>2. {u \in S : u > m} = {}
    BY <1>0, <2>1
  <2>3. m \in Latest(S, n)
    BY <1>0, <2>2 DEF Latest
  <2> QED
    BY <1>0, <2>1, <2>3
<1> QED
  BY <1>1, <1>2

(* Cutting a sample that is within the limit drops nothing.                *)
LEMMA NothingCut ==
    ASSUME NEW S \in SUBSET Times, NEW n \in Nat, Cardinality(S) <= n
    PROVE  Earliest(S, n) = S
<1> SUFFICES ASSUME NEW t \in S PROVE Cardinality({u \in S : u < t}) < n
  BY DEF Earliest
<1> DEFINE R == {u \in S : u < t}
<1>1. R \subseteq S /\ R # S
  <2>1. t \in Nat
    BY DEF Times
  <2> QED
    BY <2>1
<1>2. IsFiniteSet(S) /\ Cardinality(S) \in Nat /\ Cardinality(R) \in Nat
  BY LinesFinite
<1> HIDE DEF R
<1>3. Cardinality(R) <= Cardinality(S) /\ Cardinality(R) # Cardinality(S)
  BY <1>1, <1>2, FS_Subset
<1> QED
  BY <1>2, <1>3 DEF R

-----------------------------------------------------------------------------
(* Samples.                                                                *)

(* What a request of the plan is for: the lines of its slice that were     *)
(* there at the beginning are reached by the sample.                       *)
Met(w, query) ==
    LET slice == Slice(query.slice, SliceCount(w.limit))
        early == slice \cap w.before
        mine == w.got \cap slice
    IN  query.quota > 0 =>
           /\ query.kind = "forward" => \A t \in early : \E u \in mine : u <= t
           /\ query.kind = "backward" => \A t \in early : \E u \in mine : u >= t
           /\ query.kind = "signal" =>
                 \A t \in early \cap Signals : \E u \in mine \cap Signals : u <= t

(* The requests before the current one have been met and have brought no   *)
(* more than they asked for (Ready); or it has been answered too (Served). *)
End(w) == 3 * SliceCount(w.limit) + 2
Begun(w) ==
    /\ w.limit \in Nat \ {0} /\ w.at \in 1 .. End(w)
    /\ w.before \subseteq lines
    /\ w.total # -1 => w.before \subseteq w.counted
Ready(w) ==
    /\ Begun(w)
    /\ Cardinality(w.got) <= Asked(w.limit, w.at)
    /\ \A k \in 1 .. End(w) : k < w.at => Met(w, Plan("loki", w.limit)[k])
Served(w) ==
    /\ Begun(w)
    /\ Cardinality(w.got) <= IF w.at < End(w) THEN Asked(w.limit, w.at + 1) ELSE w.limit
    /\ \A k \in 1 .. End(w) : k <= w.at => Met(w, Plan("loki", w.limit)[k])

Covers(w) ==
    w.status \in {"ok", "partial", "empty"} =>
       \A i \in 1 .. SliceCount(w.limit) : CoversSlice(w, i)

Sampled(w) ==
    w.source = "loki" =>
       /\ w.pc \in {"request", "send", "failing"} => Ready(w)
       /\ w.pc = "done" => Covers(w)
SampleInv == \A c \in Collectors : Sampled(work[c])

LEMMA EndTyped ==
    ASSUME NEW w, w.limit \in Nat \ {0}
    PROVE  /\ End(w) \in Nat /\ End(w) >= 5 /\ SliceCount(w.limit) \in 1 .. 4
           /\ End(w) = 3 * SliceCount(w.limit) + 2
           /\ Len(Plan("loki", w.limit)) = End(w)
<1>1. SliceCount(w.limit) \in 1 .. 4
  BY SlicesFilled
<1>2. Len(Plan("loki", w.limit)) = 3 * SliceCount(w.limit) + 2
  BY PlanOfLogs
<1> QED
  BY <1>1, <1>2 DEF End

(* Only the first request is the count and only the last the top up.       *)
LEMMA KindsOfLogs ==
    ASSUME NEW w, w.limit \in Nat \ {0}, NEW k \in 1 .. End(w)
    PROVE  LET query == Plan("loki", w.limit)[k]
           IN  /\ query.kind = "count" <=> k = 1
               /\ query.kind = "top_up" <=> k = End(w)
               /\ k = 1 => query.quota = 0
               /\ k \notin {1, End(w)} => query.kind \in {"forward", "backward", "signal"}
<1> DEFINE n == SliceCount(w.limit)
           plan == Plan("loki", w.limit)
<1>1. /\ n \in 1 .. 4 /\ End(w) = 3 * n + 2
  BY EndTyped
<1>2. /\ plan[1].kind = "count" /\ plan[1].quota = 0 /\ plan[3 * n + 2].kind = "top_up"
      /\ \A i \in 1 .. n : /\ plan[2 * i].kind = "forward"
                           /\ plan[2 * i + 1].kind = "backward"
                           /\ plan[2 * n + 1 + i].kind = "signal"
  <2>1. \A kind, i, m : Asking(kind, i, m).kind = kind /\ Asking(kind, i, m).quota = m
    BY DEF Asking
  <2>2. /\ plan[1] = Asking("count", 0, 0) /\ plan[3 * n + 2] = Asking("top_up", 0, w.limit)
        /\ \A i \in 1 .. n :
              /\ \E m : plan[2 * i] = Asking("forward", i, m)
              /\ \E m : plan[2 * i + 1] = Asking("backward", i, m)
              /\ \E m : plan[2 * n + 1 + i] = Asking("signal", i, m)
    BY PlanOfLogs, Zenon
  <2> HIDE DEF n, plan
  <2> QED
    BY <2>1, <2>2
<1> HIDE DEF n, plan
<1>3. 1 # 3 * n + 2
  BY <1>1
<1>4. CASE k = 1
  BY <1>1, <1>2, <1>3, <1>4 DEF plan
<1>5. CASE k = 3 * n + 2
  BY <1>1, <1>2, <1>3, <1>5 DEF plan
<1>6. ASSUME NEW i \in 1 .. n, k = 2 * i \/ k = 2 * i + 1 \/ k = 2 * n + 1 + i
      PROVE  k # 1 /\ k # 3 * n + 2 /\ plan[k].kind \in {"forward", "backward", "signal"}
  <2>1. k # 1 /\ k # 3 * n + 2
    BY <1>1, <1>6
  <2> QED
    BY <1>2, <1>6, <2>1
<1>7. k = 1 \/ k = 3 * n + 2
      \/ \E i \in 1 .. n : k = 2 * i \/ k = 2 * i + 1 \/ k = 2 * n + 1 + i
  BY <1>1, WhichRequest
<1> QED
  BY <1>1, <1>4, <1>5, <1>6, <1>7 DEF plan

LEMMA MetKept ==
    ASSUME NEW w, NEW v, NEW query, v.limit = w.limit, v.before = w.before,
           w.got \subseteq v.got, Met(w, query)
    PROVE  Met(v, query)
BY Zenon DEF Met

(* A request that is not sent is met.                                      *)
LEMMA UnsentMet ==
    ASSUME NEW w, w.limit \in Nat \ {0}, NEW k \in 1 .. End(w), k # End(w),
           ~Sent(w, Plan("loki", w.limit)[k])
    PROVE  Met(w, Plan("loki", w.limit)[k])
<1> DEFINE query == Plan("loki", w.limit)[k]
<1>1. query.kind = "count" \/ query.kind \in {"forward", "backward", "signal"}
  BY KindsOfLogs
<1> HIDE DEF query
<1>2. CASE query.kind \in {"forward", "backward", "signal"}
  BY <1>2 DEF Sent, Met, query
<1>3. CASE query.kind = "count"
  BY <1>3 DEF Met, query
<1> QED
  BY <1>1, <1>2, <1>3

(* A sample that met all requests of the plan reaches over every slice.    *)
LEMMA AllMetCovers ==
    ASSUME NEW w, w.limit \in Nat \ {0},
           \A k \in 1 .. End(w) : k # End(w) => Met(w, Plan("loki", w.limit)[k]),
           NEW i \in 1 .. SliceCount(w.limit)
    PROVE  CoversSlice(w, i)
<1> DEFINE n == SliceCount(w.limit)
           plan == Plan("loki", w.limit)
           quota == Quota(i, GeneralBudget(w.limit), n)
           signals == Quota(i, SignalBudget(w.limit), n)
           slice == Slice(i, n)
           early == slice \cap w.before
           mine == w.got \cap slice
<1>1. n \in 1 .. 4 /\ End(w) = 3 * n + 2
  BY EndTyped
<1>2. /\ plan[2 * i] = Asking("forward", i, (quota + 1) \div 2)
      /\ plan[2 * i + 1] = Asking("backward", i, quota - ((quota + 1) \div 2))
      /\ plan[2 * n + 1 + i] = Asking("signal", i, signals)
  BY PlanOfLogs, Zenon
<1>3. quota \in Nat /\ quota >= 1
  <2>1. GeneralBudget(w.limit) \in Nat /\ GeneralBudget(w.limit) >= n
    BY <1>1, SlicesFilled, BudgetsAddUp
  <2> QED
    BY <1>1, <2>1, QuotasAddUp
<1> HIDE DEF n, plan, quota, signals
<1>4. /\ 2 * i \in 1 .. End(w) /\ 2 * i + 1 \in 1 .. End(w) /\ 2 * n + 1 + i \in 1 .. End(w)
      /\ 2 * i # End(w) /\ 2 * i + 1 # End(w) /\ 2 * n + 1 + i # End(w)
  BY <1>1 DEF n
<1>5. Met(w, plan[2 * i]) /\ Met(w, plan[2 * i + 1]) /\ Met(w, plan[2 * n + 1 + i])
  BY <1>4 DEF plan
<1>6. \A kind, m : /\ Asking(kind, i, m).kind = kind /\ Asking(kind, i, m).slice = i
                   /\ Asking(kind, i, m).quota = m
  BY DEF Asking
<1>7. \A t \in early : \E u \in mine : u <= t
  <2>1. (quota + 1) \div 2 > 0
    BY <1>3
  <2> QED
    BY <1>2, <1>5, <1>6, <2>1 DEF Met, n
<1>8. quota > 1 => \A t \in early : \E u \in mine : u >= t
  <2>1. quota > 1 => quota - ((quota + 1) \div 2) > 0
    BY <1>3
  <2> QED
    BY <1>2, <1>5, <1>6, <2>1 DEF Met, n
<1>9. signals > 0 => \A t \in early \cap Signals : \E u \in mine \cap Signals : u <= t
  BY <1>2, <1>5, <1>6 DEF Met, n
<1>10. /\ Earliest(early, 1) \subseteq early /\ Latest(early, 1) \subseteq early
       /\ Earliest(early \cap Signals, 1) \subseteq early \cap Signals
  BY EndsWithin
<1>11. /\ \A t \in Earliest(early, 1) : \E u \in mine : u <= t
       /\ quota > 1 => \A t \in Latest(early, 1) : \E u \in mine : u >= t
       /\ signals > 0 => \A t \in Earliest(early \cap Signals, 1) :
                            \E u \in mine \cap Signals : u <= t
  <2> HIDE DEF early, mine
  <2> QED
    BY <1>7, <1>8, <1>9, <1>10
<1> QED
  BY <1>11, Zenon DEF CoversSlice, n, quota, signals

LEMMA ServedGoes ==
    ASSUME NEW w \in Works, w.source = "loki", "loki" \in Sources, lines \subseteq Times,
           Sound(w), Served(w)
    PROVE  Sampled(Onward(w))
<1> DEFINE plan == Plan("loki", w.limit)
<1>1. /\ w.limit \in Nat \ {0} /\ w.at \in 1 .. End(w) /\ End(w) \in Nat
      /\ w.before \subseteq lines /\ Len(plan) = End(w)
      /\ w.got \in SUBSET Times /\ Cardinality(w.got) \in Nat
  BY EndTyped, LinesFinite DEF Served, Begun, Works
<1>2. \A k \in 1 .. End(w) : k <= w.at => Met(w, plan[k])
  BY DEF Served
<1>3. \A k \in 1 .. End(w) :
         w.at < k => Cardinality(w.got) <= Asked(w.limit, k) /\ Asked(w.limit, k) \in Nat
  <2> SUFFICES ASSUME NEW k \in 1 .. End(w), w.at < k
               PROVE  Cardinality(w.got) <= Asked(w.limit, k) /\ Asked(w.limit, k) \in Nat
    OBVIOUS
  <2>1. /\ w.at + 1 \in 1 .. End(w) /\ w.at + 1 <= k /\ w.at < End(w)
    BY <1>1
  <2>2. /\ Asked(w.limit, w.at + 1) <= Asked(w.limit, k)
        /\ Asked(w.limit, w.at + 1) \in Nat /\ Asked(w.limit, k) \in Nat
    BY <1>1, <2>1, AskedGrows, AskedAddsUp DEF End
  <2>3. Cardinality(w.got) <= Asked(w.limit, w.at + 1)
    BY <2>1 DEF Served
  <2> QED
    BY <1>1, <2>2, <2>3
<1>4. Cardinality(w.got) <= w.limit
  <2>1. CASE w.at < End(w)
    <3>1. End(w) \in 1 .. End(w) /\ Asked(w.limit, End(w)) = w.limit
      BY <1>1, <2>1, AskedAddsUp DEF End
    <3> QED
      BY <1>3, <2>1, <3>1
  <2>2. CASE ~(w.at < End(w))
    BY <2>2 DEF Served
  <2> QED
    BY <2>1, <2>2
<1>5. ASSUME NEW k \in 1 .. End(w), k # End(w), w.at < k, k \notin Ahead(w)
      PROVE  Met(w, plan[k])
  <2>1. k \in w.at + 1 .. Len(plan)
    BY <1>1, <1>5
  <2>2. ~Sent(w, plan[k])
    BY <1>5, <2>1 DEF Ahead
  <2> QED
    BY <1>1, <1>5, <2>2, UnsentMet
<1>6. ASSUME Ahead(w) = {} \/ w.total = 0, Onward(w) = Concluded(w)
      PROVE  Sampled(Onward(w))
  <2> DEFINE v == [w EXCEPT !.got = Earliest(w.got, w.limit)]
             f == Finished(v, LogStatus(w, Earliest(w.got, w.limit)))
  <2>1. Earliest(w.got, w.limit) = w.got
    BY <1>1, <1>4, NothingCut
  <2>2. Onward(w) = f
    BY <1>6 DEF Concluded
  <2>3. /\ f.pc = "done" /\ f.got = w.got /\ f.before = w.before /\ f.limit = w.limit
    BY <2>1 DEF Finished, Works
  <2> HIDE DEF f
  <2>4. CASE w.total = 0
    <3>1. w.counted = {}
      <4>1. w.counted \subseteq Times /\ Cardinality(w.counted) = 0
        BY <2>4 DEF Sound, Works
      <4> QED
        BY <4>1, LinesFinite, FS_EmptySet
    <3>2. f.before = {}
      BY <2>3, <2>4, <3>1 DEF Served, Begun
    <3>3. \A i : CoversSlice(f, i)
      <4>1. ASSUME NEW S, NEW n PROVE Earliest(S \cap {}, n) = {} /\ Latest(S \cap {}, n) = {}
                                      /\ Earliest((S \cap {}) \cap Signals, n) = {}
        BY DEF Earliest, Latest
      <4> QED
        BY <3>2, <4>1 DEF CoversSlice
    <3> QED
      BY <2>2, <2>3, <3>3 DEF Sampled, Covers
  <2>5. CASE Ahead(w) = {}
    <3>1. \A k \in 1 .. End(w) : k # End(w) => Met(w, plan[k])
      BY <1>1, <1>2, <1>5, <2>5
    <3>2. End(f) = End(w)
      BY <2>3 DEF End
    <3>3. \A k \in 1 .. End(f) : k # End(f) => Met(f, Plan("loki", f.limit)[k])
      BY <2>3, <3>1, <3>2, MetKept
    <3>4. \A i \in 1 .. SliceCount(f.limit) : CoversSlice(f, i)
      BY <1>1, <2>3, <3>3, AllMetCovers
    <3> QED
      BY <2>2, <2>3, <3>4 DEF Sampled, Covers
  <2> QED
    BY <1>6, <2>4, <2>5
<1>7. ASSUME NEW k \in Ahead(w), \A m \in Ahead(w) : k <= m,
             Onward(w) = [w EXCEPT !.at = k, !.try = 1, !.pc = "request"]
      PROVE  Sampled(Onward(w))
  <2> DEFINE next == [w EXCEPT !.at = k, !.try = 1, !.pc = "request"]
  <2>1. /\ next.at = k /\ next.pc = "request" /\ next.got = w.got /\ next.before = w.before
        /\ next.limit = w.limit /\ next.total = w.total /\ next.counted = w.counted
    BY DEF Works
  <2> HIDE DEF next
  <2>2. k \in 1 .. End(w) /\ w.at < k
    <3>1. k \in w.at + 1 .. Len(plan)
      BY DEF Ahead
    <3> QED
      BY <1>1, <3>1
  <2>3. End(next) = End(w)
    BY <2>1 DEF End
  <2>4. Begun(next)
    BY <2>1, <2>2, <2>3 DEF Served, Begun
  <2>5. Cardinality(next.got) <= Asked(next.limit, next.at)
    BY <1>3, <2>1, <2>2
  <2>6. ASSUME NEW m \in 1 .. End(w), m < k PROVE Met(w, plan[m])
    <3>1. CASE m <= w.at
      BY <1>2, <3>1
    <3>2. CASE ~(m <= w.at)
      <4>1. m \notin Ahead(w) /\ m # End(w) /\ w.at < m
        BY <1>1, <1>7, <2>2, <2>6, <3>2
      <4> QED
        BY <1>5, <4>1
    <3> QED
      BY <3>1, <3>2
  <2>7. \A m \in 1 .. End(next) : m < next.at => Met(next, Plan("loki", next.limit)[m])
    BY <2>1, <2>3, <2>6, MetKept
  <2> QED
    BY <1>7, <2>1, <2>4, <2>5, <2>7 DEF Ready, Sampled, next
<1> QED
  BY <1>6, <1>7, OnwardGoes, Zenon

(* What an answer adds: no more lines than the request has room for.       *)
LEMMA AnswerBounded ==
    ASSUME NEW w \in Works, lines \subseteq Times, Ready(w), w.at # 1
    PROVE  LET query == Plan("loki", w.limit)[w.at]
               got == w.got \cup Fetched(w, query)
           IN  Cardinality(got) <= IF w.at < End(w) THEN Asked(w.limit, w.at + 1) ELSE w.limit
<1> DEFINE query == Plan("loki", w.limit)[w.at]
           fetched == Fetched(w, query)
           room == IF w.at < End(w) THEN query.quota ELSE Remaining(w)
           there == lines \cap Slice(query.slice, SliceCount(w.limit))
<1>1. /\ w.limit \in Nat \ {0} /\ w.at \in 1 .. End(w) /\ End(w) \in Nat
      /\ w.got \in SUBSET Times /\ Cardinality(w.got) \in Nat
      /\ Cardinality(w.got) <= Asked(w.limit, w.at)
  BY EndTyped, LinesFinite DEF Ready, Begun, Works
<1>2. /\ Asked(w.limit, w.at) \in Nat /\ Asked(w.limit, End(w)) = w.limit
      /\ w.at < End(w) => /\ query.quota \in Nat
                          /\ Asked(w.limit, w.at + 1) = Asked(w.limit, w.at) + query.quota
  <2>1. w.at < End(w) => w.at \in 1 .. End(w) - 1
    BY <1>1
  <2> QED
    BY <1>1, <2>1, AskedAddsUp DEF End
<1>3. there \in SUBSET Times /\ there \cap Signals \in SUBSET Times /\ lines \in SUBSET Times
  OBVIOUS
<1>4. /\ w.at < End(w) => query.kind \in {"forward", "backward", "signal"}
      /\ ~(w.at < End(w)) => query.kind = "top_up"
  BY <1>1, KindsOfLogs
<1>5. room \in Nat
  BY <1>1, <1>2 DEF Remaining
<1>6. fetched \in SUBSET Times /\ Cardinality(fetched) <= room
  <2>1. fetched \in SUBSET Times
    BY FetchedWithin
  <2>2. CASE w.at < End(w)
    <3>1. fetched \in {Earliest(there, query.quota), Latest(there, query.quota),
                       Earliest(there \cap Signals, query.quota)}
      <4> HIDE DEF query
      <4> QED
        BY <1>4, <2>2 DEF Fetched
    <3> HIDE DEF there, fetched
    <3> QED
      BY <1>2, <1>3, <2>1, <2>2, <3>1, EndsBounded
  <2>3. CASE ~(w.at < End(w))
    <3>1. fetched = Latest(lines, Remaining(w))
      <4> HIDE DEF query
      <4> QED
        BY <1>4, <2>3 DEF Fetched, TopUp
    <3> HIDE DEF fetched
    <3> QED
      BY <1>3, <1>5, <2>1, <2>3, <3>1, EndsBounded
  <2> QED
    BY <2>2, <2>3
<1> HIDE DEF fetched, room
<1>7. Cardinality(w.got \cup fetched) <= Cardinality(w.got) + room
  <2>1. /\ IsFiniteSet(w.got) /\ IsFiniteSet(fetched) /\ Cardinality(fetched) \in Nat
        /\ Cardinality(w.got \cap fetched) \in Nat
    <3>1. w.got \cap fetched \in SUBSET Times
      BY <1>1
    <3> QED
      BY <1>1, <1>6, <3>1, LinesFinite
  <2>2. Cardinality(w.got \cup fetched) =
           Cardinality(w.got) + Cardinality(fetched) - Cardinality(w.got \cap fetched)
    BY <2>1, FS_Union
  <2> QED
    BY <1>1, <1>5, <1>6, <2>1, <2>2
<1>8. Cardinality(w.got \cup fetched) \in Nat
  <2>1. w.got \cup fetched \in SUBSET Times
    BY <1>1, <1>6
  <2> QED
    BY <2>1, LinesFinite
<1>9. CASE w.at < End(w)
  BY <1>1, <1>2, <1>5, <1>7, <1>8, <1>9 DEF room, fetched
<1>10. CASE ~(w.at < End(w))
  BY <1>1, <1>5, <1>7, <1>8, <1>10 DEF room, fetched, Remaining
<1> QED
  BY <1>9, <1>10 DEF fetched

(* An answered request is met.                                             *)
LEMMA AnswerMeets ==
    ASSUME NEW w \in Works, lines \subseteq Times, Ready(w), NEW v,
           v.limit = w.limit, v.before = w.before,
           v.got = w.got \cup Fetched(w, Plan("loki", w.limit)[w.at])
    PROVE  Met(v, Plan("loki", w.limit)[w.at])
<1> DEFINE query == Plan("loki", w.limit)[w.at]
           n == SliceCount(w.limit)
           slice == Slice(query.slice, n)
           there == lines \cap slice
<1>1. /\ w.limit \in Nat \ {0} /\ w.at \in 1 .. End(w) /\ w.before \subseteq lines
      /\ End(w) \in Nat /\ End(w) >= 5
  BY EndTyped DEF Ready, Begun
<1>2. query.quota > 0 /\ w.at # End(w) => query.quota \in Nat \ {0}
  <2>1. w.at # End(w) => w.at \in 1 .. End(w) - 1
    BY <1>1
  <2>2. w.at # End(w) => query.quota \in Nat
    BY <1>1, <2>1, AskedAddsUp DEF End
  <2> QED
    BY <2>2
<1>3. query.kind = "top_up" <=> w.at = End(w)
  BY <1>1, KindsOfLogs
<1>4. /\ there \in SUBSET Times /\ there \cap Signals \in SUBSET Times
      /\ slice \cap w.before \subseteq there
      /\ (slice \cap w.before) \cap Signals \subseteq there \cap Signals
  BY <1>1
<1>5. /\ query.kind = "forward" => Earliest(there, query.quota) \subseteq v.got
      /\ query.kind = "backward" => Latest(there, query.quota) \subseteq v.got
      /\ query.kind = "signal" => Earliest(there \cap Signals, query.quota) \subseteq v.got
  <2>1. v.got = w.got \cup Fetched(w, query)
    OBVIOUS
  <2> HIDE DEF query
  <2> QED
    BY <2>1 DEF Fetched
<1> HIDE DEF query
<1>6. \A S, m : Earliest(S, m) \subseteq S /\ Latest(S, m) \subseteq S
  BY EndsWithin
<1>7. ASSUME query.quota > 0, query.kind = "forward"
      PROVE  \A t \in slice \cap w.before : \E u \in v.got \cap slice : u <= t
  <2>1. query.quota \in Nat \ {0}
    BY <1>2, <1>3, <1>7
  <2> SUFFICES ASSUME NEW t \in slice \cap w.before PROVE \E u \in v.got \cap slice : u <= t
    OBVIOUS
  <2>2. PICK u \in Earliest(there, query.quota) : u <= t
    BY <1>4, <2>1, EndsReach
  <2> QED
    BY <1>5, <1>6, <1>7, <2>2
<1>8. ASSUME query.quota > 0, query.kind = "backward"
      PROVE  \A t \in slice \cap w.before : \E u \in v.got \cap slice : u >= t
  <2>1. query.quota \in Nat \ {0}
    BY <1>2, <1>3, <1>8
  <2> SUFFICES ASSUME NEW t \in slice \cap w.before PROVE \E u \in v.got \cap slice : u >= t
    OBVIOUS
  <2>2. PICK u \in Latest(there, query.quota) : u >= t
    BY <1>4, <2>1, EndsReach
  <2> QED
    BY <1>5, <1>6, <1>8, <2>2
<1>9. ASSUME query.quota > 0, query.kind = "signal"
      PROVE  \A t \in (slice \cap w.before) \cap Signals :
                \E u \in (v.got \cap slice) \cap Signals : u <= t
  <2>1. query.quota \in Nat \ {0}
    BY <1>2, <1>3, <1>9
  <2> SUFFICES ASSUME NEW t \in (slice \cap w.before) \cap Signals
               PROVE  \E u \in (v.got \cap slice) \cap Signals : u <= t
    OBVIOUS
  <2>2. PICK u \in Earliest(there \cap Signals, query.quota) : u <= t
    BY <1>4, <2>1, EndsReach
  <2> QED
    BY <1>5, <1>6, <1>9, <2>2
<1> QED
  BY <1>7, <1>8, <1>9 DEF Met, query

(* An answer and a lost count leave the request served.                    *)
LEMMA CountServed ==
    ASSUME NEW w \in Works, NEW v, Ready(w), w.at = 1,
           v.limit = w.limit, v.at = w.at, v.before = w.before, v.got = w.got,
           v.total # -1 => v.before \subseteq v.counted
    PROVE  Served(v)
<1>1. /\ w.limit \in Nat \ {0} /\ End(w) \in Nat /\ End(w) >= 5 /\ End(v) = End(w)
      /\ w.before \subseteq lines
      /\ Cardinality(w.got) <= Asked(w.limit, 1)
  BY EndTyped DEF Ready, Begun, End
<1>2. Asked(w.limit, 1) = 0 /\ Asked(w.limit, 2) = 0
  BY <1>1, AskedAddsUp
<1>3. Begun(v)
  BY <1>1 DEF Begun
<1>4. Cardinality(v.got) <= IF v.at < End(v) THEN Asked(v.limit, v.at + 1) ELSE v.limit
  BY <1>1, <1>2
<1>5. ASSUME NEW k \in 1 .. End(v), k <= v.at PROVE Met(v, Plan("loki", v.limit)[k])
  <2>1. k = 1
    BY <1>5
  <2>2. Plan("loki", v.limit)[1].quota = 0
    BY <1>1, KindsOfLogs
  <2> QED
    BY <2>1, <2>2 DEF Met
<1> QED
  BY <1>3, <1>4, <1>5 DEF Served

LEMMA AnswerServed ==
    ASSUME NEW w \in Works, NEW v, lines \subseteq Times, Ready(w), w.at # 1,
           v.limit = w.limit, v.at = w.at, v.before = w.before,
           v.total = w.total, v.counted = w.counted,
           v.got = w.got \cup Fetched(w, Plan("loki", w.limit)[w.at])
    PROVE  Served(v)
<1>1. Begun(v) /\ End(v) = End(w) /\ w.limit \in Nat \ {0} /\ w.at \in 1 .. End(w)
      /\ End(w) \in Nat
  BY EndTyped DEF Ready, Begun, End
<1>2. Cardinality(v.got) <= IF v.at < End(v) THEN Asked(v.limit, v.at + 1) ELSE v.limit
  BY <1>1, AnswerBounded
<1>3. ASSUME NEW k \in 1 .. End(v), k <= v.at PROVE Met(v, Plan("loki", v.limit)[k])
  <2>1. CASE k = w.at
    BY <2>1, AnswerMeets
  <2>2. CASE k # w.at
    <3>1. k < w.at
      BY <1>1, <1>3, <2>2
    <3>2. Met(w, Plan("loki", w.limit)[k])
      BY <1>1, <3>1 DEF Ready
    <3> QED
      BY <3>2, MetKept
  <2> QED
    BY <2>1, <2>2
<1> QED
  BY <1>1, <1>2, <1>3 DEF Served

LEMMA AfterAnswerSampled ==
    ASSUME NEW c \in Collectors, work[c] \in Works, work[c].source \in Sources,
           lines \subseteq Times, Sound(work[c]),
           work[c].source = "loki" => Ready(work[c]), NEW deploys \in 0 .. 1
    PROVE  Sampled(AfterAnswer(work[c], Query(c), deploys))
<1> DEFINE w == work[c]
           query == Query(c)
<1>0. AfterAnswer(w, query, deploys).source = w.source
  BY AfterAnswerTyped
<1> SUFFICES ASSUME w.source = "loki" PROVE Sampled(AfterAnswer(w, query, deploys))
  BY <1>0 DEF Sampled
<1>1. query = Plan("loki", w.limit)[w.at] /\ Ready(w)
      /\ w.limit \in Nat \ {0} /\ w.at \in 1 .. End(w)
  BY DEF Query, Ready, Begun
<1>2. query.kind = "count" <=> w.at = 1
  BY <1>1, KindsOfLogs
<1> HIDE DEF w, query
<1>w. w \in Works /\ w.source = "loki" /\ Sound(w) /\ "loki" \in Sources
  BY DEF w
<1>3. CASE query.kind = "count"
  <2> DEFINE v == [w EXCEPT !.total = Cardinality(lines), !.counted = lines]
  <2>0. Cardinality(lines) \in Int
    BY LinesFinite
  <2>1. /\ v \in Works /\ v.source = w.source /\ v.at = w.at /\ v.got = w.got
        /\ v.counted = lines /\ v.total = Cardinality(lines) /\ v.lost = w.lost
        /\ v.limit = w.limit /\ v.before = w.before
    BY <1>w, <2>0 DEF Works
  <2> HIDE DEF v
  <2>2. AfterAnswer(w, query, deploys) = Onward(v)
    BY <1>3 DEF AfterAnswer, v
  <2>3. Sound(v)
    BY <1>w, <2>1 DEF Sound
  <2>4. v.before \subseteq v.counted
    BY <1>1, <2>1 DEF Ready, Begun
  <2>5. Served(v)
    BY <1>w, <1>1, <1>2, <1>3, <2>1, <2>4, CountServed
  <2> QED
    BY <1>w, <2>1, <2>2, <2>3, <2>5, ServedGoes
<1>4. CASE query.kind # "count"
  <2> DEFINE v == [w EXCEPT !.got = w.got \cup Fetched(w, query), !.deploys = deploys]
  <2>0. w.got \cup Fetched(w, query) \in SUBSET Times /\ Fetched(w, query) \subseteq lines
    BY <1>w, FetchedWithin DEF Works
  <2>1. /\ v \in Works /\ v.source = w.source /\ v.at = w.at
        /\ v.got = w.got \cup Fetched(w, query)
        /\ v.counted = w.counted /\ v.total = w.total /\ v.lost = w.lost
        /\ v.limit = w.limit /\ v.before = w.before
    BY <1>w, <2>0 DEF Works
  <2> HIDE DEF v
  <2>2. AfterAnswer(w, query, deploys) = Onward(v)
    BY <1>4 DEF AfterAnswer, v
  <2>3. Sound(v)
    BY <1>w, <2>0, <2>1 DEF Sound
  <2>5. Served(v)
    BY <1>w, <1>1, <1>2, <1>4, <2>1, AnswerServed
  <2> QED
    BY <1>w, <2>1, <2>2, <2>3, <2>5, ServedGoes
<1> QED
  BY <1>3, <1>4 DEF w, query

LEMMA AfterErrorSampled ==
    ASSUME NEW c \in Collectors, work[c] \in Works, work[c].source \in Sources,
           lines \subseteq Times, Sound(work[c]),
           work[c].source = "loki" => Ready(work[c]),
           NEW category \in Statuses \ {"ok", "partial", "empty"}
    PROVE  Sampled(AfterError(work[c], Query(c).kind, category))
<1> DEFINE w == work[c]
           query == Query(c)
<1>0. AfterError(w, query.kind, category).source = w.source
  BY AfterErrorTyped
<1> SUFFICES ASSUME w.source = "loki" PROVE Sampled(AfterError(w, query.kind, category))
  BY <1>0 DEF Sampled
<1>1. query = Plan("loki", w.limit)[w.at] /\ Ready(w)
      /\ w.limit \in Nat \ {0} /\ w.at \in 1 .. End(w)
  BY DEF Query, Ready, Begun
<1>2. query.kind = "count" <=> w.at = 1
  BY <1>1, KindsOfLogs
<1> HIDE DEF w, query
<1>w. w \in Works /\ w.source = "loki" /\ Sound(w) /\ "loki" \in Sources
  BY DEF w
<1>3. CASE query.kind = "count"
  <2> DEFINE v == [w EXCEPT !.total = -1]
  <2>1. /\ v \in Works /\ v.source = w.source /\ v.at = w.at /\ v.got = w.got
        /\ v.counted = w.counted /\ v.total = -1 /\ v.lost = w.lost
        /\ v.limit = w.limit /\ v.before = w.before
    BY <1>w DEF Works
  <2> HIDE DEF v
  <2>2. AfterError(w, query.kind, category) = Onward(v)
    BY <1>3 DEF AfterError, v
  <2>3. Sound(v)
    BY <1>w, <2>1 DEF Sound
  <2>5. Served(v)
    BY <1>w, <1>1, <1>2, <1>3, <2>1, CountServed
  <2> QED
    BY <1>w, <2>1, <2>2, <2>3, <2>5, ServedGoes
<1>4. CASE query.kind # "count"
  <2> DEFINE v == [w EXCEPT !.got = {}, !.lost = w.lost + 1]
  <2>0. w.lost + 1 \in Nat
    BY <1>w DEF Works
  <2>1. v \in Works
    BY <1>w, <2>0 DEF Works
  <2> HIDE DEF v
  <2>2. AfterError(w, query.kind, category) = Finished(v, category)
    BY <1>4, <1>w DEF AfterError, v
  <2>3. Finished(v, category).pc = "done" /\ Finished(v, category).status = category
    BY <2>1, FinishedTyped
  <2> QED
    BY <2>2, <2>3 DEF Sampled, Covers
<1> QED
  BY <1>3, <1>4 DEF w, query

LEMMA InitSamples == Init => SampleInv
BY DEF Init, SampleInv, Sampled, Resting

LEMMA SampleStep == Typed /\ GapsInv /\ SampleInv /\ [Next]_vars => SampleInv'
<1> SUFFICES ASSUME Typed, GapsInv, SampleInv, [Next]_vars PROVE SampleInv'
  OBVIOUS
<1>t. /\ work \in [Collectors -> Works] /\ lines \subseteq Times
      /\ \A c \in Collectors : work[c].pc # "rest" => work[c].source \in Sources
  BY DEF Typed, TypeOK
<1>s. \A c \in Collectors : Sampled(work[c])
  BY DEF SampleInv
<1>r. ASSUME NEW w, NEW v, v.limit = w.limit, v.at = w.at, v.before = w.before,
             v.got = w.got, v.total = w.total, v.counted = w.counted, Ready(w)
      PROVE  Ready(v)
  <2>1. \A query : Met(w, query) => Met(v, query)
    BY <1>r, MetKept
  <2>2. End(v) = End(w)
    BY <1>r DEF End
  <2> QED
    BY <1>r, <2>1, <2>2 DEF Ready, Begun
<1>g. ASSUME NEW c \in Collectors, NEW w, work' = [work EXCEPT ![c] = w],
             lines' = lines, Sampled(w)
      PROVE  SampleInv'
  <2>1. \A d \in Collectors : Sampled(work'[d])
    BY <1>t, <1>s, <1>g
  <2> QED
    BY <1>g, <2>1 DEF SampleInv, Sampled, Ready, Begun, Covers, CoversSlice, Met, End
<1>q. ASSUME NEW c \in Collectors, work[c].pc \in {"request", "send", "failing"}
      PROVE  /\ work[c] \in Works /\ work[c].source \in Sources /\ Sound(work[c])
             /\ work[c].source = "loki" => Ready(work[c])
  BY <1>q, <1>t, <1>s DEF GapsInv, Sampled
<1>1. ASSUME NEW c \in Collectors, Start(c) PROVE SampleInv'
  <2>1. PICK source \in Sources, limit \in Limits \cup {0} :
           /\ source = "loki" => limit \in Nat \ {0}
           /\ work' = [work EXCEPT ![c] =
                [Resting EXCEPT !.pc = "request", !.source = source, !.limit = limit,
                                !.before = lines]]
    <3>1. PICK source \in Sources : \E limit \in IF source = "loki" THEN Limits ELSE {0} :
             work' = [work EXCEPT ![c] =
                [Resting EXCEPT !.pc = "request", !.source = source, !.limit = limit,
                                !.before = lines]]
      BY <1>1, Zenon DEF Start
    <3>2. PICK limit \in IF source = "loki" THEN Limits ELSE {0} :
             work' = [work EXCEPT ![c] =
                [Resting EXCEPT !.pc = "request", !.source = source, !.limit = limit,
                                !.before = lines]]
      BY <3>1, Zenon
    <3>3. source = "loki" => limit \in Nat \ {0}
      BY CollectionAssumption DEF CollectionAssumption
    <3> QED
      BY <3>2, <3>3, Zenon
  <2> DEFINE w == [Resting EXCEPT !.pc = "request", !.source = source, !.limit = limit,
                                  !.before = lines]
  <2>2. /\ w.pc = "request" /\ w.source = source /\ w.limit = limit /\ w.before = lines
        /\ w.at = 1 /\ w.got = {} /\ w.total = -1
    BY DEF Resting
  <2> HIDE DEF w
  <2>3. source = "loki" => Ready(w)
    <3> SUFFICES ASSUME source = "loki" PROVE Ready(w)
      OBVIOUS
    <3>1. End(w) \in Nat /\ End(w) >= 5
      BY <2>1, <2>2, EndTyped
    <3>2. Begun(w)
      BY <2>1, <2>2, <3>1 DEF Begun
    <3>3. Asked(w.limit, 1) = 0 /\ Cardinality(w.got) = 0
      BY <2>1, <2>2, AskedAddsUp, FS_EmptySet
    <3> QED
      BY <2>2, <3>1, <3>2, <3>3 DEF Ready
  <2>4. Sampled(w)
    BY <2>2, <2>3 DEF Sampled
  <2>5. work' = [work EXCEPT ![c] = w]
    BY <2>1 DEF w
  <2> QED
    BY <1>1, <1>g, <2>4, <2>5 DEF Start
<1>2. ASSUME NEW c \in Collectors, CheckCircuit(c) PROVE SampleInv'
  <2>1. CASE Refused(c)
    <3>1. work' = [work EXCEPT ![c] = AfterError(work[c], Query(c).kind, "failed")]
      BY <1>2, <2>1 DEF CheckCircuit
    <3>2. Sampled(AfterError(work[c], Query(c).kind, "failed"))
      BY <1>2, <1>q, <1>t, AfterErrorSampled DEF CheckCircuit, Statuses
    <3> QED
      BY <1>2, <1>g, <3>1, <3>2 DEF CheckCircuit
  <2>2. CASE ~Refused(c)
    <3> DEFINE w == [work[c] EXCEPT !.pc = "send"]
    <3>1. work' = [work EXCEPT ![c] = w]
      BY <1>2, <2>2 DEF CheckCircuit
    <3>2. Sampled(w)
      <4>1. /\ work[c] \in Works
            /\ work[c].source = "loki" => Ready(work[c])
        BY <1>2, <1>q DEF CheckCircuit
      <4>2. /\ w.pc = "send" /\ w.source = work[c].source /\ w.limit = work[c].limit
            /\ w.at = work[c].at /\ w.before = work[c].before /\ w.got = work[c].got
            /\ w.total = work[c].total /\ w.counted = work[c].counted
        BY <4>1 DEF Works
      <4> HIDE DEF w
      <4>3. Ready(work[c]) => Ready(w)
        BY <1>r, <4>2
      <4> QED
        BY <4>1, <4>2, <4>3 DEF Sampled
    <3> HIDE DEF w
    <3> QED
      BY <1>2, <1>g, <3>1, <3>2 DEF CheckCircuit
  <2> QED
    BY <2>1, <2>2
<1>3. ASSUME NEW c \in Collectors, Answered(c) PROVE SampleInv'
  <2>1. PICK deploys \in 0 .. 1 :
           work' = [work EXCEPT ![c] = AfterAnswer(work[c], Query(c), deploys)]
    <3>1. 0 .. (IF work[c].source = "github" THEN 1 ELSE 0) \subseteq 0 .. 1
      OBVIOUS
    <3> QED
      BY <1>3, <3>1 DEF Answered
  <2>2. Sampled(AfterAnswer(work[c], Query(c), deploys))
    BY <1>3, <1>q, <1>t, AfterAnswerSampled DEF Answered
  <2> QED
    BY <1>3, <1>g, <2>1, <2>2 DEF Answered
<1>4. ASSUME NEW c \in Collectors, RefusedBySource(c) PROVE SampleInv'
  <2>1. PICK category \in Categories :
           work' = [work EXCEPT ![c] = AfterError(work[c], Query(c).kind, category)]
    BY <1>4 DEF RefusedBySource
  <2>2. category \in Statuses \ {"ok", "partial", "empty"}
    BY CollectionAssumption DEF CollectionAssumption, Statuses
  <2>3. Sampled(AfterError(work[c], Query(c).kind, category))
    BY <1>4, <1>q, <1>t, <2>2, AfterErrorSampled DEF RefusedBySource
  <2> QED
    BY <1>4, <1>g, <2>1, <2>3 DEF RefusedBySource
<1>5. ASSUME NEW c \in Collectors, AttemptFails(c) PROVE SampleInv'
  <2>1. PICK w : /\ work' = [work EXCEPT ![c] = w]
                 /\ w.pc \in {"send", "failing"} /\ w.source = work[c].source
                 /\ w.limit = work[c].limit /\ w.at = work[c].at
                 /\ w.before = work[c].before /\ w.got = work[c].got
                 /\ w.total = work[c].total /\ w.counted = work[c].counted
    <3> DEFINE u == [work[c] EXCEPT !.try = work[c].try + 1]
               v == [work[c] EXCEPT !.pc = "failing"]
    <3>1. work' = [work EXCEPT ![c] = u] \/ work' = [work EXCEPT ![c] = v]
      BY <1>5 DEF AttemptFails
    <3>2. work[c] \in Works /\ work[c].pc = "send"
      BY <1>5, <1>t DEF AttemptFails
    <3>3. /\ u.pc = "send" /\ u.source = work[c].source
          /\ u.limit = work[c].limit /\ u.at = work[c].at
          /\ u.before = work[c].before /\ u.got = work[c].got
          /\ u.total = work[c].total /\ u.counted = work[c].counted
      BY <3>2 DEF Works
    <3>4. /\ v.pc = "failing" /\ v.source = work[c].source
          /\ v.limit = work[c].limit /\ v.at = work[c].at
          /\ v.before = work[c].before /\ v.got = work[c].got
          /\ v.total = work[c].total /\ v.counted = work[c].counted
      BY <3>2 DEF Works
    <3> HIDE DEF u, v
    <3> QED
      BY <3>1, <3>3, <3>4
  <2>2. Sampled(w)
    BY <1>5, <1>q, <1>r, <2>1 DEF AttemptFails, Sampled
  <2> QED
    BY <1>5, <1>g, <2>1, <2>2 DEF AttemptFails
<1>6. ASSUME NEW c \in Collectors, CountFailure(c) PROVE SampleInv'
  <2>1. work' = [work EXCEPT ![c] = AfterError(work[c], Query(c).kind, "failed")]
    BY <1>6 DEF CountFailure
  <2>2. Sampled(AfterError(work[c], Query(c).kind, "failed"))
    BY <1>6, <1>q, <1>t, AfterErrorSampled DEF CountFailure, Statuses
  <2> QED
    BY <1>6, <1>g, <2>1, <2>2 DEF CountFailure
<1>7. ASSUME lines \subseteq lines', UNCHANGED work PROVE SampleInv'
  <2> SUFFICES ASSUME NEW c \in Collectors PROVE Sampled(work[c])'
    BY DEF SampleInv
  <2>1. Sampled(work[c]) /\ work'[c] = work[c]
    BY <1>7, <1>s
  <2>2. Begun(work[c]) => Begun(work[c])'
    BY <1>7, <2>1 DEF Begun, End
  <2>3. Ready(work[c]) => Ready(work[c])'
    <3>1. UNCHANGED work
      BY <1>7
    <3> QED
      BY <2>2, <3>1 DEF Ready, Met, End
  <2>4. Covers(work[c]) => Covers(work[c])'
    BY <1>7, <2>1 DEF Covers, CoversSlice
  <2> QED
    BY <2>1, <2>3, <2>4 DEF Sampled
<1>8. CASE LineArrives \/ UNCHANGED vars \/ \E s \in Sources : CircuitExpires(s)
  <2>1. lines \subseteq lines' /\ UNCHANGED work
    BY <1>8 DEF LineArrives, vars, CircuitExpires
  <2> QED
    BY <1>7, <2>1
<1> QED
  BY <1>1, <1>2, <1>3, <1>4, <1>5, <1>6, <1>8 DEF Next, Request

(* Whatever the window, the lines and the limit, a sample that is reported *)
(* reaches over the whole window: each time slice has a line from either   *)
(* end and a first signal, as far as its quota goes, and the final cut     *)
(* takes none of them away (RealLokiClient.query_logs).                    *)
THEOREM SamplesCover == Spec => []SampleCovers
<1>1. SampleInv => SampleCovers
  BY DEF SampleInv, Sampled, SampleCovers, Covers, Reports, Reporting
<1> QED
  BY <1>1, InitTyped, TypedStep, InitGaps, GapsStep, InitSamples, SampleStep, PTL DEF Spec
=============================================================================
