----------------------------- MODULE Collection -----------------------------
(***************************************************************************)
(* The collection of evidence: the nodes gather_logs, gather_metrics and   *)
(* gather_deploys with the Loki, Prometheus and GitHub clients, over the   *)
(* request helper with its retries and the circuit a process keeps per     *)
(* source (utils/resilience.py).                                           *)
(*                                                                         *)
(* Collectors are the threads of one process.  A source is queried by      *)
(* several of them at once: a job whose lease is lost is cancelled while   *)
(* the thread of its node runs on, and the worker claims the next job.     *)
(*                                                                         *)
(* A log line is its time, with at most one line at a time: lines that     *)
(* agree in time, text and labels are one line for the code as well.       *)
(***************************************************************************)
EXTENDS Integers, FiniteSets, SequencesExt

CONSTANTS
    Collectors,     \* threads of a process
    Sources,        \* which of "loki", "prometheus" and "github" are queried
    Window,         \* length of the incident window; its times are 0 .. Window-1
    Signals,        \* times at which a line matches HIGH_SIGNAL_PATTERN
    Contents,       \* the sets of lines a window may hold at first
    Limits,         \* log_fetch_limit of a collection plan
    Categories,     \* errors that are not transient: "forbidden" and others
    Tries,          \* retry_attempts of the source policy
    MetricNames,    \* number of DEFAULT_QUERIES
    MaxArrivals, MaxRuns   \* bounds, see README

ASSUME CollectionAssumption ==
    /\ Sources \subseteq {"loki", "prometheus", "github"}
    /\ Window \in Nat \ {0} /\ Signals \subseteq 0 .. Window - 1
    /\ Contents \subseteq SUBSET (0 .. Window - 1)
    /\ Categories \subseteq {"forbidden", "rate_limited", "invalid_query"}
    /\ Limits \subseteq Nat \ {0} /\ Tries \in Nat \ {0} /\ MetricNames \in Nat \ {0}
    /\ MaxArrivals \in Nat /\ MaxRuns \in Nat /\ IsFiniteSet(Collectors)

VARIABLES
    lines,      \* the log lines Loki holds of the window
    circuit,    \* _STATE of each source: failures counted, and whether it is open
    work,       \* what each collector is doing
    hammered,   \* attempts each collector sent to a source while its circuit was open
    arrivals, runs

vars == <<lines, circuit, work, hammered, arrivals, runs>>

-----------------------------------------------------------------------------
(* Loki answers a range query, start inclusive and end exclusive, with its *)
(* earliest (forward) or latest (backward) lines.                          *)
Times == 0 .. Window - 1
Earliest(S, n) == {t \in S : Cardinality({u \in S : u < t}) < n}
Latest(S, n) == {t \in S : Cardinality({u \in S : u > t}) < n}

-----------------------------------------------------------------------------
(* How query_logs divides its limit.                                       *)

GeneralBudget(limit) == IF (limit * 3) \div 4 > 1 THEN (limit * 3) \div 4 ELSE 1
SignalBudget(limit) == limit - GeneralBudget(limit)
SliceCount(limit) ==
    CHOOSE n \in 1 .. 4 :
       LET half == GeneralBudget(limit) \div 2
       IN n = IF half < 1 THEN 1 ELSE IF half > 4 THEN 4 ELSE half

Slice(i, count) == {t \in Times : (i - 1) * Window <= t * count /\ t * count < i * Window}
Quota(i, total, count) == (total \div count) + (IF i <= total % count THEN 1 ELSE 0)

(* One element per request; for the last its limit is what is left.        *)
Asking(kind, i, n) == [kind |-> kind, slice |-> i, quota |-> n]

(* Each slice from both its ends, then each slice for its signals.         *)
Sampling(limit) ==
    LET n == SliceCount(limit)
        quota(i) == Quota(i, GeneralBudget(limit), n)
        half(i) == (quota(i) + 1) \div 2
        signal(i) == Asking("signal", i, Quota(i, SignalBudget(limit), n))
    IN  [k \in 1 .. 3 * n |->
           IF k > 2 * n THEN signal(k - 2 * n)
           ELSE IF k % 2 = 1 THEN Asking("forward", (k + 1) \div 2, half((k + 1) \div 2))
           ELSE Asking("backward", k \div 2, quota(k \div 2) - half(k \div 2))]

Plan(source, limit) ==
    CASE source = "loki" ->
           <<Asking("count", 0, 0)>> \o Sampling(limit) \o <<Asking("top_up", 0, limit)>>
      [] source = "prometheus" -> [i \in 1 .. MetricNames |-> Asking("metric", i, 0)]
      [] source = "github" -> <<Asking("deploys", 0, 0)>>

-----------------------------------------------------------------------------
(* A collection.  got: lines sampled; total: of get_log_stats, -1 for      *)
(* None; lost: requests of the plan, but the count, that raised; before    *)
(* and counted: the lines there were at its start and at its count.        *)
Resting == [pc |-> "rest", source |-> "none", limit |-> 0, at |-> 1, try |-> 1,
            got |-> {}, total |-> -1, deploys |-> 0, lost |-> 0,
            before |-> {}, counted |-> {}, status |-> "none"]
NoState == [failures |-> 0, open |-> FALSE]

Query(c) == Plan(work[c].source, work[c].limit)[work[c].at]
Remaining(w) == w.limit - Cardinality(w.got)

(* A request whose limit is 0 is not sent.                                 *)
Sent(w, query) ==
    CASE query.kind \in {"forward", "backward", "signal"} -> query.quota > 0
      [] query.kind = "top_up" -> Remaining(w) > 0
      [] OTHER -> TRUE

Finished(w, status) == [w EXCEPT !.pc = "done", !.status = status, !.at = 1, !.try = 1]

-----------------------------------------------------------------------------
(* What a node reports.                                                    *)

(* gather_logs: possibly_truncated of the log_query.                       *)
Truncated_AtTheLimit(w, fetched) == Cardinality(fetched) >= w.limit
Truncated(w, fetched) ==
    \/ w.total # -1 /\ w.total > Cardinality(fetched)
    \/ w.total = -1 /\ Cardinality(fetched) >= w.limit

(* stats.get("total_count", fetched) is None when the count failed.        *)
StatusForCount(count) == IF count > 0 THEN "ok" ELSE "empty"
LogStatus(w, fetched) ==
    IF Truncated(w, fetched) THEN "partial" ELSE StatusForCount(w.total)

(* A metric that was lost is a record with an error; one that was not      *)
(* counts as returned, with samples or without.                            *)
MetricStatus(lost) ==
    IF lost = 0 THEN StatusForCount(MetricNames)
    ELSE IF lost < MetricNames THEN "partial" ELSE "failed"

(* The plan is done: query_logs cuts what it has to the earliest lines.    *)
Concluded(w) ==
    CASE w.source = "loki" ->
           LET fetched == Earliest(w.got, w.limit)
           IN  Finished([w EXCEPT !.got = fetched], LogStatus(w, fetched))
      [] w.source = "prometheus" -> Finished(w, MetricStatus(w.lost))
      [] w.source = "github" -> Finished(w, StatusForCount(w.deploys))

(* The next request that is sent, if any: none after a count of zero.      *)
Ahead(w) ==
    LET plan == Plan(w.source, w.limit)
    IN  {k \in w.at + 1 .. Len(plan) : Sent(w, plan[k])}
Onward(w) ==
    LET nothing == w.source = "loki" /\ w.total = 0
    IN  IF Ahead(w) = {} \/ nothing THEN Concluded(w)
        ELSE [w EXCEPT !.at = Min(Ahead(w)), !.try = 1, !.pc = "request"]

(* A request raised: the count is swallowed by get_log_stats, a metric     *)
(* becomes an error record; anything else ends the node with its category. *)
AfterError(w, kind, category) ==
    IF kind = "count" THEN Onward([w EXCEPT !.total = -1])
    ELSE IF w.source = "prometheus" THEN Onward([w EXCEPT !.lost = w.lost + 1])
    ELSE Finished([w EXCEPT !.got = {}, !.lost = w.lost + 1], category)

-----------------------------------------------------------------------------
(* What an answer brings.                                                  *)

(* The last request asks for what is missing to the limit.                 *)
TopUp_Whole(w) == Latest(lines, w.limit)
TopUp(w) == Latest(lines, Remaining(w))

Fetched(w, query) ==
    LET there == lines \cap Slice(query.slice, SliceCount(w.limit))
    IN  CASE query.kind = "forward" -> Earliest(there, query.quota)
          [] query.kind = "backward" -> Latest(there, query.quota)
          [] query.kind = "signal" -> Earliest(there \cap Signals, query.quota)
          [] query.kind = "top_up" -> TopUp(w)
          [] OTHER -> {}

(* For GitHub, whether any deployment lies within the lookback.            *)
AfterAnswer(w, query, deploys) ==
    IF query.kind = "count"
    THEN Onward([w EXCEPT !.total = Cardinality(lines), !.counted = lines])
    ELSE Onward([w EXCEPT !.got = w.got \cup Fetched(w, query), !.deploys = deploys])

-----------------------------------------------------------------------------
(* A node starts: its collector is free.                                   *)
Start(c) ==
    /\ work[c].pc \in {"rest", "done"} /\ runs < MaxRuns
    /\ \E source \in Sources : \E limit \in IF source = "loki" THEN Limits ELSE {0} :
          work' = [work EXCEPT ![c] =
             [Resting EXCEPT !.pc = "request", !.source = source, !.limit = limit,
                             !.before = lines]]
    /\ runs' = runs + 1
    /\ UNCHANGED <<lines, circuit, hammered, arrivals>>

(* request(): the circuit is looked at once, under the lock.               *)
Refused_BetweenPlans(c) == circuit[work[c].source].open /\ work[c].at = 1
Refused(c) == circuit[work[c].source].open

CheckCircuit(c) ==
    /\ work[c].pc = "request"
    /\ work' = [work EXCEPT ![c] =
          IF Refused(c) THEN AfterError(work[c], Query(c).kind, "failed")
          ELSE [work[c] EXCEPT !.pc = "send"]]
    /\ UNCHANGED <<lines, circuit, hammered, arrivals, runs>>

(* One httpx.request: the attempt, and what comes of it.                   *)
Attempted(c) ==
    LET source == work[c].source
    IN  hammered' = IF circuit[source].open
                    THEN [hammered EXCEPT ![source][c] = hammered[source][c] + 1]
                    ELSE hammered
Calm == [c \in Collectors |-> 0]

Answered(c) ==
    /\ work[c].pc = "send"
    /\ \E deploys \in 0 .. (IF work[c].source = "github" THEN 1 ELSE 0) :
          work' = [work EXCEPT ![c] = AfterAnswer(work[c], Query(c), deploys)]
    /\ circuit' = [circuit EXCEPT ![work[c].source] = NoState]
    /\ hammered' = [hammered EXCEPT ![work[c].source] = Calm]
    /\ UNCHANGED <<lines, arrivals, runs>>

(* Authentication, validation and rate limits are not retried or counted.  *)
RefusedBySource(c) ==
    /\ work[c].pc = "send"
    /\ \E category \in Categories :
          work' = [work EXCEPT ![c] = AfterError(work[c], Query(c).kind, category)]
    /\ Attempted(c)
    /\ UNCHANGED <<lines, circuit, arrivals, runs>>

AttemptFails(c) ==
    /\ work[c].pc = "send"
    /\ work' = [work EXCEPT ![c] =
          IF work[c].try < Tries THEN [work[c] EXCEPT !.try = work[c].try + 1]
          ELSE [work[c] EXCEPT !.pc = "failing"]]
    /\ Attempted(c)
    /\ UNCHANGED <<lines, circuit, arrivals, runs>>

(* The lock is taken again to count the failure; the third opens.          *)
CountFailure(c) ==
    LET source == work[c].source
        failures == circuit[source].failures + 1
    IN  /\ work[c].pc = "failing"
        /\ circuit' = [circuit EXCEPT ![source] =
              [failures |-> failures, open |-> failures >= 3]]
        /\ work' = [work EXCEPT ![c] = AfterError(work[c], Query(c).kind, "failed")]
        /\ UNCHANGED <<lines, hammered, arrivals, runs>>

(* circuit_open_seconds pass; the failures stay counted.                   *)
CircuitExpires(source) ==
    /\ circuit[source].open
    /\ circuit' = [circuit EXCEPT ![source].open = FALSE]
    /\ hammered' = [hammered EXCEPT ![source] = Calm]
    /\ UNCHANGED <<lines, work, arrivals, runs>>

(* A line of the window reaches Loki late.                                 *)
LineArrives ==
    /\ arrivals < MaxArrivals /\ arrivals' = arrivals + 1
    /\ \E t \in Times \ lines : lines' = lines \cup {t}
    /\ UNCHANGED <<circuit, work, hammered, runs>>

Init ==
    /\ lines \in Contents
    /\ circuit = [s \in Sources |-> NoState]
    /\ work = [c \in Collectors |-> Resting]
    /\ hammered = [s \in Sources |-> Calm]
    /\ arrivals = 0 /\ runs = 0

Request(c) ==
    \/ CheckCircuit(c)
    \/ Answered(c)
    \/ RefusedBySource(c)
    \/ AttemptFails(c)
    \/ CountFailure(c)

Next ==
    \/ \E c \in Collectors : Start(c) \/ Request(c)
    \/ \E s \in Sources : CircuitExpires(s)
    \/ LineArrives

Spec == Init /\ [][Next]_vars

-----------------------------------------------------------------------------
(* Properties.                                                             *)

Statuses == {"none", "ok", "partial", "empty", "failed"} \cup Categories
Works ==
    [pc : {"rest", "request", "send", "failing", "done"}, source : Sources \cup {"none"},
     limit : Nat, at : Nat \ {0}, try : 1 .. Tries, got : SUBSET Times, total : Int,
     deploys : 0 .. 1, lost : Nat, before : SUBSET Times, counted : SUBSET Times,
     status : Statuses]

TypeOK ==
    /\ lines \subseteq Times
    /\ circuit \in [Sources -> [failures : Nat, open : BOOLEAN]]
    /\ hammered \in [Sources -> [Collectors -> Nat]]
    /\ work \in [Collectors -> Works]
    /\ arrivals \in 0 .. MaxArrivals /\ runs \in 0 .. MaxRuns

Reporting(c) == work[c].pc = "done"
Reports(c, statuses) == Reporting(c) /\ work[c].status \in statuses
Extremes(S) == Earliest(S, 1) \cup Latest(S, 1)

(* A sample reaches over the whole window: of every time slice that held   *)
(* lines when the collection began it has one from each end, as far as the *)
(* slice's quota goes, and the slice's first signal where signals have a   *)
(* quota.  The union of the requests stays within the limit, so the final  *)
(* cut to the earliest lines drops nothing (loki_client.query_logs).       *)
CoversSlice(w, i) ==
    LET n == SliceCount(w.limit)
        early == Slice(i, n) \cap w.before
        quota == Quota(i, GeneralBudget(w.limit), n)
        signals == early \cap Signals
    IN  /\ \A t \in Earliest(early, 1) : \E u \in w.got \cap Slice(i, n) : u <= t
        /\ quota > 1 =>
              \A t \in Latest(early, 1) : \E u \in w.got \cap Slice(i, n) : u >= t
        /\ Quota(i, SignalBudget(w.limit), n) > 0 =>
              \A t \in Earliest(signals, 1) :
                 \E u \in w.got \cap Slice(i, n) \cap Signals : u <= t
SampleCovers ==
    \A c \in Collectors :
       (work[c].source = "loki" /\ Reports(c, {"ok", "partial", "empty"})) =>
          \A i \in 1 .. SliceCount(work[c].limit) : CoversSlice(work[c], i)

(* What a source did not give is visible in its status: after a lost       *)
(* request the status is neither ok nor empty, and logs that are ok with   *)
(* their count known are all the lines there were at the count, unless     *)
(* more have come since (gather_logs, gather_metrics, gather_deploys;      *)
(* docs/contracts/CONNECTOR_CONTRACT.md).  The count itself is excepted:   *)
(* its loss shows in count_is_exact only.                                  *)
GapsShown ==
    \A c \in Collectors :
       Reports(c, {"ok", "empty"}) =>
          /\ work[c].lost = 0
          /\ (work[c].total # -1 /\ lines = work[c].counted) => work[c].got = lines

(* An open circuit ends the traffic, although it is looked at before a     *)
(* request and not before its attempts: from the opening to the expiry a   *)
(* thread sends a source no more than the tries of the one request that    *)
(* was past the check, and a thread that has sent so much is not on the    *)
(* way to send more (utils/resilience.py).                                 *)
Sending(c, s) == work[c].pc = "send" /\ work[c].source = s
OutageNotHammered ==
    \A s \in Sources, c \in Collectors :
       circuit[s].open =>
          /\ hammered[s][c] <= Tries
          /\ Sending(c, s) => hammered[s][c] < work[c].try
=============================================================================
