---------------------------- MODULE Investigation ----------------------------
(***************************************************************************)
(* The analysis graph of one incident thread (graph/workflow.py) from the  *)
(* assessment of its evidence to the postmortem draft: the bounded loop of *)
(* targeted queries (utils/investigation_loop.py, utils/tool_budget.py)    *)
(* and the budget of model calls (utils/model_usage.py,                    *)
(* clients/openai_client.py), in the default configuration: a model that   *)
(* may call tools.                                                         *)
(*                                                                         *)
(* A node works on a copy of the checkpointed channels and its result is   *)
(* checkpointed when it returns; a node that raises or whose process dies  *)
(* leaves the checkpoint before it, from which the next run starts over.   *)
(***************************************************************************)
EXTENDS Integers, FiniteSets

CONSTANTS
    Queries,                   \* tool calls, by their cache key
    Cost,                      \* remote units of each query
    Limits,                    \* remote units a run may be allotted
    Sizes,                     \* bytes of a compacted result
    MaxRounds, MaxTools, MaxBytes, CacheSize,
    MaxCalls, MaxTokens,       \* model calls and tokens of an incident
    Reserve,                   \* tokens reserved for one call
    Tries,                     \* attempts of one create_response
    MaxRuns, MaxReviews, MaxFaults   \* bounds, see README

ASSUME InvestigationAssumption ==
    /\ Cost \in [Queries -> Nat] /\ Limits \subseteq Nat
    /\ Sizes \subseteq Nat \ {0} /\ CacheSize \in Nat
    /\ MaxRounds \in Nat \ {0} /\ MaxTools \in Nat \ {0} /\ MaxBytes \in Nat
    /\ MaxCalls \in Nat /\ MaxTokens \in Nat
    /\ Reserve \in Nat \ {0} /\ Tries \in Nat \ {0}
    /\ MaxRuns \in Nat /\ MaxReviews \in Nat /\ MaxFaults \in Nat

VARIABLES
    at,          \* the node the checkpoint of the thread is before
    budget,      \* channel investigation_budget, with its expansion_loop
    ledger,      \* channel model_usage_ledger: calls, and tokens charged
    deadline,    \* channel analysis_deadline: "unset", "running" or "past"
    loopOver,    \* the loop is older than its max_elapsed_seconds
    pass,        \* the node at work: its ToolSession and its model call
    circuitOpen, \* _CIRCUIT of the process
    sent,        \* queries and units sent since the last allowance
    bill,        \* what the provider has counted, calls and tokens
    runsLeft, reviewsLeft, faults

(* sent and bill are history variables; what a lost run did that its       *)
(* checkpoint does not know is taken out of them again (Lost).             *)
channels == <<at, budget, ledger, deadline, loopOver>>
history == <<sent, bill>>
bounds == <<runsLeft, reviewsLeft, faults>>
vars == <<channels, pass, circuitOpen, history, bounds>>

-----------------------------------------------------------------------------
Smaller(a, b) == IF a < b THEN a ELSE b
Bigger(a, b) == IF a > b THEN a ELSE b

NoCalls == [calls |-> 0, tokens |-> 0]
Plus(a, b) == [calls |-> a.calls + b.calls, tokens |-> a.tokens + b.tokens]
NoBudget == [max |-> 0, used |-> 0, cache |-> {}, bytes |-> 0, round |-> 0,
             stopped |-> FALSE, fixed |-> FALSE]
(* fixed: mode "deterministic_explanation".                                *)

(* left: tool calls the pass may still make; asked: those the model has    *)
(* asked for; try: the attempt of the model call; fresh: some tool result  *)
(* holds records that are not among the incident's; usage: usage_entries.  *)
Resting == [pc |-> "rest", tools |-> FALSE, left |-> 0, asked |-> 0, try |-> 1,
            fresh |-> FALSE, budget |-> NoBudget, usage |-> NoCalls, bill |-> NoCalls]

At(node) == at = node /\ pass.pc = "rest"
AtWork(node, pc) == at = node /\ pass.pc = pc
Goes(node) == at' = node /\ pass' = Resting

-----------------------------------------------------------------------------
(* ingest_alert to build_evidence_pack.                                    *)

Startable == {"new", "human_review", "publish_review", "lost"}

(* A new alert, or the job of the last one again.  The deadline is the     *)
(* thread's first one.                                                     *)
StartRun ==
    /\ at \in Startable
    /\ runsLeft > 0 /\ runsLeft' = runsLeft - 1
    /\ Goes("context")
    /\ deadline' = IF deadline = "unset" THEN "running" ELSE deadline
    /\ UNCHANGED <<budget, ledger, loopOver, circuitOpen, history, reviewsLeft, faults>>

(* build_investigation_budget: a new limit, what is used stays used.       *)
Allotted(limit) == [budget EXCEPT !.max = limit, !.fixed = (limit = 0)]

BuildContext ==
    /\ At("context")
    /\ \E limit \in Limits :
          /\ budget' = Allotted(limit)
          /\ sent' = [sent EXCEPT !.granted = Bigger(sent.granted, limit)]
    /\ Goes("semantic_correlate")
    /\ UNCHANGED <<ledger, deadline, loopOver, circuitOpen, bill, bounds>>

-----------------------------------------------------------------------------
(* create_response.                                                        *)

Asking == pass.pc = "call"
Raised == {"raised", "exhausted"}   \* exhausted: by the model budget
HasDeadline == at \in {"semantic_correlate", "interpret_incident"}
Late == HasDeadline /\ deadline = "past"
CircuitRefuses == circuitOpen /\ pass.try = 1

(* authorize_model_call: the call could use all it reserves.               *)
Spent == Plus(ledger, pass.usage)
Authorized == Spent.calls < MaxCalls /\ Spent.tokens + Reserve <= MaxTokens

MayTry == Asking /\ ~Late /\ ~CircuitRefuses /\ Authorized

Called(charged, used) ==
    [pass EXCEPT !.usage = Plus(@, [calls |-> 1, tokens |-> charged]),
                 !.bill = Plus(@, [calls |-> 1, tokens |-> used])]

(* A failed call may have been served: it is charged what it reserved.     *)
FailureCharge == Reserve

TryAgain ==
    /\ MayTry /\ pass.try < Tries
    /\ \E used \in {0, Reserve} :
          pass' = [Called(FailureCharge, used) EXCEPT !.try = @ + 1]
    /\ UNCHANGED <<channels, circuitOpen, history, bounds>>

LastTryFails ==
    /\ MayTry /\ pass.try = Tries
    /\ \E used \in {0, Reserve} :
          pass' = [Called(FailureCharge, used) EXCEPT !.pc = "raised"]
    /\ circuitOpen' = TRUE
    /\ UNCHANGED <<channels, history, bounds>>

CallRefused ==
    /\ Asking
    /\ Late \/ CircuitRefuses \/ ~Authorized
    /\ pass' = [pass EXCEPT !.pc =
                   IF Late \/ CircuitRefuses THEN "raised" ELSE "exhausted"]
    /\ UNCHANGED <<channels, circuitOpen, history, bounds>>

(* The answer holds tool calls, of which the first ones are run, or a text.*)
(* It is charged what it cost, taken to be at most what was reserved: the  *)
(* reservation counts the bytes of the input and the output allowed, not   *)
(* the schemas of the tools.                                               *)
Answered ==
    /\ MayTry
    /\ \E tokens \in {1, Reserve}, asked \in 0..(IF pass.tools THEN pass.left ELSE 0) :
          pass' = [Called(tokens, tokens) EXCEPT !.try = 1, !.asked = asked,
                      !.pc = IF asked > 0 THEN "tools" ELSE "answered"]
    /\ circuitOpen' = FALSE
    /\ UNCHANGED <<channels, history, bounds>>

-----------------------------------------------------------------------------
(* ToolSession.run, on the session's copy of the budget.                   *)

Barred_NotWhenStopped == deadline = "past" \/ loopOver
Barred == deadline = "past" \/ loopOver
          \/ (pass.budget.stopped /\ pass.budget.round > 0)

(* After the calls it asked for the model is called again; when no call is *)
(* left, for a text.                                                       *)
ToolDone(p) ==
    [p EXCEPT !.left = @ - 1, !.asked = @ - 1,
              !.pc = IF p.asked = 1 THEN "call" ELSE "tools"]

(* Refused by the policy, the scope or a limit, or taken from the cache.   *)
(* Cached records may be new to the incident after a run that was lost or  *)
(* a pass that failed: any cached result may be (a choice).                *)
ToolAnsweredLocally ==
    /\ pass.pc = "tools"
    /\ \E fresh \in BOOLEAN :
          /\ fresh => ~Barred /\ pass.budget.cache # {}
          /\ pass' = [ToolDone(pass) EXCEPT !.fresh = @ \/ fresh]
    /\ UNCHANGED <<channels, circuitOpen, history, bounds>>

Affordable(q) == Cost[q] <= pass.budget.max - pass.budget.used

(* A result that is too large is paid for and dropped.                     *)
Charged(b, q, size) ==
    IF size > MaxBytes - b.bytes
    THEN [b EXCEPT !.used = @ + Cost[q], !.bytes = MaxBytes]
    ELSE [b EXCEPT !.used = @ + Cost[q], !.bytes = @ + size,
                   !.cache = IF Cardinality(@) < CacheSize THEN @ \cup {q} ELSE @]

ToolExecuted ==
    /\ pass.pc = "tools"
    /\ ~Barred
    /\ \E q \in Queries \ pass.budget.cache, size \in Sizes, fresh \in BOOLEAN :
          /\ Affordable(q)
          /\ fresh => size <= MaxBytes - pass.budget.bytes
          /\ pass' = [ToolDone(pass) EXCEPT
                         !.budget = Charged(pass.budget, q, size),
                         !.fresh = @ \/ fresh]
          /\ sent' = [sent EXCEPT !.units = @ + Cost[q], !.queries = @ + 1]
    /\ UNCHANGED <<channels, circuitOpen, bill, bounds>>

-----------------------------------------------------------------------------
(* The nodes.  What a node returns is checkpointed with its usage.         *)

Opened(tools, left) ==
    [Resting EXCEPT !.pc = "call", !.tools = tools, !.left = left, !.budget = budget]

Accounted == /\ ledger' = Plus(ledger, pass.usage)
             /\ bill' = Plus(bill, pass.bill)

(* semantic_correlate, and what integrate_targeted_evidence finds in its   *)
(* trace.                                                                  *)
StartCorrelation ==
    /\ At("semantic_correlate")
    /\ ~budget.fixed
    /\ pass' = Opened(TRUE, MaxTools)
    /\ UNCHANGED <<channels, circuitOpen, history, bounds>>

CorrelateWithoutModel ==
    /\ At("semantic_correlate")
    /\ budget.fixed
    /\ at' = "integrate" /\ UNCHANGED pass
    /\ UNCHANGED <<budget, ledger, deadline, loopOver, circuitOpen, history, bounds>>

CorrelationReported ==
    /\ AtWork("semantic_correlate", "answered")
    /\ at' = "integrate" /\ pass' = [Resting EXCEPT !.fresh = pass.fresh]
    /\ budget' = pass.budget
    /\ Accounted
    /\ UNCHANGED <<deadline, loopOver, circuitOpen, sent, bounds>>

(* Any exception, an unreadable report among them: the trace is dropped    *)
(* and the budget is the one before, but for the cache, which is shared.   *)
UsageKept_OfReports == ledger
UsageKept == Plus(ledger, pass.usage)
CorrelationFails ==
    /\ at = "semantic_correlate" /\ pass.pc \in Raised \cup {"answered"}
    /\ Goes("integrate")
    /\ budget' = [budget EXCEPT !.cache = pass.budget.cache]
    /\ ledger' = UsageKept /\ bill' = Plus(bill, pass.bill)
    /\ UNCHANGED <<deadline, loopOver, circuitOpen, sent, bounds>>

(* complete_round: the loop goes on only if nothing speaks against it.     *)
(* Rounds are counted up to MaxRounds: only that is compared.              *)
MoreAfter_NothingFound(recommended) ==
    recommended /\ ~loopOver /\ budget.round + 1 < MaxRounds
MoreAfter(recommended) ==
    /\ ~loopOver
    /\ budget.bytes < MaxBytes
    /\ recommended
    /\ budget.round + 1 < MaxRounds
    /\ budget.used < budget.max
    /\ pass.fresh

(* expansion_router.                                                       *)
NextNode_ByAssessment(more, recommended) ==
    IF recommended THEN "semantic_correlate" ELSE "interpret_incident"
NextNode(more, recommended) ==
    IF more THEN "semantic_correlate" ELSE "interpret_incident"

CompleteRound ==
    /\ At("integrate")
    /\ \E recommended \in BOOLEAN :
          LET more == MoreAfter(recommended)
          IN  /\ budget' = [budget EXCEPT !.round = Smaller(@ + 1, MaxRounds),
                                          !.stopped = ~more]
              /\ Goes(NextNode(more, recommended))
    /\ UNCHANGED <<ledger, deadline, loopOver, circuitOpen, history, bounds>>

(* interpret_incident.  With an abstention there is no model call.         *)
Abstain ==
    /\ At("interpret_incident")
    /\ Goes("human_review")
    /\ UNCHANGED <<budget, ledger, deadline, loopOver, circuitOpen, history, bounds>>

StartInterpretation ==
    /\ At("interpret_incident")
    /\ pass' = Opened(budget.used < budget.max,
                      IF budget.used < budget.max THEN MaxTools ELSE 0)
    /\ UNCHANGED <<channels, circuitOpen, history, bounds>>

(* A failed call with tools is followed by one without, unless the budget  *)
(* refused it or it was the last one, for the text.                        *)
InterpretWithoutTools ==
    /\ AtWork("interpret_incident", "raised")
    /\ pass.tools /\ pass.left > 0
    /\ pass' = [pass EXCEPT !.pc = "call", !.tools = FALSE, !.try = 1]
    /\ UNCHANGED <<channels, circuitOpen, history, bounds>>

InterpretationReported ==
    /\ AtWork("interpret_incident", "answered")
    /\ Goes("human_review")
    /\ budget' = pass.budget
    /\ Accounted
    /\ UNCHANGED <<deadline, loopOver, circuitOpen, sent, bounds>>

(* Degraded: the deterministic candidates are shown.                       *)
InterpretationDegraded ==
    /\ at = "interpret_incident" /\ pass.pc \in Raised
    /\ pass.tools /\ pass.left > 0 => pass.pc = "exhausted"
    /\ Goes("human_review")
    /\ Accounted
    /\ UNCHANGED <<budget, deadline, loopOver, circuitOpen, sent, bounds>>

-----------------------------------------------------------------------------
(* After a review.                                                         *)

Review(node) ==
    /\ At("human_review")
    /\ reviewsLeft > 0 /\ reviewsLeft' = reviewsLeft - 1
    /\ Goes(node)
    /\ UNCHANGED <<budget, ledger, deadline, loopOver, circuitOpen, history, runsLeft,
                   faults>>

(* reinvestigate_feedback: a fresh allowance of the same size.             *)
Reinvestigate ==
    /\ At("reinvestigate_feedback")
    /\ Goes("semantic_correlate")
    /\ budget' = [NoBudget EXCEPT !.max = budget.max, !.fixed = budget.fixed]
    /\ loopOver' = FALSE
    /\ sent' = [units |-> 0, queries |-> 0, granted |-> budget.max]
    /\ UNCHANGED <<ledger, deadline, circuitOpen, bill, bounds>>

(* deep_rca and draft_postmortem: one call each, and a stub without it.    *)
Writing == {"deep_rca", "draft_postmortem"}
StartWriting ==
    /\ at \in Writing /\ pass.pc = "rest"
    /\ pass' = Opened(FALSE, 0)
    /\ UNCHANGED <<channels, circuitOpen, history, bounds>>

Written ==
    /\ at \in Writing /\ pass.pc \in Raised \cup {"answered"}
    /\ Goes(IF at = "deep_rca" THEN "draft_postmortem" ELSE "publish_review")
    /\ Accounted
    /\ UNCHANGED <<budget, deadline, loopOver, circuitOpen, sent, bounds>>

-----------------------------------------------------------------------------
(* Time, other threads and losses.                                         *)

DeadlinePasses ==
    /\ deadline = "running" /\ deadline' = "past"
    /\ UNCHANGED <<at, budget, ledger, loopOver, pass, circuitOpen, history, bounds>>

LoopTimePasses ==
    /\ ~loopOver /\ at # "new" /\ loopOver' = TRUE
    /\ UNCHANGED <<at, budget, ledger, deadline, pass, circuitOpen, history, bounds>>

(* The circuit's time is over, or a call of another incident succeeded.    *)
CircuitCloses ==
    /\ circuitOpen /\ circuitOpen' = FALSE
    /\ UNCHANGED <<channels, pass, history, bounds>>

(* The process dies or a node raises.  What the checkpoint does not know   *)
(* is not counted any more: the bill of the node, and what was queried.    *)
Lost ==
    /\ at \notin Startable
    /\ faults < MaxFaults /\ faults' = faults + 1
    /\ Goes("lost")
    /\ sent' = [sent EXCEPT !.units = Smaller(@, budget.used),
                            !.queries = Smaller(@, MaxTools * budget.round)]
    /\ UNCHANGED <<budget, ledger, deadline, loopOver, circuitOpen, bill, runsLeft,
                   reviewsLeft>>

-----------------------------------------------------------------------------
Init ==
    /\ at = "new"
    /\ budget = NoBudget /\ ledger = NoCalls
    /\ deadline = "unset" /\ loopOver = FALSE
    /\ pass = Resting /\ circuitOpen = FALSE
    /\ sent = [units |-> 0, queries |-> 0, granted |-> 0] /\ bill = NoCalls
    /\ runsLeft = MaxRuns /\ reviewsLeft = MaxReviews /\ faults = 0

Call == TryAgain \/ LastTryFails \/ CallRefused \/ Answered
Tool == ToolAnsweredLocally \/ ToolExecuted
Node ==
    \/ BuildContext
    \/ StartCorrelation \/ CorrelateWithoutModel
    \/ CorrelationReported \/ CorrelationFails \/ CompleteRound
    \/ Abstain \/ StartInterpretation \/ InterpretWithoutTools
    \/ InterpretationReported \/ InterpretationDegraded
    \/ Reinvestigate \/ StartWriting \/ Written
Progress == Call \/ Tool \/ Node

Next ==
    \/ Progress
    \/ StartRun \/ Review("reinvestigate_feedback") \/ Review("deep_rca")
    \/ DeadlinePasses \/ LoopTimePasses \/ CircuitCloses
    \/ Lost

Spec == Init /\ [][Next]_vars

(* Node and model calls have timeouts: a run goes on until it rests.       *)
FairSpec == Spec /\ WF_vars(Progress)

-----------------------------------------------------------------------------
(* Properties.                                                             *)

Nodes == Startable \cup Writing \cup
         {"context", "semantic_correlate", "integrate", "interpret_incident",
          "reinvestigate_feedback"}
Usage == [calls: 0..MaxCalls, tokens: 0..MaxTokens]
Bill == [calls: Nat, tokens: Nat]
BudgetRow == [max: Limits \cup {0}, used: Nat, cache: SUBSET Queries,
              bytes: 0..MaxBytes, round: 0..MaxRounds, stopped: BOOLEAN,
              fixed: BOOLEAN]
PassRow == [pc: {"rest", "call", "tools", "answered", "raised", "exhausted"},
            tools: BOOLEAN,
            left: 0..MaxTools, asked: 0..MaxTools, try: 1..Tries, fresh: BOOLEAN,
            budget: BudgetRow, usage: Usage, bill: Bill]

(* Channels keep their ranges: retained bytes within their limit, and the  *)
(* charged calls and tokens of the ledger within theirs.                   *)
TypeOK ==
    /\ at \in Nodes
    /\ budget \in BudgetRow
    /\ ledger \in Usage
    /\ deadline \in {"unset", "running", "past"} /\ loopOver \in BOOLEAN
    /\ pass \in PassRow /\ circuitOpen \in BOOLEAN
    /\ sent \in [units: Nat, queries: Nat, granted: Limits \cup {0}]
    /\ bill \in Bill
    /\ runsLeft \in Nat /\ reviewsLeft \in Nat /\ faults \in 0..MaxFaults

(* Between two allowances of a reviewer no more units are sent out than    *)
(* the largest limit allotted, and no more queries than the rounds have    *)
(* tool calls, although a failed pass forgets what it spent and alerts     *)
(* build the budget anew.                                                  *)
AllowanceKept ==
    /\ sent.units <= sent.granted
    /\ sent.queries <= MaxTools * MaxRounds

(* What the provider counts stays within the incident's budget, whichever  *)
(* calls failed after they were served, and whichever nodes fell back; if  *)
(* no call costs more than its reservation (see Answered).                 *)
ModelBudgetKept ==
    /\ bill.calls + pass.bill.calls <= MaxCalls
    /\ bill.tokens + pass.bill.tokens <= MaxTokens

(* An investigation that stopped sends nothing more and stays stopped, new *)
(* alerts included, until a reviewer asks for it again.                    *)
StoppedUntilReviewed ==
    [][budget.stopped /\ at # "reinvestigate_feedback" =>
          budget'.stopped /\ sent'.queries <= sent.queries]_vars

(* Every run comes to rest before a reviewer, or is lost: the loop ends.   *)
RunEnds == at \notin Startable ~> at \in Startable
=============================================================================
