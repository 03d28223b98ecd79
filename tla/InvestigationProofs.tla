------------------------- MODULE InvestigationProofs -------------------------
(***************************************************************************)
(* What holds of Investigation for any limits, queries, rounds, calls and  *)
(* tokens, and for any number of runs, reviews and losses.                 *)
(***************************************************************************)
EXTENDS Investigation, TLAPS

-----------------------------------------------------------------------------
(* The inductive invariant.                                                *)

Tooled == {"semantic_correlate", "interpret_incident"}
Closed == {"interpret_incident", "human_review", "publish_review"} \cup Writing
Open == ~budget.stopped
Working == pass.pc # "rest"

(* Which node a pass belongs to, and what it may still ask.                *)
PassInv ==
    /\ Working => at \in Tooled \cup Writing
    /\ pass.tools => Working /\ at \in Tooled
    /\ ~Working => pass.usage = NoCalls /\ pass.bill = NoCalls
    /\ pass.pc = "tools" => pass.tools /\ pass.asked > 0
    /\ pass.asked <= pass.left
    /\ Working => /\ pass.budget.max = budget.max
                  /\ pass.budget.round = budget.round
                  /\ pass.budget.stopped = budget.stopped

(* A stopped loop has done a round, an open one has rounds left; after the *)
(* loop everything is stopped, and a stopped loop finds nothing.           *)
LoopInv ==
    /\ budget.max <= sent.granted
    /\ budget.stopped => budget.round > 0 /\ ~pass.fresh
    /\ Open => budget.round < MaxRounds
    /\ at \in Closed => budget.stopped

(* What was sent is charged in an open loop, unless its pass failed, and   *)
(* then the pass has found nothing for the loop to go on with.             *)
UnitInv ==
    /\ sent.units <= sent.granted
    /\ Open /\ ~Working /\ at # "integrate" => sent.units <= budget.used
    /\ Open /\ Working => sent.units <= pass.budget.used
    /\ Open /\ at = "integrate" /\ pass.fresh => sent.units <= budget.used

(* An open loop has sent at most what its rounds and the pass allow.       *)
Cap(r) == MaxTools * r
QueryInv ==
    /\ sent.queries <= Cap(MaxRounds)
    /\ Open /\ ~Working /\ at # "integrate" => sent.queries <= Cap(budget.round)
    /\ Open /\ Working => sent.queries + pass.left <= Cap(budget.round + 1)
    /\ Open /\ at = "integrate" => sent.queries <= Cap(budget.round + 1)

(* The bill stays below what is charged, that below the limits.            *)
LedgerInv ==
    /\ bill.calls <= ledger.calls /\ bill.tokens <= ledger.tokens
    /\ pass.bill.calls <= pass.usage.calls /\ pass.bill.tokens <= pass.usage.tokens
    /\ ledger.calls + pass.usage.calls <= MaxCalls
    /\ ledger.tokens + pass.usage.tokens <= MaxTokens

IInv == TypeOK /\ PassInv /\ LoopInv /\ UnitInv /\ QueryInv /\ LedgerInv

-----------------------------------------------------------------------------
LEMMA Constants ==
  /\ Cost \in [Queries -> Nat] /\ Limits \subseteq Nat
  /\ Sizes \subseteq Nat \ {0}
  /\ MaxRounds \in Nat \ {0} /\ MaxTools \in Nat \ {0} /\ MaxBytes \in Nat
  /\ MaxCalls \in Nat /\ MaxTokens \in Nat /\ MaxFaults \in Nat
  /\ Reserve \in Nat \ {0} /\ Tries \in Nat \ {0}
  /\ \A l \in Limits \cup {0} : l \in Nat
  /\ \A size \in Sizes : size \in Nat
  /\ \A q \in Queries : Cost[q] \in Nat
  BY InvestigationAssumption

LEMMA CapGrows ==
  /\ Cap(0) = 0
  /\ \A r \in Nat : Cap(r) \in Nat /\ Cap(r + 1) = Cap(r) + MaxTools
  /\ \A r, s \in Nat : r <= s => Cap(r) <= Cap(s)
<1>1. MaxTools \in Nat
  BY Constants
<1> QED
  BY <1>1, SMT DEF Cap

-----------------------------------------------------------------------------
LEMMA RestTypes ==
  /\ Resting \in PassRow /\ NoBudget \in BudgetRow
  /\ NoCalls \in Usage /\ NoCalls \in Bill
  BY Constants DEF Resting, NoBudget, NoCalls, PassRow, BudgetRow, Usage, Bill

LEMMA ToolDoneType ==
  ASSUME NEW p \in PassRow, p.left \in 1..MaxTools, p.asked \in 1..MaxTools
  PROVE  ToolDone(p) \in PassRow
<1>1. p.left - 1 \in 0..MaxTools /\ p.asked - 1 \in 0..MaxTools
  BY Constants
<1> QED
  BY <1>1 DEF ToolDone, PassRow

LEMMA ChargedType ==
  ASSUME NEW b \in BudgetRow, NEW q \in Queries, NEW size \in Sizes
  PROVE  Charged(b, q, size) \in BudgetRow
<1>1. /\ b.used \in Nat /\ b.bytes \in 0..MaxBytes /\ b.cache \in SUBSET Queries
      /\ size \in Nat /\ Cost[q] \in Nat /\ MaxBytes \in Nat
  BY Constants DEF BudgetRow
<1>2. b.used + Cost[q] \in Nat /\ MaxBytes \in 0..MaxBytes
  BY <1>1
<1>3. CASE size > MaxBytes - b.bytes
  BY <1>2, <1>3 DEF Charged, BudgetRow
<1>4. CASE ~(size > MaxBytes - b.bytes)
  <2>1. b.bytes + size \in 0..MaxBytes
    BY <1>1, <1>4
  <2>2. (IF Cardinality(b.cache) < CacheSize THEN b.cache \cup {q} ELSE b.cache)
           \in SUBSET Queries
    BY <1>1
  <2> QED
    BY <1>2, <1>4, <2>1, <2>2 DEF Charged, BudgetRow
<1> QED
  BY <1>3, <1>4

LEMMA AnsweredType ==
  ASSUME NEW p \in PassRow, NEW asked \in 0..MaxTools
  PROVE  [p EXCEPT !.try = 1, !.asked = asked,
                   !.pc = IF asked > 0 THEN "tools" ELSE "answered"] \in PassRow
<1>1. 1 \in 1..Tries
  BY Constants
<1> DEFINE pc == IF asked > 0 THEN "tools" ELSE "answered"
<1>3. pc \in {"rest", "call", "tools", "answered", "raised", "exhausted"}
  OBVIOUS
<1> HIDE DEF pc
<1>4. [p EXCEPT !.try = 1, !.asked = asked, !.pc = pc] \in PassRow
  BY <1>1, <1>3 DEF PassRow
<1> QED
  BY <1>4 DEF pc

LEMMA TypeInit == Init => TypeOK
<1> SUFFICES ASSUME Init PROVE TypeOK
  OBVIOUS
<1>1. sent \in [units: Nat, queries: Nat, granted: Limits \cup {0}]
  BY DEF Init
<1>2. /\ budget \in BudgetRow /\ ledger \in Usage /\ pass \in PassRow /\ bill \in Bill
  BY RestTypes DEF Init
<1>3. runsLeft \in Nat /\ reviewsLeft \in Nat /\ faults \in 0..MaxFaults
  BY InvestigationAssumption DEF Init
<1> QED
  BY <1>1, <1>2, <1>3 DEF Init, TypeOK, Nodes, Startable

LEMMA TypeStep == TypeOK /\ PassInv /\ LedgerInv /\ [Next]_vars => TypeOK'
<1> SUFFICES ASSUME TypeOK, PassInv, LedgerInv, [Next]_vars PROVE TypeOK'
  OBVIOUS
<1> USE Constants
<1> USE DEF TypeOK, Nodes, Startable, Writing
<1>r. Resting \in PassRow /\ NoBudget \in BudgetRow
  BY RestTypes
<1>1. CASE UNCHANGED vars
  BY <1>1 DEF vars, channels, history, bounds
<1>2. CASE StartRun
  BY <1>2, <1>r DEF StartRun, Goes, history
<1>3. CASE BuildContext
  <2>1. PICK limit \in Limits :
           /\ budget' = [budget EXCEPT !.max = limit, !.fixed = (limit = 0)]
           /\ sent' = [sent EXCEPT !.granted = Bigger(sent.granted, limit)]
    BY <1>3 DEF BuildContext, Allotted
  <2>2. budget' \in BudgetRow
    BY <2>1 DEF BudgetRow
  <2>3. sent' \in [units: Nat, queries: Nat, granted: Limits \cup {0}]
    BY <2>1 DEF Bigger
  <2> QED
    BY <1>3, <1>r, <2>2, <2>3 DEF BuildContext, Goes, bounds
<1>4. CASE TryAgain \/ LastTryFails \/ CallRefused \/ Answered
  <2>1. pass.usage \in Usage /\ pass.bill \in Bill /\ ledger \in Usage
    BY DEF PassRow
  <2>2. ASSUME MayTry, NEW c \in 0..Reserve, NEW u \in 0..Reserve
        PROVE  Called(c, u) \in PassRow
    <3>1. Plus(pass.usage, [calls |-> 1, tokens |-> c]) \in Usage
      BY <2>1, <2>2 DEF MayTry, Authorized, Spent, Plus, Usage
    <3>2. Plus(pass.bill, [calls |-> 1, tokens |-> u]) \in Bill
      BY <2>1 DEF Plus, Bill
    <3> QED
      BY <3>1, <3>2 DEF Called, PassRow
  <2>3. pass' \in PassRow
    <3>1. CASE TryAgain
      <4>1. PICK used \in {0, Reserve} :
               pass' = [Called(Reserve, used) EXCEPT !.try = @ + 1]
        BY <3>1 DEF TryAgain, FailureCharge
      <4>2. Called(Reserve, used) \in PassRow
        BY <2>2, <3>1 DEF TryAgain
      <4>3. Called(Reserve, used).try = pass.try
        BY DEF Called, PassRow
      <4>4. pass.try + 1 \in 1..Tries
        BY <3>1 DEF TryAgain, PassRow
      <4> QED
        BY <4>1, <4>2, <4>3, <4>4 DEF PassRow
    <3>2. CASE LastTryFails
      <4>1. PICK used \in {0, Reserve} :
               pass' = [Called(Reserve, used) EXCEPT !.pc = "raised"]
        BY <3>2 DEF LastTryFails, FailureCharge
      <4>2. Called(Reserve, used) \in PassRow
        BY <2>2, <3>2 DEF LastTryFails
      <4> QED
        BY <4>1, <4>2 DEF PassRow
    <3>3. CASE CallRefused
      BY <3>3 DEF CallRefused, PassRow
    <3>4. CASE Answered
      <4>1. PICK tokens \in {1, Reserve}, asked \in 0..(IF pass.tools THEN pass.left ELSE 0) :
               pass' = [Called(tokens, tokens) EXCEPT !.try = 1, !.asked = asked,
                           !.pc = IF asked > 0 THEN "tools" ELSE "answered"]
        BY <3>4 DEF Answered
      <4>2. MayTry /\ tokens \in 0..Reserve
        BY <3>4 DEF Answered
      <4>3. Called(tokens, tokens) \in PassRow
        BY <2>2, <4>2
      <4>4. pass.left \in 0..MaxTools
        BY DEF PassRow
      <4>5. asked \in 0..MaxTools
        BY <4>4
      <4> QED
        BY <4>1, <4>3, <4>5, AnsweredType
    <3> QED
      BY <1>4, <3>1, <3>2, <3>3, <3>4
  <2> QED
    BY <1>4, <2>3 DEF TryAgain, LastTryFails, CallRefused, Answered, channels, history, bounds
<1>5. CASE Tool
  <2>0. pass.pc = "tools" /\ pass.left \in 1..MaxTools /\ pass.asked \in 1..MaxTools
    <3>1. pass.pc = "tools"
      BY <1>5 DEF Tool, ToolAnsweredLocally, ToolExecuted
    <3>2. pass.left \in 0..MaxTools /\ pass.asked \in 0..MaxTools
      BY DEF PassRow
    <3> QED
      BY <3>1, <3>2 DEF PassInv
  <2>1. ToolDone(pass) \in PassRow
    BY <2>0, ToolDoneType
  <2>2. CASE ToolAnsweredLocally
    <3>1. PICK fresh \in BOOLEAN : pass' = [ToolDone(pass) EXCEPT !.fresh = @ \/ fresh]
      BY <2>2 DEF ToolAnsweredLocally
    <3>2. [ToolDone(pass) EXCEPT !.fresh = @ \/ fresh] \in PassRow
      BY <2>1 DEF PassRow
    <3> QED
      BY <2>2, <3>1, <3>2 DEF ToolAnsweredLocally, channels, history, bounds
  <2>3. CASE ToolExecuted
    <3>1. PICK q \in Queries, size \in Sizes, fresh \in BOOLEAN :
             /\ pass' = [ToolDone(pass) EXCEPT !.budget = Charged(pass.budget, q, size),
                                               !.fresh = @ \/ fresh]
             /\ sent' = [sent EXCEPT !.units = @ + Cost[q], !.queries = @ + 1]
      BY <2>3 DEF ToolExecuted
    <3>2. pass.budget \in BudgetRow /\ Cost[q] \in Nat /\ size \in Nat
      BY DEF PassRow
    <3>3. Charged(pass.budget, q, size) \in BudgetRow
      BY <3>2, ChargedType
    <3>4. pass' \in PassRow
      BY <3>1, <3>3, <2>1 DEF PassRow
    <3>5. sent.units + Cost[q] \in Nat /\ sent.queries + 1 \in Nat
      BY <3>2
    <3>6. sent' \in [units: Nat, queries: Nat, granted: Limits \cup {0}]
      BY <3>1, <3>5
    <3> QED
      BY <2>3, <3>4, <3>6 DEF ToolExecuted, channels, bounds
  <2> QED
    BY <1>5, <2>2, <2>3 DEF Tool
<1>6. CASE StartCorrelation \/ StartInterpretation \/ StartWriting
  <2>1. ASSUME NEW tools \in BOOLEAN, NEW left \in 0..MaxTools
        PROVE  Opened(tools, left) \in PassRow
    BY <1>r DEF Opened, PassRow
  <2>2. pass' \in PassRow
    <3>1. /\ Opened(TRUE, MaxTools) \in PassRow
          /\ Opened(FALSE, 0) \in PassRow
      <4>1. 0 \in 0..MaxTools /\ MaxTools \in 0..MaxTools
        OBVIOUS
      <4> QED
        BY <4>1, <2>1
    <3>3. CASE StartCorrelation
      BY <3>1, <3>3 DEF StartCorrelation
    <3>4. CASE StartInterpretation
      <4>1. CASE budget.used < budget.max
        <5>1. pass' = Opened(TRUE, MaxTools)
          BY <3>4, <4>1 DEF StartInterpretation
        <5> QED
          BY <5>1, <3>1
      <4>2. CASE ~(budget.used < budget.max)
        <5>1. budget.used \in Nat /\ budget.max \in Nat
          BY DEF BudgetRow
        <5>2. (budget.used < budget.max) = FALSE
          BY <4>2, <5>1
        <5>3. (IF budget.used < budget.max THEN MaxTools ELSE 0) = 0
          BY <4>2
        <5>4. pass' = Opened(FALSE, 0)
          BY <3>4, <5>2, <5>3 DEF StartInterpretation
        <5> QED
          BY <5>4, <3>1
      <4> QED
        BY <4>1, <4>2
    <3>5. CASE StartWriting
      BY <3>1, <3>5 DEF StartWriting
    <3> QED
      BY <1>6, <3>3, <3>4, <3>5 DEF StartCorrelation, StartInterpretation, StartWriting
  <2> QED
    BY <1>6, <2>2 DEF StartCorrelation, StartInterpretation, StartWriting, channels,
       history, bounds
<1>7. CASE CorrelateWithoutModel \/ InterpretWithoutTools
  <2>1. pass' \in PassRow
    <3>1. CASE CorrelateWithoutModel
      BY <3>1 DEF CorrelateWithoutModel
    <3>2. CASE InterpretWithoutTools
      <4>1. 1 \in 1..Tries
        OBVIOUS
      <4> QED
        BY <3>2, <4>1 DEF InterpretWithoutTools, PassRow
    <3> QED
      BY <1>7, <3>1, <3>2
  <2> QED
    BY <1>7, <2>1 DEF CorrelateWithoutModel, InterpretWithoutTools, channels, history, bounds
<1>8. CASE CorrelationReported \/ CorrelationFails
  BY <1>8, <1>r DEF CorrelationReported, CorrelationFails, Goes, Accounted, UsageKept, Plus,
     AtWork, bounds, PassRow, BudgetRow, Usage, Bill, LedgerInv
<1>9. CASE CompleteRound
  <2>1. PICK recommended \in BOOLEAN :
           /\ budget' = [budget EXCEPT !.round = Smaller(@ + 1, MaxRounds),
                                       !.stopped = ~MoreAfter(recommended)]
           /\ Goes(NextNode(MoreAfter(recommended), recommended))
    BY <1>9 DEF CompleteRound
  <2>2. Smaller(budget.round + 1, MaxRounds) \in 0..MaxRounds
    BY DEF Smaller, BudgetRow
  <2>3. budget' \in BudgetRow
    BY <2>1, <2>2 DEF BudgetRow
  <2> QED
    BY <1>9, <1>r, <2>1, <2>3 DEF CompleteRound, Goes, NextNode, history, bounds
<1>10. CASE Abstain \/ InterpretationReported \/ InterpretationDegraded \/ Written
  BY <1>10, <1>r DEF Abstain, InterpretationReported, InterpretationDegraded, Written, At,
     AtWork, Goes, Accounted, Plus, PassRow, Usage, Bill, history, bounds, LedgerInv
<1>11. CASE Reinvestigate
  BY <1>11, <1>r DEF Reinvestigate, At, Goes, NoBudget, BudgetRow, bounds
<1>12. CASE Review("reinvestigate_feedback") \/ Review("deep_rca")
  BY <1>12, <1>r DEF Review, At, Goes, history
<1>13. CASE DeadlinePasses \/ LoopTimePasses \/ CircuitCloses
  BY <1>13 DEF DeadlinePasses, LoopTimePasses, CircuitCloses, channels, history, bounds
<1>14. CASE Lost
  <2>1. budget.used \in Nat /\ MaxTools * budget.round \in Nat
    BY DEF BudgetRow
  <2>2. sent' \in [units: Nat, queries: Nat, granted: Limits \cup {0}]
    BY <1>14, <2>1 DEF Lost, Smaller
  <2>3. faults' \in 0..MaxFaults
    BY <1>14 DEF Lost
  <2> QED
    BY <1>14, <1>r, <2>2, <2>3 DEF Lost, Goes
<1> QED
  BY <1>1, <1>2, <1>3, <1>4, <1>5, <1>6, <1>7, <1>8, <1>9, <1>10, <1>11, <1>12, <1>13, <1>14
     DEF Next, Progress, Call, Node

-----------------------------------------------------------------------------
(* The parts of the invariant, action by action.                           *)

LEMMA InvInit == Init => PassInv /\ LoopInv /\ UnitInv /\ QueryInv /\ LedgerInv
<1> SUFFICES ASSUME Init PROVE PassInv /\ LoopInv /\ UnitInv /\ QueryInv /\ LedgerInv
  OBVIOUS
<1>1. /\ at = "new" /\ budget = NoBudget /\ ledger = NoCalls /\ pass = Resting
      /\ bill = NoCalls /\ sent = [units |-> 0, queries |-> 0, granted |-> 0]
  BY DEF Init
<1>2. PassInv /\ LedgerInv
  BY <1>1, Constants DEF PassInv, LedgerInv, Working, Resting, NoBudget, NoCalls
<1>3. LoopInv /\ UnitInv
  BY <1>1, Constants DEF LoopInv, UnitInv, Open, Working, Closed, Writing, Resting, NoBudget
<1>4. QueryInv
  <2>1. Cap(0) = 0 /\ Cap(MaxRounds) >= 0
    BY CapGrows, Constants
  <2> QED
    BY <1>1, <2>1, CapGrows, Constants DEF QueryInv, Open, Working, Resting, NoBudget
<1> QED
  BY <1>2, <1>3, <1>4

LEMMA StartFacts ==
  ASSUME TypeOK, StartCorrelation \/ StartInterpretation \/ StartWriting
  PROVE  /\ pass'.pc = "call" /\ pass'.asked = 0 /\ pass'.budget = budget
         /\ pass'.usage = NoCalls /\ pass'.bill = NoCalls /\ ~pass'.fresh
         /\ pass'.left \in 0..MaxTools
         /\ (pass'.tools => at \in Tooled)
         /\ (pass'.left > 0 => at \in Tooled)
         /\ at \in Tooled \cup Writing /\ pass.pc = "rest"
         /\ UNCHANGED <<channels, circuitOpen, history, bounds>>
<1>1. \A tools, left : LET p == Opened(tools, left)
                       IN  /\ p.pc = "call" /\ p.tools = tools /\ p.asked = 0
                           /\ p.left = left /\ p.budget = budget /\ ~p.fresh
                           /\ p.usage = NoCalls /\ p.bill = NoCalls
  BY DEF Opened, Resting
<1>2. MaxTools \in Nat
  BY Constants
<1>3. CASE StartCorrelation
  <2>1. /\ pass'.pc = "call" /\ pass'.tools = TRUE /\ pass'.asked = 0
        /\ pass'.left = MaxTools /\ pass'.budget = budget /\ ~pass'.fresh
        /\ pass'.usage = NoCalls /\ pass'.bill = NoCalls
        /\ MaxTools \in 0..MaxTools
    BY <1>2, <1>3 DEF StartCorrelation, Opened, Resting
  <2>2. at = "semantic_correlate" /\ pass.pc = "rest"
    BY <1>3 DEF StartCorrelation, At
  <2>3. UNCHANGED <<channels, circuitOpen, history, bounds>>
    BY <1>3 DEF StartCorrelation
  <2> QED
    BY <2>1, <2>2, <2>3 DEF Tooled
<1>4. CASE StartInterpretation
  <2>1. PICK tools, left : /\ pass' = Opened(tools, left)
                           /\ left = IF budget.used < budget.max THEN MaxTools ELSE 0
    BY <1>4 DEF StartInterpretation
  <2>2. left \in 0..MaxTools
    BY <1>2, <2>1
  <2> QED
    BY <1>1, <1>2, <1>4, <2>1, <2>2 DEF StartInterpretation, At, Tooled
<1>5. CASE StartWriting
  <2>1. /\ pass'.pc = "call" /\ pass'.tools = FALSE /\ pass'.asked = 0
        /\ pass'.left = 0 /\ pass'.budget = budget /\ ~pass'.fresh
        /\ pass'.usage = NoCalls /\ pass'.bill = NoCalls
    BY <1>5 DEF StartWriting, Opened, Resting
  <2>2. at \in Writing /\ pass.pc = "rest" /\ 0 \in 0..MaxTools
    BY <1>2, <1>5 DEF StartWriting
  <2>3. UNCHANGED <<channels, circuitOpen, history, bounds>>
    BY <1>5 DEF StartWriting
  <2> QED
    BY <2>1, <2>2, <2>3
<1> QED
  BY <1>3, <1>4, <1>5

LEMMA PassStep == TypeOK /\ PassInv /\ [Next]_vars => PassInv'
<1> SUFFICES ASSUME TypeOK, PassInv, [Next]_vars PROVE PassInv'
  OBVIOUS
<1> USE DEF PassInv, Working, Tooled, Writing
<1>t. /\ pass \in PassRow /\ budget \in BudgetRow
      /\ pass.left \in Nat /\ pass.asked \in Nat
  BY Constants DEF TypeOK, PassRow
<1>r. \A fresh : LET p == [Resting EXCEPT !.fresh = fresh]
                 IN  /\ p.pc = "rest" /\ ~p.tools /\ p.usage = NoCalls /\ p.bill = NoCalls
                     /\ p.asked = 0 /\ p.left = 0
  BY DEF Resting
<1>s. /\ Resting.pc = "rest" /\ ~Resting.tools /\ Resting.usage = NoCalls
      /\ Resting.bill = NoCalls /\ Resting.asked = 0 /\ Resting.left = 0
  BY DEF Resting
<1>1. CASE UNCHANGED vars
  BY <1>1 DEF vars, channels, history, bounds
<1>2. CASE pass' = Resting
  BY <1>2, <1>s
<1>3. CASE CorrelationReported
  BY <1>3, <1>r DEF CorrelationReported
<1>4. CASE TryAgain \/ LastTryFails \/ CallRefused
  BY <1>4, <1>t DEF TryAgain, LastTryFails, CallRefused, MayTry, Asking, Called, channels, PassRow
<1>5. CASE Answered
  <2>1. PICK tokens \in {1, Reserve}, asked \in 0..(IF pass.tools THEN pass.left ELSE 0) :
           pass' = [Called(tokens, tokens) EXCEPT !.try = 1, !.asked = asked,
                       !.pc = IF asked > 0 THEN "tools" ELSE "answered"]
    BY <1>5 DEF Answered
  <2>2. asked \in Nat /\ asked <= pass.left /\ (asked > 0 => pass.tools)
    BY <1>t
  <2>3. /\ pass'.asked = asked /\ pass'.left = pass.left /\ pass'.tools = pass.tools
        /\ pass'.budget = pass.budget
        /\ pass'.pc = IF asked > 0 THEN "tools" ELSE "answered"
    BY <2>1, <1>t DEF Called, PassRow
  <2>4. pass.pc # "rest" /\ UNCHANGED <<at, budget>>
    BY <1>5 DEF Answered, MayTry, Asking, channels
  <2> QED
    BY <2>2, <2>3, <2>4
<1>6. CASE Tool
  <2>1. /\ pass.pc = "tools" /\ UNCHANGED <<at, budget>>
        /\ pass'.left = pass.left - 1 /\ pass'.asked = pass.asked - 1
        /\ pass'.tools = pass.tools
        /\ pass'.pc = IF pass.asked = 1 THEN "call" ELSE "tools"
    BY <1>6, <1>t DEF Tool, ToolAnsweredLocally, ToolExecuted, ToolDone, channels, PassRow
  <2>2. pass'.budget.max = pass.budget.max /\ pass'.budget.round = pass.budget.round
        /\ pass'.budget.stopped = pass.budget.stopped
    <3>1. CASE ToolAnsweredLocally
      BY <3>1, <1>t DEF ToolAnsweredLocally, ToolDone, PassRow
    <3>2. CASE ToolExecuted
      <4>1. PICK q \in Queries, size \in Sizes :
               pass'.budget = Charged(pass.budget, q, size)
        BY <3>2, <1>t DEF ToolExecuted, ToolDone, PassRow
      <4>2. pass.budget \in BudgetRow
        BY <1>t DEF PassRow
      <4> QED
        BY <4>1, <4>2 DEF Charged, BudgetRow
    <3> QED
      BY <1>6, <3>1, <3>2 DEF Tool
  <2> QED
    BY <2>1, <2>2, <1>t
<1>7. CASE StartCorrelation \/ StartInterpretation \/ StartWriting
  <2>1. 0 <= pass'.left
    BY <1>7, StartFacts, Constants
  <2> QED
    BY <1>7, <2>1, StartFacts DEF channels
<1>8. CASE CorrelateWithoutModel \/ DeadlinePasses \/ LoopTimePasses \/ CircuitCloses
  <2>1. CASE CorrelateWithoutModel
    <3>1. pass' = pass /\ budget' = budget /\ pass.pc = "rest" /\ ~pass.tools
      BY <2>1 DEF CorrelateWithoutModel, At
    <3> QED
      BY <3>1
  <2>2. CASE DeadlinePasses \/ LoopTimePasses \/ CircuitCloses
    <3>1. pass' = pass /\ budget' = budget /\ at' = at
      BY <2>2 DEF DeadlinePasses, LoopTimePasses, CircuitCloses, channels
    <3> QED
      BY <3>1
  <2> QED
    BY <1>8, <2>1, <2>2
<1>9. CASE InterpretWithoutTools
  BY <1>9, <1>t DEF InterpretWithoutTools, AtWork, channels, PassRow
<1> QED
  BY <1>1, <1>2, <1>3, <1>4, <1>5, <1>6, <1>7, <1>8, <1>9 DEF Next, Progress, Call, Node,
     StartRun, BuildContext, CorrelationFails, CompleteRound, Abstain, InterpretationReported,
     InterpretationDegraded, Reinvestigate, Review, Written, Lost, Goes
(* What each kind of step does to the loop, its units and its queries.     *)
LEMMA CallFacts ==
  ASSUME TypeOK, Call
  PROVE  /\ UNCHANGED <<channels, history>>
         /\ Working /\ Working'
         /\ pass'.left = pass.left /\ pass'.fresh = pass.fresh
         /\ pass'.budget = pass.budget
<1>1. pass \in PassRow
  BY DEF TypeOK
<1> QED
  BY <1>1 DEF Call, TryAgain, LastTryFails, CallRefused, Answered, MayTry, Asking, Called,
     PassRow, Working

LEMMA LocalFacts ==
  ASSUME TypeOK, ToolAnsweredLocally \/ InterpretWithoutTools
  PROVE  /\ UNCHANGED <<channels, history>>
         /\ Working /\ Working'
         /\ pass'.left <= pass.left /\ pass'.left \in Int
         /\ pass'.fresh => pass.fresh \/ ~(pass.budget.stopped /\ pass.budget.round > 0)
         /\ pass'.budget = pass.budget
<1>1. pass \in PassRow /\ pass.left \in Nat
  BY Constants DEF TypeOK, PassRow
<1>2. CASE ToolAnsweredLocally
  <2>0. PICK fresh \in BOOLEAN :
           /\ fresh => ~Barred
           /\ pass' = [ToolDone(pass) EXCEPT !.fresh = @ \/ fresh]
    BY <1>2 DEF ToolAnsweredLocally
  <2>1. /\ pass'.left = pass.left - 1 /\ pass'.fresh = (pass.fresh \/ fresh)
        /\ pass'.budget = pass.budget /\ pass.pc = "tools"
        /\ pass'.pc = IF pass.asked = 1 THEN "call" ELSE "tools"
    BY <1>1, <1>2, <2>0 DEF ToolAnsweredLocally, ToolDone, PassRow
  <2>3. pass'.fresh => pass.fresh \/ ~(pass.budget.stopped /\ pass.budget.round > 0)
    BY <2>0, <2>1 DEF Barred
  <2>2. UNCHANGED <<channels, history>>
    BY <1>2 DEF ToolAnsweredLocally
  <2> QED
    BY <1>1, <2>1, <2>2, <2>3 DEF Working
<1>3. CASE InterpretWithoutTools
  <2>1. UNCHANGED <<channels, history>> /\ pass.pc = "raised"
    BY <1>3 DEF InterpretWithoutTools, AtWork
  <2> QED
    BY <1>1, <1>3, <2>1 DEF InterpretWithoutTools, PassRow, Working
<1> QED
  BY <1>2, <1>3

LEMMA ExecutedFacts ==
  ASSUME TypeOK, PassInv, LoopInv, ToolExecuted
  PROVE  \E units \in Nat :
            /\ UNCHANGED channels
            /\ Working /\ Working' /\ Open
            /\ units <= budget.max - pass.budget.used
            /\ pass'.budget.used = pass.budget.used + units
            /\ sent'.units = sent.units + units
            /\ sent'.queries = sent.queries + 1
            /\ sent'.granted = sent.granted
            /\ pass'.left = pass.left - 1
<1>1. /\ pass \in PassRow /\ pass.budget \in BudgetRow
      /\ sent \in [units: Nat, queries: Nat, granted: Limits \cup {0}]
  BY DEF TypeOK, PassRow
<1>2. PICK q \in Queries, size \in Sizes, fresh \in BOOLEAN :
         /\ Affordable(q)
         /\ pass' = [ToolDone(pass) EXCEPT !.budget = Charged(pass.budget, q, size),
                                           !.fresh = @ \/ fresh]
         /\ sent' = [sent EXCEPT !.units = @ + Cost[q], !.queries = @ + 1]
  BY DEF ToolExecuted
<1>3. Cost[q] \in Nat
  BY Constants
<1>4. pass.pc = "tools" /\ ~Barred /\ UNCHANGED channels
  BY DEF ToolExecuted
<1>5. Working /\ Working'
  BY <1>1, <1>2, <1>4 DEF Working, ToolDone, PassRow
<1>6. Open
  BY <1>4, <1>5 DEF Barred, PassInv, LoopInv, Open
<1>7. Cost[q] <= budget.max - pass.budget.used
  BY <1>2, <1>5 DEF Affordable, PassInv
<1>8. /\ pass'.budget = Charged(pass.budget, q, size)
      /\ pass'.left = pass.left - 1
  BY <1>1, <1>2 DEF ToolDone, PassRow
<1>9. pass'.budget.used = pass.budget.used + Cost[q]
  BY <1>1, <1>8 DEF Charged, BudgetRow
<1>10. /\ sent'.units = sent.units + Cost[q] /\ sent'.queries = sent.queries + 1
       /\ sent'.granted = sent.granted
  BY <1>1, <1>2
<1> QED
  BY <1>3, <1>4, <1>5, <1>6, <1>7, <1>8, <1>9, <1>10

(* A round goes on only open, below its limit and with something found.    *)
LEMMA RoundFacts ==
  ASSUME TypeOK, CompleteRound
  PROVE  /\ at = "integrate" /\ ~Working /\ ~Working' /\ ~pass'.fresh
         /\ UNCHANGED history
         /\ budget'.used = budget.used /\ budget'.max = budget.max
         /\ budget'.round \in Nat \ {0}
         /\ Open' => /\ pass.fresh /\ budget.round + 1 < MaxRounds
                     /\ budget'.round = budget.round + 1
                     /\ at' = "semantic_correlate"
         /\ at' \in {"semantic_correlate", "interpret_incident"}
<1>1. budget \in BudgetRow /\ budget.round \in Nat /\ MaxRounds \in Nat \ {0}
  BY Constants DEF TypeOK, BudgetRow
<1>2. PICK recommended \in BOOLEAN :
         /\ budget' = [budget EXCEPT !.round = Smaller(@ + 1, MaxRounds),
                                     !.stopped = ~MoreAfter(recommended)]
         /\ Goes(NextNode(MoreAfter(recommended), recommended))
  BY DEF CompleteRound
<1>3. /\ budget'.used = budget.used /\ budget'.max = budget.max
      /\ budget'.round = Smaller(budget.round + 1, MaxRounds)
      /\ budget'.stopped = ~MoreAfter(recommended)
  BY <1>1, <1>2 DEF BudgetRow
<1>4. at = "integrate" /\ ~Working /\ UNCHANGED history
  BY DEF CompleteRound, At, Working
<1>5. ~Working' /\ ~pass'.fresh /\ at' = NextNode(MoreAfter(recommended), recommended)
  BY <1>2 DEF Goes, Resting, Working
<1>6. Open' => MoreAfter(recommended)
  BY <1>3 DEF Open
<1>7. MoreAfter(recommended) => pass.fresh /\ budget.round + 1 < MaxRounds
  BY DEF MoreAfter
<1>8. Smaller(budget.round + 1, MaxRounds) \in Nat \ {0}
  BY <1>1 DEF Smaller
<1>9. MoreAfter(recommended) => Smaller(budget.round + 1, MaxRounds) = budget.round + 1
  BY <1>1, <1>7 DEF Smaller
<1>10. /\ at' \in {"semantic_correlate", "interpret_incident"}
       /\ MoreAfter(recommended) => at' = "semantic_correlate"
  BY <1>5 DEF NextNode
<1> QED
  BY <1>3, <1>4, <1>5, <1>6, <1>7, <1>8, <1>9, <1>10

(* Steps that leave the budget and what was sent alone, and rest.          *)
Quiet == StartRun \/ Review("reinvestigate_feedback") \/ Review("deep_rca") \/ Abstain
         \/ InterpretationDegraded \/ Written
Elsewhere == DeadlinePasses \/ LoopTimePasses \/ CircuitCloses

LEMMA QuietFacts ==
  ASSUME Quiet
  PROVE  UNCHANGED <<budget, sent>> /\ pass' = Resting
  BY DEF Quiet, StartRun, Review, Abstain, InterpretationDegraded, Written, Goes, history

LEMMA ElsewhereFacts ==
  ASSUME Elsewhere
  PROVE  UNCHANGED <<at, budget, sent, pass, ledger, bill>>
  BY DEF Elsewhere, DeadlinePasses, LoopTimePasses, CircuitCloses, channels, history

(* The disjuncts of Next, as the parts of the invariant need them.         *)
LEMMA NextCases ==
  ASSUME [Next]_vars
  PROVE  \/ UNCHANGED vars \/ Call \/ ToolAnsweredLocally \/ ToolExecuted
         \/ StartCorrelation \/ StartInterpretation \/ StartWriting
         \/ CorrelateWithoutModel \/ CorrelationReported \/ CorrelationFails
         \/ CompleteRound \/ InterpretWithoutTools \/ InterpretationReported
         \/ BuildContext \/ Reinvestigate \/ Lost \/ Quiet \/ Elsewhere
  BY DEF Next, Progress, Tool, Node, Quiet, Elsewhere

LEMMA LoopStep ==
  TypeOK /\ PassInv /\ LoopInv /\ [Next]_vars => LoopInv'
<1> SUFFICES ASSUME TypeOK, PassInv, LoopInv, [Next]_vars PROVE LoopInv'
  OBVIOUS
<1> USE DEF LoopInv, Open, Closed, Writing
<1>t. /\ budget \in BudgetRow /\ pass \in PassRow /\ budget.max \in Nat
      /\ budget.round \in Nat
      /\ sent \in [units: Nat, queries: Nat, granted: Limits \cup {0}]
      /\ sent.granted \in Nat
  <2>1. /\ budget \in BudgetRow /\ pass \in PassRow
        /\ sent \in [units: Nat, queries: Nat, granted: Limits \cup {0}]
    BY DEF TypeOK
  <2>2. budget.max \in Limits \cup {0} /\ budget.round \in 0..MaxRounds
    BY <2>1 DEF BudgetRow
  <2>3. sent.granted \in Nat
    BY <2>1, Constants
  <2>4. \A l \in Limits \cup {0} : l \in Nat
    BY Constants
  <2>5. budget.max \in Nat /\ budget.round \in Nat
    BY <2>2, <2>4
  <2> QED
    BY <2>1, <2>3, <2>5
<1>r. Resting.fresh = FALSE
  BY DEF Resting
<1>1. CASE UNCHANGED vars
  BY <1>1 DEF vars, channels, history
<1>2. CASE Call \/ ToolAnsweredLocally \/ InterpretWithoutTools
  <2>1. Working /\ UNCHANGED <<channels, history>>
    BY <1>2, CallFacts, LocalFacts
  <2>2. pass.budget.stopped = budget.stopped /\ pass.budget.round = budget.round
    BY <2>1 DEF PassInv
  <2>3. pass'.fresh => pass.fresh \/ ~(pass.budget.stopped /\ pass.budget.round > 0)
    BY <1>2, CallFacts, LocalFacts
  <2>4. budget' = budget /\ at' = at /\ sent' = sent
    BY <2>1 DEF channels, history
  <2>5. budget.stopped => budget.round > 0 /\ ~pass'.fresh
    BY <2>2, <2>3
  <2> QED
    BY <2>4, <2>5
<1>3. CASE ToolExecuted
  BY <1>3, ExecutedFacts DEF channels
<1>4. CASE StartCorrelation \/ StartInterpretation \/ StartWriting
  BY <1>4, StartFacts DEF channels, history
<1>5. CASE CorrelateWithoutModel
  BY <1>5 DEF CorrelateWithoutModel, history
<1>6. CASE CorrelationReported
  <2>1. pass.budget \in BudgetRow /\ Working
    BY <1>6, <1>t DEF PassRow, CorrelationReported, AtWork, Working
  <2>2. /\ budget'.max = budget.max /\ budget'.round = budget.round
        /\ budget'.stopped = budget.stopped
    BY <1>6, <2>1 DEF CorrelationReported, PassInv
  <2>3. pass'.fresh = pass.fresh /\ at' = "integrate" /\ sent' = sent
    BY <1>6 DEF CorrelationReported, Resting
  <2> QED
    BY <2>2, <2>3
<1>7. CASE CorrelationFails
  <2>1. /\ budget'.max = budget.max /\ budget'.round = budget.round
        /\ budget'.stopped = budget.stopped
    BY <1>7, <1>t DEF CorrelationFails, BudgetRow
  <2>2. pass'.fresh = FALSE /\ at' = "integrate" /\ sent' = sent
    BY <1>7, <1>r DEF CorrelationFails, Goes
  <2> QED
    BY <2>1, <2>2
<1>8. CASE CompleteRound
  <2>1. Open' => budget'.round < MaxRounds
    BY <1>8, RoundFacts
  <2>2. at' = "interpret_incident" => budget'.stopped
    BY <1>8, RoundFacts
  <2> QED
    BY <1>8, <2>1, <2>2, RoundFacts DEF history
<1>9. CASE InterpretationReported
  <2>1. pass.budget \in BudgetRow /\ Working /\ at = "interpret_incident"
    BY <1>9, <1>t DEF PassRow, InterpretationReported, AtWork, Working
  <2>2. /\ budget'.max = budget.max /\ budget'.round = budget.round
        /\ budget'.stopped = budget.stopped
    BY <1>9, <2>1 DEF InterpretationReported, PassInv
  <2>3. pass'.fresh = FALSE /\ at' = "human_review" /\ sent' = sent
    BY <1>9, <1>r DEF InterpretationReported, Goes
  <2> QED
    BY <2>1, <2>2, <2>3
<1>10. CASE BuildContext
  <2>1. PICK limit \in Limits :
           /\ budget' = [budget EXCEPT !.max = limit, !.fixed = (limit = 0)]
           /\ sent' = [sent EXCEPT !.granted = Bigger(sent.granted, limit)]
    BY <1>10 DEF BuildContext, Allotted
  <2>2. /\ budget'.max = limit /\ budget'.round = budget.round
        /\ budget'.stopped = budget.stopped
        /\ sent'.granted = Bigger(sent.granted, limit)
    BY <1>t, <2>1 DEF BudgetRow
  <2>3. limit \in Nat
    BY Constants
  <2>4. limit <= Bigger(sent.granted, limit)
    BY <1>t, <2>3 DEF Bigger
  <2>5. pass'.fresh = FALSE /\ at' = "semantic_correlate"
    BY <1>10, <1>r DEF BuildContext, Goes
  <2> QED
    BY <2>2, <2>4, <2>5
<1>11. CASE Reinvestigate
  <2>1. /\ budget' = [NoBudget EXCEPT !.max = budget.max, !.fixed = budget.fixed]
        /\ sent' = [units |-> 0, queries |-> 0, granted |-> budget.max]
        /\ at' = "semantic_correlate"
    BY <1>11 DEF Reinvestigate, Goes
  <2>2. budget'.max = budget.max /\ budget'.round = 0 /\ budget'.stopped = FALSE
    BY <2>1 DEF NoBudget
  <2> QED
    BY <1>t, <2>1, <2>2, Constants
<1>12. CASE Lost
  <2>1. sent'.granted = sent.granted /\ budget' = budget /\ pass' = Resting /\ at' = "lost"
    BY <1>12, <1>t DEF Lost, Goes
  <2> QED
    BY <1>r, <2>1
<1>13. CASE Quiet
  <2>1. at' \in Closed => at \in Closed
    BY <1>13 DEF Quiet, StartRun, Review, Abstain, InterpretationDegraded, Written, Goes, At
  <2> QED
    BY <1>13, <1>r, <2>1, QuietFacts
<1>14. CASE Elsewhere
  BY <1>14, ElsewhereFacts
<1> QED
  BY <1>1, <1>2, <1>3, <1>4, <1>5, <1>6, <1>7, <1>8, <1>9, <1>10, <1>11, <1>12, <1>13, <1>14,
     NextCases

LEMMA UnitStep ==
  TypeOK /\ PassInv /\ LoopInv /\ UnitInv /\ [Next]_vars => UnitInv'
<1> SUFFICES ASSUME TypeOK, PassInv, LoopInv, UnitInv, [Next]_vars PROVE UnitInv'
  OBVIOUS
<1> USE DEF UnitInv
<1>t. /\ budget \in BudgetRow /\ pass \in PassRow /\ budget.max \in Nat
      /\ budget.used \in Nat /\ pass.budget \in BudgetRow /\ pass.budget.used \in Nat
      /\ sent \in [units: Nat, queries: Nat, granted: Limits \cup {0}]
      /\ sent.units \in Nat /\ sent.granted \in Nat
  BY Constants DEF TypeOK, BudgetRow, PassRow
<1>r. Resting.fresh = FALSE /\ Resting.pc = "rest"
  BY DEF Resting
<1>1. CASE UNCHANGED vars
  BY <1>1 DEF vars, channels, history, Open, Working
<1>2. CASE Call \/ ToolAnsweredLocally \/ InterpretWithoutTools
  BY <1>2, CallFacts, LocalFacts DEF channels, history, Open, PassInv, Tooled, Writing
<1>3. CASE ToolExecuted
  <2>1. PICK units \in Nat :
            /\ UNCHANGED channels
            /\ Working /\ Working' /\ Open
            /\ units <= budget.max - pass.budget.used
            /\ pass'.budget.used = pass.budget.used + units
            /\ sent'.units = sent.units + units
            /\ sent'.granted = sent.granted
    BY <1>3, ExecutedFacts
  <2>2. sent.units <= pass.budget.used /\ budget.max <= sent.granted
    BY <2>1 DEF LoopInv
  <2>3. sent.units + units <= sent.granted /\ sent'.units <= pass'.budget.used
    BY <1>t, <2>1, <2>2
  <2>4. at' # "integrate"
    BY <2>1 DEF channels, PassInv, Tooled, Writing
  <2> QED
    BY <2>1, <2>3, <2>4
<1>4. CASE StartCorrelation \/ StartInterpretation \/ StartWriting
  <2>1. at # "integrate" /\ ~Working /\ Working'
    BY <1>4, StartFacts DEF Working, Tooled, Writing
  <2> QED
    BY <1>4, <2>1, StartFacts DEF channels, history, Open
<1>5. CASE CorrelateWithoutModel
  <2>1. /\ at = "semantic_correlate" /\ ~Working /\ ~Working'
        /\ UNCHANGED <<budget, sent>> /\ at' = "integrate"
    BY <1>5 DEF CorrelateWithoutModel, At, Working, history
  <2> QED
    BY <2>1 DEF Open
<1>6. CASE CorrelationReported
  <2>1. Working /\ budget' = pass.budget /\ at' = "integrate" /\ sent' = sent
    BY <1>6 DEF CorrelationReported, AtWork, Working
  <2>2. ~Working'
    BY <1>6, <1>r DEF CorrelationReported, Working, Resting
  <2>3. Open' => Open
    BY <2>1 DEF PassInv, Open
  <2> QED
    BY <2>1, <2>2, <2>3
<1>7. CASE CorrelationFails
  <2>1. at' = "integrate" /\ sent' = sent /\ pass'.fresh = FALSE /\ ~Working'
    BY <1>7, <1>r DEF CorrelationFails, Goes, Working
  <2> QED
    BY <2>1
<1>8. CASE CompleteRound
  <2>1. Open' => Open
    <3>1. Open' => pass.fresh
      BY <1>8, RoundFacts
    <3> QED
      BY <3>1 DEF LoopInv, Open
  <2> QED
    BY <1>8, <2>1, RoundFacts DEF history
<1>9. CASE InterpretationReported
  <2>1. /\ Working /\ budget' = pass.budget /\ at' = "human_review" /\ sent' = sent
        /\ at = "interpret_incident"
    BY <1>9 DEF InterpretationReported, AtWork, Working, Goes
  <2>2. ~Open'
    BY <2>1 DEF PassInv, LoopInv, Open, Closed
  <2> QED
    BY <2>1, <2>2
<1>10. CASE BuildContext
  <2>1. PICK limit \in Limits :
           /\ budget' = [budget EXCEPT !.max = limit, !.fixed = (limit = 0)]
           /\ sent' = [sent EXCEPT !.granted = Bigger(sent.granted, limit)]
    BY <1>10 DEF BuildContext, Allotted
  <2>2. /\ budget'.used = budget.used /\ budget'.stopped = budget.stopped
        /\ sent'.units = sent.units /\ sent'.granted = Bigger(sent.granted, limit)
    BY <1>t, <2>1 DEF BudgetRow
  <2>3. sent.granted <= Bigger(sent.granted, limit)
    BY <1>t, Constants DEF Bigger
  <2>4. Bigger(sent.granted, limit) \in Nat
    BY <1>t, Constants DEF Bigger
  <2>5. at = "context" /\ ~Working /\ ~Working' /\ at' = "semantic_correlate"
    BY <1>10, <1>r DEF BuildContext, At, Goes, Working
  <2> QED
    BY <1>t, <2>2, <2>3, <2>4, <2>5 DEF Open
<1>11. CASE Reinvestigate
  <2>1. /\ budget' = [NoBudget EXCEPT !.max = budget.max, !.fixed = budget.fixed]
        /\ sent' = [units |-> 0, queries |-> 0, granted |-> budget.max]
        /\ at' = "semantic_correlate" /\ pass' = Resting
    BY <1>11 DEF Reinvestigate, Goes
  <2>2. budget'.used = 0 /\ sent'.units = 0 /\ sent'.granted = budget.max /\ ~Working'
    BY <1>r, <2>1 DEF NoBudget, Working
  <2> QED
    BY <1>t, <2>1, <2>2
<1>12. CASE Lost
  <2>1. /\ sent'.granted = sent.granted /\ sent'.units = Smaller(sent.units, budget.used)
        /\ budget' = budget /\ pass' = Resting /\ at' = "lost"
    BY <1>12, <1>t DEF Lost, Goes
  <2>2. sent'.units <= budget.used /\ sent'.units <= sent.units /\ sent'.units \in Nat
    BY <1>t, <2>1 DEF Smaller
  <2>3. sent'.units <= sent'.granted
    BY <1>t, <2>1, <2>2
  <2> QED
    BY <1>r, <2>1, <2>2, <2>3 DEF Working
<1>13. CASE Quiet
  <2>1. Open => ~Working /\ at # "integrate"
    BY <1>13 DEF Quiet, StartRun, Review, Abstain, InterpretationDegraded, Written, At,
       Startable, Writing, PassInv, LoopInv, Open, Closed, Working, Tooled
  <2>2. at' # "integrate"
    BY <1>13 DEF Quiet, StartRun, Review, Abstain, InterpretationDegraded, Written, Goes
  <2> QED
    BY <1>13, <1>r, <2>1, <2>2, QuietFacts DEF Open, Working
<1>14. CASE Elsewhere
  BY <1>14, ElsewhereFacts DEF Open, Working
<1> QED
  BY <1>1, <1>2, <1>3, <1>4, <1>5, <1>6, <1>7, <1>8, <1>9, <1>10, <1>11, <1>12, <1>13, <1>14,
     NextCases

LEMMA QueryStep ==
  TypeOK /\ PassInv /\ LoopInv /\ QueryInv /\ [Next]_vars => QueryInv'
<1> SUFFICES ASSUME TypeOK, PassInv, LoopInv, QueryInv, [Next]_vars PROVE QueryInv'
  OBVIOUS
<1> USE DEF QueryInv
<1>t. /\ budget.round \in Nat /\ budget.round + 1 \in Nat /\ MaxRounds \in Nat
      /\ pass.left \in Nat /\ sent.queries \in Nat /\ MaxTools \in Nat
  BY Constants DEF TypeOK, BudgetRow, PassRow
<1>c. /\ Cap(0) = 0 /\ Cap(MaxRounds) \in Nat
      /\ Cap(budget.round) \in Nat /\ Cap(budget.round + 1) \in Nat
      /\ Cap(budget.round + 1) = Cap(budget.round) + MaxTools
      /\ budget.round < MaxRounds => Cap(budget.round + 1) <= Cap(MaxRounds)
  <2>1. Cap(0) = 0 /\ Cap(MaxRounds) \in Nat
    BY <1>t, CapGrows
  <2>2. /\ Cap(budget.round) \in Nat /\ Cap(budget.round + 1) \in Nat
        /\ Cap(budget.round + 1) = Cap(budget.round) + MaxTools
    BY <1>t, CapGrows
  <2>3. budget.round < MaxRounds => budget.round + 1 <= MaxRounds
    BY <1>t
  <2>4. budget.round + 1 <= MaxRounds => Cap(budget.round + 1) <= Cap(MaxRounds)
    BY <1>t, CapGrows
  <2> QED
    BY <2>1, <2>2, <2>3, <2>4
<1>r. Resting.pc = "rest"
  BY DEF Resting
<1>1. CASE UNCHANGED vars
  BY <1>1 DEF vars, channels, history, Open, Working
<1>2. CASE Call \/ ToolAnsweredLocally \/ InterpretWithoutTools
  <2>1. /\ Working /\ Working' /\ pass'.left <= pass.left /\ pass'.left \in Int
        /\ UNCHANGED <<at, budget, sent>>
    BY <1>2, <1>t, CallFacts, LocalFacts DEF channels, history
  <2>2. at # "integrate"
    BY <2>1 DEF PassInv, Tooled, Writing
  <2> QED
    BY <1>t, <1>c, <2>1, <2>2 DEF Open
<1>3. CASE ToolExecuted
  <2>1. /\ UNCHANGED channels /\ Working /\ Working' /\ Open
        /\ sent'.queries = sent.queries + 1 /\ pass'.left = pass.left - 1
    BY <1>3, ExecutedFacts
  <2>2. pass.left > 0 /\ at # "integrate" /\ budget.round < MaxRounds
    <3>1. pass.pc = "tools" /\ pass.asked \in Nat
      BY <1>3, Constants DEF ToolExecuted, TypeOK, PassRow
    <3> QED
      BY <1>t, <2>1, <3>1 DEF PassInv, LoopInv, Tooled, Writing
  <2>3. sent.queries + pass.left <= Cap(budget.round + 1)
    BY <2>1
  <2>4. sent'.queries <= Cap(MaxRounds)
    BY <1>t, <1>c, <2>1, <2>2, <2>3
  <2>5. sent'.queries + pass'.left <= Cap(budget.round + 1)
    BY <1>t, <1>c, <2>1, <2>2, <2>3
  <2> QED
    BY <2>1, <2>2, <2>4, <2>5 DEF channels, Open
<1>4. CASE StartCorrelation \/ StartInterpretation \/ StartWriting
  <2>1. at # "integrate" /\ ~Working /\ Working' /\ pass'.left <= MaxTools
        /\ pass'.left \in Nat
    BY <1>4, <1>t, StartFacts DEF Working, Tooled, Writing
  <2> QED
    BY <1>4, <1>t, <1>c, <2>1, StartFacts DEF channels, history, Open
<1>5. CASE CorrelateWithoutModel
  <2>1. /\ at = "semantic_correlate" /\ ~Working /\ ~Working'
        /\ UNCHANGED <<budget, sent>> /\ at' = "integrate"
    BY <1>5 DEF CorrelateWithoutModel, At, Working, history
  <2> QED
    BY <1>t, <1>c, <2>1 DEF Open
<1>6. CASE CorrelationReported \/ CorrelationFails
  <2>1. at = "semantic_correlate" /\ pass.pc # "rest" /\ at' = "integrate" /\ sent' = sent
    BY <1>6 DEF CorrelationReported, CorrelationFails, AtWork, Goes, Raised
  <2>2. ~Working'
    BY <1>6, <1>r DEF CorrelationReported, CorrelationFails, Goes, Working, Resting
  <2>3. budget'.round = budget.round /\ budget'.stopped = budget.stopped
    BY <1>6, <2>1 DEF CorrelationReported, CorrelationFails, TypeOK, BudgetRow, PassInv,
       Working
  <2> QED
    BY <1>t, <1>c, <2>1, <2>2, <2>3 DEF Open, Working
<1>7. CASE CompleteRound
  <2>1. /\ at = "integrate" /\ ~Working /\ ~Working' /\ sent' = sent
        /\ at' # "integrate"
        /\ Open' => pass.fresh /\ budget'.round = budget.round + 1
    BY <1>7, RoundFacts DEF history
  <2>2. Open' => Open
    BY <2>1 DEF LoopInv, Open
  <2>3. Open' => sent'.queries <= Cap(budget'.round)
    BY <2>1, <2>2
  <2> QED
    BY <2>1, <2>3
<1>8. CASE InterpretationReported
  <2>1. /\ Working /\ budget' = pass.budget /\ sent' = sent /\ at = "interpret_incident"
    BY <1>8 DEF InterpretationReported, AtWork, Working, Goes
  <2>2. ~Open'
    BY <2>1 DEF PassInv, LoopInv, Open, Closed
  <2> QED
    BY <2>1, <2>2
<1>9. CASE BuildContext
  <2>1. PICK limit \in Limits :
           /\ budget' = [budget EXCEPT !.max = limit, !.fixed = (limit = 0)]
           /\ sent' = [sent EXCEPT !.granted = Bigger(sent.granted, limit)]
    BY <1>9 DEF BuildContext, Allotted
  <2>2. /\ budget'.round = budget.round /\ budget'.stopped = budget.stopped
        /\ sent'.queries = sent.queries
    BY <2>1 DEF TypeOK, BudgetRow
  <2>3. at = "context" /\ ~Working /\ ~Working' /\ at' = "semantic_correlate"
    BY <1>9, <1>r DEF BuildContext, At, Goes, Working
  <2> QED
    BY <2>2, <2>3 DEF Open
<1>10. CASE Reinvestigate
  <2>1. /\ budget' = [NoBudget EXCEPT !.max = budget.max, !.fixed = budget.fixed]
        /\ sent' = [units |-> 0, queries |-> 0, granted |-> budget.max]
        /\ at' = "semantic_correlate" /\ pass' = Resting
    BY <1>10 DEF Reinvestigate, Goes
  <2>2. budget'.round = 0 /\ sent'.queries = 0 /\ ~Working'
    BY <1>r, <2>1 DEF NoBudget, Working
  <2> QED
    BY <1>c, <2>1, <2>2
<1>11. CASE Lost
  <2>1. /\ sent'.queries = Smaller(sent.queries, Cap(budget.round))
        /\ budget' = budget /\ pass' = Resting /\ at' = "lost"
    BY <1>11 DEF Lost, Goes, TypeOK, Cap
  <2>2. sent'.queries <= Cap(budget.round) /\ sent'.queries <= Cap(MaxRounds)
    BY <1>t, <1>c, <2>1 DEF Smaller
  <2> QED
    BY <1>r, <2>1, <2>2 DEF Working
<1>12. CASE Quiet
  <2>1. Open => ~Working /\ at # "integrate"
    BY <1>12 DEF Quiet, StartRun, Review, Abstain, InterpretationDegraded, Written, At,
       Startable, Writing, PassInv, LoopInv, Open, Closed, Working, Tooled
  <2>2. at' # "integrate"
    BY <1>12 DEF Quiet, StartRun, Review, Abstain, InterpretationDegraded, Written, Goes
  <2> QED
    BY <1>12, <1>r, <2>1, <2>2, QuietFacts DEF Open, Working
<1>13. CASE Elsewhere
  BY <1>13, ElsewhereFacts DEF Open, Working
<1> QED
  BY <1>1, <1>2, <1>3, <1>4, <1>5, <1>6, <1>7, <1>8, <1>9, <1>10, <1>11, <1>12, <1>13, NextCases

LEMMA LedgerStep ==
  TypeOK /\ PassInv /\ LedgerInv /\ [Next]_vars => LedgerInv'
<1> SUFFICES ASSUME TypeOK, PassInv, LedgerInv, [Next]_vars PROVE LedgerInv'
  OBVIOUS
<1> USE DEF LedgerInv
<1>t. /\ ledger \in Usage /\ bill \in Bill /\ pass \in PassRow
      /\ pass.usage \in Usage /\ pass.bill \in Bill
      /\ ledger.calls \in Nat /\ ledger.tokens \in Nat
      /\ bill.calls \in Nat /\ bill.tokens \in Nat
      /\ pass.usage.calls \in Nat /\ pass.usage.tokens \in Nat
      /\ pass.bill.calls \in Nat /\ pass.bill.tokens \in Nat
      /\ MaxCalls \in Nat /\ MaxTokens \in Nat /\ Reserve \in Nat \ {0}
  BY Constants DEF TypeOK, PassRow, Usage, Bill
<1>r. Resting.usage = NoCalls /\ Resting.bill = NoCalls
  BY DEF Resting
<1>n. NoCalls.calls = 0 /\ NoCalls.tokens = 0
  BY DEF NoCalls
<1>1. CASE UNCHANGED vars
  BY <1>1 DEF vars, channels, history
<1>2. CASE UNCHANGED <<ledger, bill>> /\ pass'.usage = pass.usage /\ pass'.bill = pass.bill
  BY <1>2
<1>3. ASSUME MayTry, UNCHANGED <<ledger, bill>>, NEW charged \in 0..Reserve,
             NEW used \in 0..charged,
             pass'.usage = Called(charged, used).usage,
             pass'.bill = Called(charged, used).bill
      PROVE  LedgerInv'
  <2>1. /\ pass'.usage.calls = pass.usage.calls + 1
        /\ pass'.usage.tokens = pass.usage.tokens + charged
        /\ pass'.bill.calls = pass.bill.calls + 1
        /\ pass'.bill.tokens = pass.bill.tokens + used
    BY <1>3, <1>t DEF Called, Plus, PassRow
  <2>2. /\ ledger.calls + pass.usage.calls < MaxCalls
        /\ ledger.tokens + pass.usage.tokens + Reserve <= MaxTokens
    BY <1>3 DEF MayTry, Authorized, Spent, Plus
  <2>3. charged \in Nat /\ used \in Nat /\ used <= charged /\ charged <= Reserve
    BY <1>t
  <2> QED
    BY <1>3, <1>t, <2>1, <2>2, <2>3
<1>4. CASE TryAgain \/ LastTryFails
  <2>1. PICK used \in {0, Reserve} :
           /\ pass'.usage = Called(Reserve, used).usage
           /\ pass'.bill = Called(Reserve, used).bill
    BY <1>4, <1>t DEF TryAgain, LastTryFails, FailureCharge, Called, PassRow
  <2>2. MayTry /\ UNCHANGED <<ledger, bill>>
    BY <1>4 DEF TryAgain, LastTryFails, channels, history
  <2>3. Reserve \in 0..Reserve /\ used \in 0..Reserve
    BY <1>t
  <2> QED
    BY <1>3, <2>1, <2>2, <2>3
<1>5. CASE CallRefused
  BY <1>2, <1>5, <1>t DEF CallRefused, channels, history, PassRow
<1>6. CASE Answered
  <2>1. PICK tokens \in {1, Reserve} :
           /\ pass'.usage = Called(tokens, tokens).usage
           /\ pass'.bill = Called(tokens, tokens).bill
    BY <1>6, <1>t DEF Answered, Called, PassRow
  <2>2. MayTry /\ UNCHANGED <<ledger, bill>>
    BY <1>6 DEF Answered, channels, history
  <2>3. tokens \in 0..Reserve /\ tokens \in 0..tokens
    BY <1>t
  <2> QED
    BY <1>3, <2>1, <2>2, <2>3
<1>7. CASE Tool
  <2>1. UNCHANGED <<ledger, bill>>
    BY <1>7 DEF Tool, ToolAnsweredLocally, ToolExecuted, channels, history
  <2>2. pass'.usage = pass.usage /\ pass'.bill = pass.bill
    <3>1. CASE ToolAnsweredLocally
      BY <3>1, <1>t DEF ToolAnsweredLocally, ToolDone, PassRow
    <3>2. CASE ToolExecuted
      <4>1. PICK budgeted, fresh :
               pass' = [ToolDone(pass) EXCEPT !.budget = budgeted, !.fresh = fresh]
        BY <3>2 DEF ToolExecuted
      <4> QED
        BY <4>1, <1>t DEF ToolDone, PassRow
    <3> QED
      BY <1>7, <3>1, <3>2 DEF Tool
  <2> QED
    BY <1>2, <2>1, <2>2
<1>8. CASE StartCorrelation \/ StartInterpretation \/ StartWriting
  BY <1>8, <1>t, <1>n, StartFacts DEF channels, history
<1>9. CASE CorrelateWithoutModel \/ Elsewhere
  <2>1. UNCHANGED <<ledger, bill, pass>>
    BY <1>9, ElsewhereFacts DEF CorrelateWithoutModel, history
  <2> QED
    BY <1>2, <2>1
<1>10. CASE InterpretWithoutTools
  BY <1>2, <1>10, <1>t DEF InterpretWithoutTools, channels, history, PassRow
<1>11. CASE CorrelationReported \/ CorrelationFails \/ InterpretationReported
            \/ InterpretationDegraded \/ Written
  <2>1. ledger' = Plus(ledger, pass.usage) /\ bill' = Plus(bill, pass.bill)
    BY <1>11 DEF CorrelationReported, CorrelationFails, InterpretationReported,
       InterpretationDegraded, Written, Accounted, UsageKept
  <2>2. pass'.usage = NoCalls /\ pass'.bill = NoCalls
    BY <1>11, <1>r DEF CorrelationReported, CorrelationFails, InterpretationReported,
       InterpretationDegraded, Written, Goes, Resting
  <2> QED
    BY <1>t, <1>n, <2>1, <2>2 DEF Plus
<1>12. CASE StartRun \/ BuildContext \/ CompleteRound \/ Abstain \/ Reinvestigate \/ Lost
            \/ Review("reinvestigate_feedback") \/ Review("deep_rca")
  <2>1. pass' = Resting /\ UNCHANGED <<ledger, bill>>
    BY <1>12 DEF StartRun, BuildContext, CompleteRound, Abstain, Reinvestigate, Lost, Review,
       Goes, history
  <2> QED
    BY <1>t, <1>n, <1>r, <2>1
<1> QED
  BY <1>1, <1>4, <1>5, <1>6, <1>7, <1>8, <1>9, <1>10, <1>11, <1>12
     DEF Next, Progress, Call, Node, Elsewhere

-----------------------------------------------------------------------------
LEMMA Inductive == Spec => []IInv
<1>1. Init => IInv
  BY TypeInit, InvInit DEF IInv
<1>2. IInv /\ [Next]_vars => IInv'
  BY TypeStep, PassStep, LoopStep, UnitStep, QueryStep, LedgerStep DEF IInv
<1> QED
  BY <1>1, <1>2, PTL DEF Spec

(* The channels and the node at work keep their ranges: the retained bytes *)
(* within their limit, the charged calls and tokens within theirs.         *)
THEOREM TypeCorrect == Spec => []TypeOK
<1>1. IInv => TypeOK
  BY DEF IInv
<1> QED
  BY <1>1, Inductive, PTL

(* Between two allowances of a reviewer the tools send no more units than  *)
(* were allotted and no more queries than the rounds have (tool_budget.py, *)
(* investigation_loop.py), failed passes and new alerts included.          *)
THEOREM AllowanceHolds == Spec => []AllowanceKept
<1>1. IInv => AllowanceKept
  BY DEF IInv, UnitInv, QueryInv, Cap, AllowanceKept
<1> QED
  BY <1>1, Inductive, PTL

(* What the provider counts stays within the budget of the incident        *)
(* (model_usage.py), whichever calls failed after they were served.        *)
THEOREM ModelBudgetHolds == Spec => []ModelBudgetKept
<1>1. IInv => ModelBudgetKept
  <2> SUFFICES ASSUME IInv PROVE ModelBudgetKept
    OBVIOUS
  <2>1. /\ ledger.calls \in Nat /\ ledger.tokens \in Nat
        /\ bill.calls \in Nat /\ bill.tokens \in Nat
        /\ pass.usage.calls \in Nat /\ pass.usage.tokens \in Nat
        /\ pass.bill.calls \in Nat /\ pass.bill.tokens \in Nat
        /\ MaxCalls \in Nat /\ MaxTokens \in Nat
    BY Constants DEF IInv, TypeOK, PassRow, Usage, Bill
  <2> QED
    BY <2>1 DEF IInv, LedgerInv, ModelBudgetKept
<1> QED
  BY <1>1, Inductive, PTL

(* A stopped investigation sends nothing and stays stopped, through new    *)
(* alerts and losses, until reinvestigate_feedback renews it.              *)
THEOREM StoppedStays == Spec => StoppedUntilReviewed
<1> DEFINE Stays == budget.stopped /\ at # "reinvestigate_feedback" =>
                       budget'.stopped /\ sent'.queries <= sent.queries
<1>1. IInv /\ [Next]_vars => [Stays]_vars
  <2> SUFFICES ASSUME IInv, [Next]_vars, budget.stopped, at # "reinvestigate_feedback"
               PROVE  budget'.stopped /\ sent'.queries <= sent.queries
    OBVIOUS
  <2>t. /\ TypeOK /\ PassInv /\ LoopInv /\ budget \in BudgetRow /\ sent.queries \in Nat
        /\ sent \in [units: Nat, queries: Nat, granted: Limits \cup {0}]
        /\ MaxTools * budget.round \in Nat
    BY Constants DEF IInv, TypeOK, BudgetRow
  <2>1. CASE UNCHANGED vars
    BY <2>1, <2>t DEF vars, channels, history
  <2>2. CASE Call \/ ToolAnsweredLocally \/ InterpretWithoutTools
    BY <2>2, <2>t, CallFacts, LocalFacts DEF channels, history
  <2>3. CASE ToolExecuted
    BY <2>3, <2>t, ExecutedFacts DEF Open
  <2>4. CASE StartCorrelation \/ StartInterpretation \/ StartWriting
    BY <2>4, <2>t, StartFacts DEF channels, history
  <2>5. CASE CorrelateWithoutModel
    BY <2>5, <2>t DEF CorrelateWithoutModel, history
  <2>6. CASE CorrelationReported \/ InterpretationReported \/ CorrelationFails
    <3>1. sent' = sent /\ Working
      BY <2>6 DEF CorrelationReported, InterpretationReported, CorrelationFails, AtWork,
         Working, Raised
    <3>2. budget'.stopped = budget.stopped
      BY <2>6, <2>t, <3>1 DEF CorrelationReported, InterpretationReported, CorrelationFails,
         PassInv, BudgetRow
    <3> QED
      BY <2>t, <3>1, <3>2
  <2>7. CASE CompleteRound
    BY <2>7, <2>t, RoundFacts DEF LoopInv, Open, history
  <2>8. CASE BuildContext
    <3>1. PICK limit \in Limits :
             /\ budget' = [budget EXCEPT !.max = limit, !.fixed = (limit = 0)]
             /\ sent' = [sent EXCEPT !.granted = Bigger(sent.granted, limit)]
      BY <2>8 DEF BuildContext, Allotted
    <3> QED
      BY <2>t, <3>1 DEF BudgetRow
  <2>9. CASE Reinvestigate
    BY <2>9 DEF Reinvestigate, At
  <2>10. CASE Lost
    <3>1. budget' = budget /\ sent'.queries = Smaller(sent.queries, MaxTools * budget.round)
      BY <2>10, <2>t DEF Lost
    <3> QED
      BY <2>t, <3>1 DEF Smaller
  <2>11. CASE Quiet
    BY <2>11, <2>t, QuietFacts
  <2>12. CASE Elsewhere
    BY <2>12, <2>t, ElsewhereFacts
  <2> QED
    BY <2>1, <2>2, <2>3, <2>4, <2>5, <2>6, <2>7, <2>8, <2>9, <2>10, <2>11, <2>12, NextCases
<1>2. Stays <=> (budget.stopped /\ at # "reinvestigate_feedback" =>
                   budget'.stopped /\ sent'.queries <= sent.queries)
  OBVIOUS
<1> QED
  BY <1>1, Inductive, PTL DEF Spec, StoppedUntilReviewed
=============================================================================
