--------------------------- MODULE PublicationProofs ---------------------------
(***************************************************************************)
(* The publish node keeps the publication guard for any number of runs,    *)
(* drafts, destinations and attempts.                                      *)
(***************************************************************************)
EXTENDS Publication, TLAPS

LEMMA InitGuardInv == Init => GuardInv
BY PublicationAssumption
   DEF Init, GuardInv, TypeOK, Row, RunRow, Running, RunNew, NoTries, OwnsRow,
       CountsTries, UnclaimedUndelivered, CompletedDelivered, ReportedCompleted,
       Existing

-----------------------------------------------------------------------------
(* No two runs at work have the same key: the row names one of them.       *)
LEMMA OneRunPerKey ==
  ASSUME GuardInv, NEW r \in Runs, NEW s \in Runs,
         runs[r].pc \in Running, runs[s].pc \in Running,
         runs[r].key = runs[s].key
  PROVE  r = s
BY DEF GuardInv, OwnsRow

-----------------------------------------------------------------------------
(* A claim: the key was free, so no run at work has it and no provider got *)
(* the draft.                                                              *)
LEMMA BeginKeeps ==
  ASSUME GuardInv, NEW r \in Runs, NEW k \in Keys, Begin(r, k)
  PROVE  GuardInv'
<1> DEFINE new == [pc |-> "sending", key |-> k, left |-> Destinations, tries |-> NoTries]
           row == [status |-> "started", token |-> r]
<1>1. /\ runs' = [runs EXCEPT ![r] = new] /\ publications' = [publications EXCEPT ![k] = row]
      /\ delivered' = delivered /\ publications[k].status = "none"
      /\ publications \in [Keys -> Row] /\ runs \in [Runs -> RunRow]
      /\ delivered \in [Keys -> [Destinations -> Nat]]
  BY DEF Begin, Existing, GuardInv, TypeOK
<1>2. new \in RunRow /\ row \in Row
  BY DEF RunRow, Row, Running, NoTries
<1>3. TypeOK'
  BY <1>1, <1>2 DEF TypeOK
<1>4. \A s \in Runs \ {r} : runs'[s] = runs[s]
  BY <1>1
<1>5. runs'[r] = new /\ publications'[k] = row
  BY <1>1
<1>6. \A l \in Keys \ {k} : publications'[l] = publications[l]
  BY <1>1
<1>7. ASSUME NEW s \in Runs PROVE (OwnsRow(s) /\ CountsTries(s))'
  <2>1. CASE s = r
    BY <1>1, <1>5, <2>1, PublicationAssumption
       DEF OwnsRow, CountsTries, Existing, GuardInv, UnclaimedUndelivered, NoTries
  <2>2. CASE s # r
    <3>1. OwnsRow(s) /\ CountsTries(s)
      BY DEF GuardInv
    <3>2. runs'[s] = runs[s]
      BY <1>4, <2>2
    <3>3. runs[s].pc \in Running => runs[s].key \in Keys \ {k}
      BY <3>1, <1>1 DEF OwnsRow, Existing
    <3> QED
      BY <3>1, <3>2, <3>3, <1>1, <1>6 DEF OwnsRow, CountsTries, Existing, Running
  <2> QED
    BY <2>1, <2>2
<1>8. (UnclaimedUndelivered /\ CompletedDelivered)'
  BY <1>1, <1>5, <1>6
     DEF GuardInv, UnclaimedUndelivered, CompletedDelivered, Existing
<1>9. ReportedCompleted'
  BY <1>1, <1>4, <1>5, <1>6 DEF GuardInv, ReportedCompleted, Existing
<1> QED
  BY <1>3, <1>7, <1>8, <1>9 DEF GuardInv

(* A run that is over does not own anything: what it reports is all that   *)
(* is said of it.                                                          *)
Ended == {"published", "deduplicated", "raised", "crashed"}
LEMMA EndKeeps ==
  ASSUME GuardInv, NEW r \in Runs, NEW row \in RunRow, row.pc \in Ended,
         runs' = [runs EXCEPT ![r] = row],
         row.pc \in {"published", "deduplicated"} =>
            row.key \in Keys /\ Existing(row.key) = "completed",
         UNCHANGED <<publications, delivered>>
  PROVE  GuardInv'
<1>1. runs'[r] = row /\ \A s \in Runs \ {r} : runs'[s] = runs[s]
  BY DEF GuardInv, TypeOK
<1>2. TypeOK'
  BY DEF GuardInv, TypeOK
<1>3. \A s \in Runs : (OwnsRow(s) /\ CountsTries(s))'
  BY <1>1 DEF GuardInv, OwnsRow, CountsTries, Existing, Running, Ended
<1>4. (UnclaimedUndelivered /\ CompletedDelivered /\ ReportedCompleted)'
  BY <1>1 DEF GuardInv, UnclaimedUndelivered, CompletedDelivered, ReportedCompleted, Existing
<1> QED
  BY <1>2, <1>3, <1>4 DEF GuardInv

LEMMA BeginAgainKeeps ==
  ASSUME GuardInv, NEW r \in Runs, NEW k \in Keys, BeginAgain(r, k)
  PROVE  GuardInv'
<1> DEFINE row == [pc |-> Outcome(Existing(k)), key |-> k, left |-> {}, tries |-> NoTries]
<1>1. row \in RunRow /\ row.pc \in Ended
  BY DEF RunRow, Ended, Outcome, NoTries
<1>2. row.pc \in {"published", "deduplicated"} => Existing(row.key) = "completed"
  BY DEF Outcome
<1> QED
  BY <1>1, <1>2, EndKeeps DEF BeginAgain

LEMMA CrashKeeps ==
  ASSUME GuardInv, NEW r \in Runs, Crash(r)
  PROVE  GuardInv'
<1> DEFINE row == [runs[r] EXCEPT !.pc = "crashed"]
<1>1. row \in RunRow /\ row.pc = "crashed"
  BY DEF GuardInv, TypeOK, RunRow
<1>2. runs' = [runs EXCEPT ![r] = row]
  BY DEF Crash
<1> QED
  BY <1>1, <1>2, EndKeeps DEF Crash, Ended

-----------------------------------------------------------------------------
(* What a request may have done at its provider.                           *)
LEMMA ReachesCounts ==
  ASSUME GuardInv, NEW k \in Keys, NEW d \in Destinations, NEW reached \in BOOLEAN,
         Reaches(k, d, reached)
  PROVE  /\ delivered' \in [Keys -> [Destinations -> Nat]]
         /\ \A l \in Keys \ {k} : delivered'[l] = delivered[l]
         /\ \A e \in Destinations \ {d} : delivered'[k][e] = delivered[k][e]
         /\ delivered'[k][d] = IF reached THEN delivered[k][d] + 1 ELSE delivered[k][d]
BY DEF Reaches, GuardInv, TypeOK

(* A run that goes on sending, or fails, after a request.                  *)
LEMMA RequestKeepsInv ==
  ASSUME GuardInv, NEW r \in Runs, NEW d \in Destinations, NEW reached \in BOOLEAN,
         NEW row \in RunRow, runs[r].pc = "sending",
         Reaches(runs[r].key, d, reached),
         runs' = [runs EXCEPT ![r] = row], publications' = publications,
         row.pc \in Running, row.key = runs[r].key,
         row.pc = "sending" =>
            \A e \in Destinations :
               IF e \in row.left
               THEN row.tries[e] < Attempts[e] /\ delivered'[row.key][e] <= row.tries[e]
               ELSE delivered'[row.key][e] > 0
  PROVE  GuardInv'
<1> DEFINE k == runs[r].key
<1>1. /\ k \in Keys /\ publications[k].token = r /\ publications[k].status = "started"
  BY DEF GuardInv, OwnsRow, Running, Existing
<1>2. /\ delivered' \in [Keys -> [Destinations -> Nat]]
      /\ \A l \in Keys \ {k} : delivered'[l] = delivered[l]
  BY <1>1, ReachesCounts
<1>3. runs'[r] = row /\ \A s \in Runs \ {r} : runs'[s] = runs[s]
  BY DEF GuardInv, TypeOK
<1>4. TypeOK'
  BY <1>2 DEF GuardInv, TypeOK
<1>5. ASSUME NEW s \in Runs PROVE (OwnsRow(s) /\ CountsTries(s))'
  <2>1. CASE s = r
    BY <1>1, <1>3, <2>1 DEF OwnsRow, CountsTries, Existing
  <2>2. CASE s # r
    <3>1. OwnsRow(s) /\ CountsTries(s) /\ runs'[s] = runs[s]
      BY <1>3, <2>2 DEF GuardInv
    <3>2. runs[s].pc \in Running => runs[s].key \in Keys \ {k}
      BY <3>1, <2>2, OneRunPerKey DEF OwnsRow, Running
    <3> QED
      BY <3>1, <3>2, <1>2 DEF OwnsRow, CountsTries, Existing, Running
  <2> QED
    BY <2>1, <2>2
<1>6. (UnclaimedUndelivered /\ CompletedDelivered)'
  BY <1>1, <1>2 DEF GuardInv, UnclaimedUndelivered, CompletedDelivered, Existing
<1>7. ReportedCompleted'
  BY <1>3 DEF GuardInv, ReportedCompleted, Existing, Running
<1> QED
  BY <1>4, <1>5, <1>6, <1>7 DEF GuardInv

(* The row of a run at work and what its request counter says.             *)
LEMMA Sending ==
  ASSUME GuardInv, NEW r \in Runs, NEW d \in Destinations, Due(r, d)
  PROVE  /\ runs[r] \in RunRow /\ runs[r].pc = "sending" /\ runs[r].key \in Keys
         /\ d \in runs[r].left
         /\ runs[r].tries \in [Destinations -> Nat]
         /\ delivered[runs[r].key] \in [Destinations -> Nat]
         /\ publications[runs[r].key] = [status |-> "started", token |-> r]
         /\ \A e \in Destinations :
               IF e \in runs[r].left
               THEN /\ runs[r].tries[e] < Attempts[e]
                    /\ delivered[runs[r].key][e] <= runs[r].tries[e]
               ELSE delivered[runs[r].key][e] > 0
<1>1. OwnsRow(r) /\ CountsTries(r) /\ TypeOK /\ runs[r].pc = "sending"
  BY DEF GuardInv, Due
<1>2. runs[r].key \in Keys /\ publications[runs[r].key] \in Row
  BY <1>1 DEF OwnsRow, Running, TypeOK
<1> QED
  BY <1>1, <1>2 DEF Due, OwnsRow, CountsTries, TypeOK, Running, RunRow, Row, Existing

LEMMA AcknowledgedKeeps ==
  ASSUME GuardInv, NEW r \in Runs, NEW d \in Destinations, Acknowledged(r, d)
  PROVE  GuardInv'
<1> DEFINE row == [runs[r] EXCEPT !.left = @ \ {d}]
<1>1. Due(r, d) /\ Reaches(runs[r].key, d, TRUE) /\ publications' = publications
  BY DEF Acknowledged
<1>2. runs[r] \in RunRow /\ runs[r].pc = "sending"
  BY <1>1, Sending
<1>3. /\ row \in RunRow /\ row.pc = "sending" /\ row.key = runs[r].key
      /\ row.left = runs[r].left \ {d} /\ row.tries = runs[r].tries
  BY <1>2 DEF RunRow
<1>4. runs' = [runs EXCEPT ![r] = row]
  BY DEF Acknowledged
<1>5. runs[r].key \in Keys /\ delivered[runs[r].key] \in [Destinations -> Nat]
  BY <1>1, Sending
<1>6. /\ delivered'[runs[r].key][d] = delivered[runs[r].key][d] + 1
      /\ \A e \in Destinations \ {d} : delivered'[runs[r].key][e] = delivered[runs[r].key][e]
  <2>1. TRUE \in BOOLEAN
    OBVIOUS
  <2> QED
    BY <1>1, <1>5, <2>1, ReachesCounts
<1>7. \A e \in Destinations : IF e \in runs[r].left
         THEN runs[r].tries[e] < Attempts[e] /\ delivered[runs[r].key][e] <= runs[r].tries[e]
         ELSE delivered[runs[r].key][e] > 0
  BY <1>1, Sending
<1>8. delivered'[runs[r].key][d] > 0
  BY <1>5, <1>6
<1>9. ASSUME NEW e \in Destinations
      PROVE  IF e \in row.left
             THEN row.tries[e] < Attempts[e] /\ delivered'[row.key][e] <= row.tries[e]
             ELSE delivered'[row.key][e] > 0
  BY <1>3, <1>6, <1>7, <1>8
<1> QED
  BY <1>1, <1>2, <1>3, <1>4, <1>9, RequestKeepsInv DEF Running

LEMMA SendAgainKeeps ==
  ASSUME GuardInv, NEW r \in Runs, NEW d \in Destinations, NEW reached \in BOOLEAN,
         SendAgain(r, d, reached)
  PROVE  GuardInv'
<1> DEFINE tries == [runs[r].tries EXCEPT ![d] = @ + 1]
           row == [runs[r] EXCEPT !.tries = tries]
<1>1. /\ Due(r, d) /\ MoreTries(r, d) /\ Reaches(runs[r].key, d, reached)
      /\ publications' = publications
  BY DEF SendAgain
<1>2. runs[r] \in RunRow /\ runs[r].pc = "sending" /\ runs[r].tries \in [Destinations -> Nat]
  BY <1>1, Sending
<1>3. /\ row \in RunRow /\ row.pc = "sending" /\ row.key = runs[r].key
      /\ row.left = runs[r].left /\ row.tries = tries
  BY <1>2 DEF RunRow
<1>4. runs' = [runs EXCEPT ![r] = row]
  BY DEF SendAgain
<1>5. /\ tries[d] = runs[r].tries[d] + 1
      /\ \A e \in Destinations \ {d} : tries[e] = runs[r].tries[e]
  BY <1>2
<1>6. \A e \in Destinations : IF e \in runs[r].left
         THEN tries[e] < Attempts[e] /\ delivered'[runs[r].key][e] <= tries[e]
         ELSE delivered'[runs[r].key][e] > 0
  <2>1. runs[r].key \in Keys /\ delivered[runs[r].key] \in [Destinations -> Nat]
    BY <1>1, Sending
  <2>2. /\ delivered'[runs[r].key][d] \in Nat
        /\ delivered'[runs[r].key][d] <= delivered[runs[r].key][d] + 1
        /\ \A e \in Destinations \ {d} : delivered'[runs[r].key][e] = delivered[runs[r].key][e]
    BY <1>1, <2>1, ReachesCounts
  <2>3. Attempts \in [Destinations -> Nat] /\ tries[d] < Attempts[d] /\ d \in runs[r].left
    BY <1>1, <1>5, PublicationAssumption DEF MoreTries, Due
  <2>4. \A e \in Destinations : IF e \in runs[r].left
         THEN runs[r].tries[e] < Attempts[e] /\ delivered[runs[r].key][e] <= runs[r].tries[e]
         ELSE delivered[runs[r].key][e] > 0
    BY <1>1, Sending
  <2>5. delivered'[runs[r].key][d] <= tries[d]
    BY <1>2, <1>5, <2>1, <2>2, <2>3, <2>4
  <2> HIDE DEF tries
  <2> QED
    BY <1>5, <2>2, <2>3, <2>4, <2>5
<1> QED
  BY <1>1, <1>2, <1>3, <1>4, <1>6, RequestKeepsInv DEF Running

LEMMA RaisesKeeps ==
  ASSUME GuardInv, NEW r \in Runs, NEW d \in Destinations, NEW reached \in BOOLEAN,
         Raises(r, d, reached)
  PROVE  GuardInv'
<1> DEFINE row == [runs[r] EXCEPT !.pc = "failing"]
<1>1. Due(r, d) /\ Reaches(runs[r].key, d, reached) /\ publications' = publications
  BY DEF Raises
<1>2. runs[r] \in RunRow /\ runs[r].pc = "sending"
  BY <1>1, Sending
<1>3. row \in RunRow /\ row.pc = "failing" /\ row.key = runs[r].key
  BY <1>2 DEF RunRow, Running
<1>4. runs' = [runs EXCEPT ![r] = row]
  BY DEF Raises
<1> QED
  BY <1>1, <1>2, <1>3, <1>4, RequestKeepsInv DEF Running

-----------------------------------------------------------------------------
(* A run at its end that changes its own row: no other run at work looks   *)
(* at that row, and a completed row never changes.                         *)
LEMMA SettleKeeps ==
  ASSUME GuardInv, NEW r \in Runs, NEW row \in RunRow, NEW status,
         status \in {"completed", "uncertain"}, runs[r].pc \in Running, Owned(r),
         status = "completed" =>
            \A d \in Destinations : delivered[runs[r].key][d] > 0,
         SetStatus(r, status), runs' = [runs EXCEPT ![r] = row],
         row.key = runs[r].key,
         row.pc \in {"failing", "raised"} \/ (row.pc = "published" /\ status = "completed"),
         delivered' = delivered
  PROVE  GuardInv'
<1> DEFINE k == runs[r].key
           claim == [status |-> status, token |-> r]
<1>1. k \in Keys /\ publications[k] = [status |-> "started", token |-> r]
  BY DEF GuardInv, OwnsRow, Owned
<1>2. /\ publications'[k] = claim
      /\ \A l \in Keys \ {k} : publications'[l] = publications[l]
      /\ publications' \in [Keys -> Row]
  BY <1>1 DEF SetStatus, GuardInv, TypeOK, Row
<1>3. runs'[r] = row /\ \A s \in Runs \ {r} : runs'[s] = runs[s]
  BY DEF GuardInv, TypeOK
<1>4. TypeOK'
  BY <1>2 DEF GuardInv, TypeOK
<1>5. ASSUME NEW s \in Runs PROVE (OwnsRow(s) /\ CountsTries(s))'
  <2>1. CASE s = r
    BY <1>1, <1>2, <1>3, <2>1 DEF OwnsRow, CountsTries, Existing
  <2>2. CASE s # r
    <3>1. OwnsRow(s) /\ CountsTries(s) /\ runs'[s] = runs[s]
      BY <1>3, <2>2 DEF GuardInv
    <3>2. runs[s].pc \in Running => runs[s].key \in Keys \ {k}
      BY <3>1, <2>2, OneRunPerKey DEF OwnsRow
    <3> QED
      BY <3>1, <3>2, <1>2 DEF OwnsRow, CountsTries, Existing, Running
  <2> QED
    BY <2>1, <2>2
<1>6. (UnclaimedUndelivered /\ CompletedDelivered)'
  BY <1>1, <1>2 DEF GuardInv, UnclaimedUndelivered, CompletedDelivered, Existing
<1>7. ReportedCompleted'
  BY <1>1, <1>2, <1>3 DEF GuardInv, ReportedCompleted, Existing
<1> QED
  BY <1>4, <1>5, <1>6, <1>7 DEF GuardInv

LEMMA CompleteKeeps ==
  ASSUME GuardInv, NEW r \in Runs, NEW outcome \in {"published", "failing"},
         Complete(r, outcome)
  PROVE  GuardInv'
<1> DEFINE row == [runs[r] EXCEPT !.pc = outcome]
<1>1. runs[r] \in RunRow /\ runs[r].pc = "sending" /\ runs[r].left = {}
  BY DEF Complete, AllSent, GuardInv, TypeOK
<1>2. row \in RunRow /\ row.pc = outcome /\ row.key = runs[r].key
  BY <1>1 DEF RunRow, Running
<1>3. \A d \in Destinations : delivered[runs[r].key][d] > 0
  BY <1>1 DEF GuardInv, CountsTries
<1>4. /\ runs' = [runs EXCEPT ![r] = row] /\ Owned(r) /\ delivered' = delivered
      /\ SetStatus(r, "completed")
  BY DEF Complete
<1> QED
  BY <1>1, <1>2, <1>3, <1>4, SettleKeeps DEF Running

LEMMA MarkUncertainKeeps ==
  ASSUME GuardInv, NEW r \in Runs, MarkUncertain(r)
  PROVE  GuardInv'
<1> DEFINE row == [runs[r] EXCEPT !.pc = "raised"]
<1>1. runs[r] \in RunRow /\ runs[r].pc = "failing"
  BY DEF MarkUncertain, GuardInv, TypeOK
<1>2. row \in RunRow /\ row.pc = "raised" /\ row.key = runs[r].key
  BY <1>1 DEF RunRow
<1>3. runs' = [runs EXCEPT ![r] = row] /\ delivered' = delivered
  BY DEF MarkUncertain
<1>4. CASE Owned(r)
  <2>1. SetStatus(r, "uncertain")
    BY <1>4 DEF MarkUncertain
  <2> QED
    BY <1>1, <1>2, <1>3, <1>4, <2>1, SettleKeeps DEF Running
<1>5. CASE ~Owned(r)
  BY <1>2, <1>3, <1>5, EndKeeps DEF MarkUncertain, Ended
<1> QED
  BY <1>4, <1>5

LEMMA StepKeeps == GuardInv /\ [Next]_vars => GuardInv'
<1> SUFFICES ASSUME GuardInv, [Next]_vars PROVE GuardInv'
  OBVIOUS
<1>1. CASE UNCHANGED vars
  BY <1>1 DEF vars, GuardInv, TypeOK, OwnsRow, CountsTries, UnclaimedUndelivered,
       CompletedDelivered, ReportedCompleted, Existing
<1>2. ASSUME NEW r \in Runs, Run(r) PROVE GuardInv'
  <2>1. ASSUME NEW k \in Keys, Begin(r, k) \/ BeginAgain(r, k) PROVE GuardInv'
    BY <2>1, BeginKeeps, BeginAgainKeeps
  <2>2. ASSUME NEW d \in Destinations, Request(r, d) PROVE GuardInv'
    BY <2>2, AcknowledgedKeeps, SendAgainKeeps, RaisesKeeps DEF Request
  <2>3. ASSUME NEW outcome \in {"published", "failing"}, Complete(r, outcome)
        PROVE  GuardInv'
    BY <2>3, CompleteKeeps
  <2>4. CASE MarkUncertain(r)
    BY <2>4, MarkUncertainKeeps
  <2>5. CASE Crash(r)
    BY <2>5, CrashKeeps
  <2> QED
    BY <1>2, <2>1, <2>2, <2>3, <2>4, <2>5 DEF Run
<1> QED
  BY <1>1, <1>2 DEF Next

(* One claim per draft: whatever runs of the publish node overlap, fail or *)
(* die, the row says who may send and what was sent.                       *)
THEOREM GuardKept == Spec => []GuardInv
<1>1. Init => GuardInv
  BY InitGuardInv
<1>2. GuardInv /\ [Next]_vars => GuardInv'
  BY StepKeeps
<1> QED
  BY <1>1, <1>2, PTL DEF Spec

(* A run that reports a draft as published, sent or deduplicated, is right:*)
(* every enabled destination has it.                                       *)
THEOREM ReportsAreTrue == Spec => []ReportedIsDelivered
<1>1. GuardInv => ReportedIsDelivered
  BY DEF GuardInv, ReportedCompleted, CompletedDelivered, ReportedIsDelivered
<1> QED
  BY <1>1, GuardKept, PTL

-----------------------------------------------------------------------------
(* The refinement: a claim is the abstract attempt, a request that reaches *)
(* its provider a delivery, the two settlements are the abstract ones and  *)
(* everything else stutters.                                               *)
Stage(k) == IF Existing(k) = "none" THEN "new" ELSE Existing(k)
Stages == [k \in Keys |-> Stage(k)]

LEMMA InitRefines == Init => Guard!Init
BY DEF Init, Guard!Init, Existing, NoTries

LEMMA StutterRefines ==
  ASSUME UNCHANGED <<publications, delivered>>
  PROVE  UNCHANGED Guard!vars
BY DEF Guard!vars, Existing

LEMMA BeginRefines ==
  ASSUME GuardInv, NEW r \in Runs, NEW k \in Keys, Begin(r, k)
  PROVE  Guard!Attempt(k)
<1>1. /\ publications' = [publications EXCEPT ![k] = [status |-> "started", token |-> r]]
      /\ publications \in [Keys -> Row] /\ publications[k].status = "none"
      /\ delivered' = delivered
  BY DEF Begin, Existing, GuardInv, TypeOK
<1>2. /\ publications'[k].status = "started"
      /\ \A l \in Keys \ {k} : publications'[l].status = publications[l].status
  BY <1>1
<1>3. Stages' = [Stages EXCEPT ![k] = "started"] /\ Stages[k] = "new"
  BY <1>1, <1>2 DEF Stages, Stage, Existing
<1> QED
  BY <1>1, <1>3 DEF Guard!Attempt, Guard!Moves, Stages, Stage

LEMMA RequestRefines ==
  ASSUME GuardInv, NEW r \in Runs, NEW d \in Destinations, Request(r, d)
  PROVE  Guard!Deliver(runs[r].key, d) \/ UNCHANGED Guard!vars
<1> DEFINE k == runs[r].key
<1>1. PICK reached \in BOOLEAN : Due(r, d) /\ Reaches(k, d, reached) /\ publications' = publications
  BY DEF Request, Acknowledged, SendAgain, Raises
<1>2. /\ k \in Keys /\ publications[k].status = "started" /\ d \in runs[r].left
      /\ runs[r].tries[d] < Attempts[d] /\ delivered[k][d] <= runs[r].tries[d]
      /\ runs[r].tries[d] \in Nat /\ delivered[k][d] \in Nat /\ Attempts[d] \in Nat
  <2>1. /\ k \in Keys /\ d \in runs[r].left
        /\ runs[r].tries \in [Destinations -> Nat] /\ delivered[k] \in [Destinations -> Nat]
        /\ publications[k] = [status |-> "started", token |-> r]
    BY <1>1, Sending
  <2>2. runs[r].tries[d] < Attempts[d] /\ delivered[k][d] <= runs[r].tries[d]
    BY <1>1, <2>1, Sending
  <2>3. Attempts[d] \in Nat
    BY PublicationAssumption
  <2> QED
    BY <2>1, <2>2, <2>3
<1>3. CASE reached
  <2>1. delivered' = [delivered EXCEPT ![k][d] = @ + 1]
    BY <1>1, <1>3 DEF Reaches
  <2>2. Stages' = Stages /\ Stages[k] = "started"
    BY <1>1, <1>2 DEF Stages, Stage, Existing
  <2>3. delivered[k][d] < Attempts[d]
    BY <1>2
  <2> QED
    BY <2>1, <2>2, <2>3 DEF Guard!Deliver, Stages, Stage
<1>4. CASE ~reached
  <2>1. UNCHANGED <<publications, delivered>>
    BY <1>1, <1>4 DEF Reaches
  <2> QED
    BY <2>1, StutterRefines
<1> QED
  BY <1>3, <1>4

LEMMA SettleRefines ==
  ASSUME GuardInv, NEW r \in Runs, runs[r].key \in Keys, Owned(r),
         NEW status \in {"completed", "uncertain"}, SetStatus(r, status),
         delivered' = delivered
  PROVE  Guard!Moves(runs[r].key, "started", status)
<1> DEFINE k == runs[r].key
<1>1. /\ publications \in [Keys -> Row] /\ publications[k].status = "started"
      /\ publications' = [publications EXCEPT ![k].status = status]
  BY DEF GuardInv, TypeOK, Owned, SetStatus
<1>2. /\ publications'[k].status = status
      /\ \A l \in Keys \ {k} : publications'[l].status = publications[l].status
  BY <1>1 DEF Row
<1>3. Stages' = [Stages EXCEPT ![k] = status] /\ Stages[k] = "started"
  BY <1>1, <1>2 DEF Stages, Stage, Existing
<1> QED
  BY <1>3 DEF Guard!Moves, Stages, Stage

LEMMA CompleteRefines ==
  ASSUME GuardInv, NEW r \in Runs, NEW outcome \in {"published", "failing"},
         Complete(r, outcome)
  PROVE  Guard!Complete(runs[r].key)
<1>1. /\ runs[r].key \in Keys
      /\ \A d \in Destinations : delivered[runs[r].key][d] > 0
  BY DEF Complete, AllSent, GuardInv, OwnsRow, CountsTries, Running
<1> QED
  BY <1>1, SettleRefines DEF Complete, Guard!Complete

LEMMA MarkUncertainRefines ==
  ASSUME GuardInv, NEW r \in Runs, MarkUncertain(r)
  PROVE  (runs[r].key \in Keys /\ Guard!GiveUp(runs[r].key)) \/ UNCHANGED Guard!vars
<1>1. runs[r].key \in Keys /\ delivered' = delivered
  BY DEF MarkUncertain, GuardInv, OwnsRow, Running
<1> QED
  BY <1>1, SettleRefines, StutterRefines DEF MarkUncertain, Guard!GiveUp

LEMMA StepRefines == GuardInv /\ [Next]_vars => [Guard!Next]_(Guard!vars)
<1> SUFFICES ASSUME GuardInv, [Next]_vars PROVE [Guard!Next]_(Guard!vars)
  OBVIOUS
<1>1. CASE UNCHANGED vars
  BY <1>1, StutterRefines DEF vars
<1>2. ASSUME NEW r \in Runs, Run(r) PROVE Guard!Next \/ UNCHANGED Guard!vars
  <2>1. ASSUME NEW k \in Keys, Begin(r, k) PROVE Guard!Next
    BY <2>1, BeginRefines DEF Guard!Next
  <2>2. ASSUME NEW k \in Keys, BeginAgain(r, k) PROVE UNCHANGED Guard!vars
    BY <2>2, StutterRefines DEF BeginAgain
  <2>3. ASSUME NEW d \in Destinations, Request(r, d)
        PROVE  Guard!Next \/ UNCHANGED Guard!vars
    <3>1. runs[r].key \in Keys
      BY <2>3, Sending DEF Request, Acknowledged, SendAgain, Raises
    <3> QED
      BY <2>3, <3>1, RequestRefines DEF Guard!Next
  <2>4. ASSUME NEW outcome \in {"published", "failing"}, Complete(r, outcome)
        PROVE  Guard!Next
    <3>1. runs[r].key \in Keys
      BY <2>4 DEF Complete, AllSent, GuardInv, OwnsRow, Running
    <3> QED
      BY <2>4, <3>1, CompleteRefines DEF Guard!Next
  <2>5. ASSUME MarkUncertain(r) PROVE Guard!Next \/ UNCHANGED Guard!vars
    BY <2>5, MarkUncertainRefines DEF Guard!Next
  <2>6. ASSUME Crash(r) PROVE UNCHANGED Guard!vars
    BY <2>6, StutterRefines DEF Crash
  <2> QED
    BY <1>2, <2>1, <2>2, <2>3, <2>4, <2>5, <2>6 DEF Run
<1> QED
  BY <1>1, <1>2 DEF Next

(* The publish node, its table and the request loop implement the guard:   *)
(* one attempt per draft, at most Attempts[d] deliveries to destination d  *)
(* and only during it; at most one where the policy has a single attempt.  *)
THEOREM NodeImplementsGuard == Spec => GuardSpec
<1>1. Init => Guard!Init
  BY InitRefines
<1>2. GuardInv /\ [Next]_vars => [Guard!Next]_(Guard!vars)
  BY StepRefines
<1> QED
  BY <1>1, <1>2, GuardKept, PTL DEF Spec, GuardSpec, Guard!Spec
=============================================================================
