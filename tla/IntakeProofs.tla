---------------------------- MODULE IntakeProofs ----------------------------
(***************************************************************************)
(* What holds of Intake for any processes, requests, batches, limits and   *)
(* windows, and for any number of deliveries and failures.                 *)
(***************************************************************************)
EXTENDS Intake, TLAPS

-----------------------------------------------------------------------------
(* The inductive invariants.                                               *)

(* A process at work has a request and stands at an alert of its batch.    *)
WorkInv ==
    \A p \in Processes : at[p].pc # "free" =>
       /\ at[p].request \in Requests
       /\ at[p].next \in 1 .. Len(Batch[at[p].request])

(* The holder of the sequence row is the one that allocates, and the value *)
(* it has read is the sequence's.                                          *)
AllocInv ==
    \A p \in Processes : at[p].pc = "allocate" => lock = p /\ at[p].id = sequence

(* What a process is about to store, and what is behind it in its batch.   *)
IdOf(a) == IF Supplied[a] # 0 THEN Supplied[a] ELSE idMap[Key[a]]
BatchInv ==
    \A p \in Processes : at[p].pc # "free" =>
       /\ at[p].pc \in {"sequence", "allocate"} => Supplied[Alert(p)] = 0
       /\ at[p].pc = "enqueue" => at[p].id # 0 /\ at[p].id = IdOf(Alert(p))
       /\ \A i \in 1 .. at[p].next - 1 : events[Batch[at[p].request][i]] # 0

(* The rows of this window and the one before are the counts; a process    *)
(* that is about to count does so in one of the two.                       *)
CountInv ==
    /\ \A p \in Processes : at[p].pc \in {"select", "first"} =>
          at[p].now <= clock /\ WindowOf(clock) <= WindowOf(at[p].now) + 1
    /\ \A k \in LimitKeys, w \in Windows :
          /\ WindowOf(clock) <= w + 1 => counts[k][w] = passed[k][w]
          /\ passed[k][w] <= Limit[k]

(* A nonce has a row as long as its use counts.                            *)
NonceInv ==
    /\ \A p \in Processes : at[p].pc = "nonce" => at[p].now <= clock
    /\ \A i \in DOMAIN used :
          \/ nonces[used[i].request] >= used[i].read + ReplayWindow
          \/ clock > used[i].read + ReplayWindow

-----------------------------------------------------------------------------
(* A process that is at work has an alert at hand.                         *)
LEMMA AlertTyped ==
    ASSUME TypeOK, WorkInv, NEW p \in Processes, at[p].pc # "free"
    PROVE  /\ Request(p) \in Requests
           /\ Alert(p) \in Alerts
           /\ Key[Alert(p)] \in Keys
           /\ Supplied[Alert(p)] \in Nat
<1>1. at[p].request \in Requests /\ at[p].next \in 1 .. Len(Batch[at[p].request])
  BY DEF WorkInv
<1>2. Batch[at[p].request] \in Seq(Alerts)
  BY <1>1, IntakeAssumption DEF IntakeAssumption
<1>3. Batch[at[p].request][at[p].next] \in Alerts
  BY <1>1, <1>2
<1> QED
  BY <1>1, <1>3, IntakeAssumption DEF Request, Alert, Keys, IntakeAssumption

(* Later times have later windows.                                         *)
LEMMA WindowMonotone ==
    ASSUME NEW s \in Nat, NEW t \in Nat, s <= t
    PROVE  WindowOf(s) \in Nat /\ WindowOf(t) \in Nat /\ WindowOf(s) <= WindowOf(t)
<1> DEFINE R == RateWindow
<1>1. R \in Nat /\ R > 0
  BY IntakeAssumption DEF IntakeAssumption
<1>2. s \div R \in Nat /\ t \div R \in Nat
  BY <1>1
<1>3. s = R * (s \div R) + (s % R) /\ s % R >= 0
  BY <1>1
<1>4. t = R * (t \div R) + (t % R) /\ t % R < R
  BY <1>1
<1>5. s \div R <= t \div R
  <2>1. SUFFICES ASSUME s \div R >= (t \div R) + 1 PROVE FALSE
    BY <1>2
  <2>2. R * (s \div R) >= R * ((t \div R) + 1)
    BY <1>1, <1>2, <2>1
  <2>3. R * ((t \div R) + 1) = R * (t \div R) + R
    BY <1>1, <1>2
  <2> QED
    BY <1>1, <1>2, <1>3, <1>4, <2>2, <2>3
<1> QED
  BY <1>2, <1>5 DEF WindowOf

LEMMA WindowTyped ==
    ASSUME NEW t \in 0 .. MaxTime
    PROVE  WindowOf(t) \in Windows
<1>1. t \in Nat /\ MaxTime \in Nat /\ t <= MaxTime
  BY IntakeAssumption DEF IntakeAssumption
<1> QED
  BY <1>1, WindowMonotone DEF Windows

-----------------------------------------------------------------------------
(* Types.                                                                  *)
Typed == TypeOK /\ WorkInv

LEMMA InitTyped == Init => Typed
<1> SUFFICES ASSUME Init PROVE Typed
  OBVIOUS
<1>1. counts \in [LimitKeys -> [Windows -> Nat]]
  BY DEF Init
<1>2. 0 \in 0 .. MaxTime /\ FirstId \in Nat \ {0}
  BY IntakeAssumption DEF IntakeAssumption
<1>3. TypeOK
  BY <1>1, <1>2 DEF Init, TypeOK, Free, Steps
<1>4. WorkInv
  BY DEF Init, WorkInv, Free
<1> QED
  BY <1>3, <1>4 DEF Typed

(* A step of one process, which leaves the others where they are.          *)
LEMMA WorkStep ==
    ASSUME Typed, NEW p \in Processes,
           NEW w \in [pc : Steps, request : Requests \cup {None},
                      by : {"global", "caller"}, now : 0 .. MaxTime,
                      next : Nat \ {0}, id : Nat],
           at' = [at EXCEPT ![p] = w],
           w.pc # "free" => w.request \in Requests /\ w.next \in 1 .. Len(Batch[w.request])
    PROVE  /\ at' \in [Processes -> [pc : Steps, request : Requests \cup {None},
                                    by : {"global", "caller"}, now : 0 .. MaxTime,
                                    next : Nat \ {0}, id : Nat]]
           /\ WorkInv'
BY DEF Typed, TypeOK, WorkInv

(* What the limiter and the batch do to a process at work.                 *)
LEMMA CountedTyped ==
    ASSUME Typed, NEW p \in Processes, at[p].pc # "free"
    PROVE  WindowOf(at[p].now) \in Windows /\ LimitKey(p) \in LimitKeys
<1>1. at[p].now \in 0 .. MaxTime /\ at[p].request \in Requests
  BY DEF Typed, TypeOK, WorkInv
<1> QED
  BY <1>1, WindowTyped DEF LimitKey, LimitKeys, Callers, Request

LEMMA SweptTyped ==
    ASSUME TypeOK, NEW window
    PROVE  Swept(window) \in [LimitKeys -> [Windows -> Nat]]
BY DEF Swept, TypeOK

LEMMA LetThroughTyped ==
    ASSUME Typed, NEW p \in Processes, at[p].pc # "free",
           NEW rows \in [LimitKeys -> [Windows -> Nat]], NEW window \in Windows,
           LetThrough(p, rows, window)
    PROVE  /\ at' \in [Processes -> [pc : Steps, request : Requests \cup {None},
                                    by : {"global", "caller"}, now : 0 .. MaxTime,
                                    next : Nat \ {0}, id : Nat]]
           /\ WorkInv'
           /\ counts' \in [LimitKeys -> [Windows -> Nat]]
           /\ passed' \in [LimitKeys -> [Windows -> Nat]]
<1> DEFINE Work == [pc : Steps, request : Requests \cup {None},
                    by : {"global", "caller"}, now : 0 .. MaxTime,
                    next : Nat \ {0}, id : Nat]
<1>z. 0 \in 0 .. MaxTime /\ LimitKey(p) \in LimitKeys
  BY CountedTyped, IntakeAssumption DEF IntakeAssumption
<1>0. /\ at \in [Processes -> Work] /\ passed \in [LimitKeys -> [Windows -> Nat]]
      /\ at[p].request \in Requests /\ at[p].next \in 1 .. Len(Batch[at[p].request])
      /\ LimitKey(p) \in LimitKeys /\ 0 \in 0 .. MaxTime
  BY <1>z DEF Typed, TypeOK, WorkInv
<1>1. PICK l \in LimitKeys : l = LimitKey(p)
  BY <1>0
<1>2. /\ counts' = [rows EXCEPT ![l][window] = rows[l][window] + 1]
      /\ passed' = [passed EXCEPT ![l][window] = passed[l][window] + 1]
  BY <1>1 DEF LetThrough
<1>3. counts' \in [LimitKeys -> [Windows -> Nat]] /\ passed' \in [LimitKeys -> [Windows -> Nat]]
  BY <1>0, <1>2
<1>4. PICK w \in Work : /\ at' = [at EXCEPT ![p] = w]
                        /\ w.pc = "free" \/ (w.request = at[p].request /\ w.next = at[p].next)
  <2>1. CASE Ends(p)
    <3>1. Free \in Work /\ Free.pc = "free"
      BY <1>0 DEF Free, Steps
    <3> QED
      BY <2>1, <3>1 DEF Ends
  <2>2. CASE at' = [at EXCEPT ![p].by = "caller", ![p].pc = "limit", ![p].now = 0]
    <3> DEFINE v == [at[p] EXCEPT !.by = "caller", !.pc = "limit", !.now = 0]
    <3>1. v \in Work /\ v.request = at[p].request /\ v.next = at[p].next
      BY <1>0 DEF Steps
    <3>2. at' = [at EXCEPT ![p] = v]
      BY <1>0, <2>2
    <3> QED
      BY <3>1, <3>2
  <2>3. CASE at' = [at EXCEPT ![p].pc = "alert", ![p].now = 0]
    <3> DEFINE v == [at[p] EXCEPT !.pc = "alert", !.now = 0]
    <3>1. v \in Work /\ v.request = at[p].request /\ v.next = at[p].next
      BY <1>0 DEF Steps
    <3>2. at' = [at EXCEPT ![p] = v]
      BY <1>0, <2>3
    <3> QED
      BY <3>1, <3>2
  <2> QED
    BY <2>1, <2>2, <2>3 DEF LetThrough
<1> QED
  BY <1>0, <1>3, <1>4, WorkStep

LEMMA OnwardTyped ==
    ASSUME Typed, NEW p \in Processes, at[p].pc # "free", Onward(p)
    PROVE  /\ at' \in [Processes -> [pc : Steps, request : Requests \cup {None},
                                    by : {"global", "caller"}, now : 0 .. MaxTime,
                                    next : Nat \ {0}, id : Nat]]
           /\ WorkInv'
           /\ answered' \subseteq Requests
<1> DEFINE Work == [pc : Steps, request : Requests \cup {None},
                    by : {"global", "caller"}, now : 0 .. MaxTime,
                    next : Nat \ {0}, id : Nat]
<1>0. /\ at \in [Processes -> Work] /\ answered \subseteq Requests
      /\ at[p].request \in Requests /\ at[p].next \in 1 .. Len(Batch[at[p].request])
      /\ Batch[at[p].request] \in Seq(Alerts) /\ 0 \in 0 .. MaxTime
  BY IntakeAssumption DEF Typed, TypeOK, WorkInv, IntakeAssumption
<1>1. CASE Ends(p) /\ answered' = answered \cup {Request(p)}
  <2>1. Free \in Work /\ Free.pc = "free"
    BY <1>0 DEF Free, Steps
  <2> QED
    BY <1>0, <1>1, <2>1, WorkStep DEF Ends, Request
<1>2. CASE /\ at[p].next # Len(Batch[Request(p)])
           /\ at' = [at EXCEPT ![p].next = at[p].next + 1, ![p].pc = "alert", ![p].id = 0]
           /\ UNCHANGED answered
  <2> DEFINE v == [at[p] EXCEPT !.next = at[p].next + 1, !.pc = "alert", !.id = 0]
  <2>0. at[p] \in Work /\ at[p].next + 1 \in Nat \ {0} /\ "alert" \in Steps /\ 0 \in Nat
    BY <1>0 DEF Steps
  <2>1. v \in Work /\ v.request = at[p].request /\ v.next = at[p].next + 1
    BY <2>0
  <2>2. at' = [at EXCEPT ![p] = v]
    BY <1>0, <1>2
  <2>3. Len(Batch[at[p].request]) \in Nat
    BY <1>0
  <2>4. v.next \in 1 .. Len(Batch[at[p].request])
    BY <1>0, <1>2, <2>1, <2>3 DEF Request
  <2> HIDE DEF v
  <2> QED
    BY <1>0, <1>2, <2>1, <2>2, <2>4, WorkStep
<1> QED
  BY <1>1, <1>2 DEF Onward

LEMMA TypedStep == Typed /\ [Next]_vars => Typed'
<1> SUFFICES ASSUME Typed, [Next]_vars PROVE Typed'
  OBVIOUS
<1> DEFINE Work == [pc : Steps, request : Requests \cup {None},
                    by : {"global", "caller"}, now : 0 .. MaxTime,
                    next : Nat \ {0}, id : Nat]
<1>t. TypeOK /\ WorkInv
  BY DEF Typed
<1>f. Free \in Work
  <2>1. 0 \in 0 .. MaxTime
    BY IntakeAssumption DEF IntakeAssumption
  <2> QED
    BY <2>1 DEF Free, Steps
<1>e. ASSUME NEW p \in Processes, Ends(p)
      PROVE  at' \in [Processes -> Work] /\ WorkInv'
  BY <1>e, <1>f, WorkStep DEF Ends, Free
<1>g. ASSUME NEW p \in Processes, NEW pc \in Steps, Goes(p, pc), at[p].pc # "free"
      PROVE  at' \in [Processes -> Work] /\ WorkInv'
  <2> DEFINE w == [at[p] EXCEPT !.pc = pc]
  <2>1. w \in Work /\ w.request = at[p].request /\ w.next = at[p].next
    BY <1>t DEF TypeOK
  <2>2. at' = [at EXCEPT ![p] = w]
    BY <1>g, <1>t DEF Goes, TypeOK
  <2> QED
    BY <1>t, <1>g, <2>1, <2>2, WorkStep DEF WorkInv
<1>1. ASSUME NEW p \in Processes, NEW r \in Requests, Arrive(p, r) PROVE Typed'
  <2> DEFINE w == [Free EXCEPT !.pc = "nonce", !.request = r, !.now = clock]
  <2>1. 1 \in 1 .. Len(Batch[r])
    <3>1. Batch[r] \in Seq(Alerts) /\ Batch[r] # <<>>
      BY IntakeAssumption DEF IntakeAssumption
    <3> QED
      BY <3>1
  <2>a. clock \in 0 .. MaxTime /\ "nonce" \in Steps /\ Free.next = 1
    BY <1>t DEF TypeOK, Free, Steps
  <2>2. w \in Work /\ w.request = r /\ w.next = 1
    BY <1>f, <2>a
  <2>3. at' \in [Processes -> Work] /\ WorkInv'
    BY <1>1, <2>1, <2>2, WorkStep DEF Arrive
  <2> QED
    BY <1>1, <1>t, <2>3 DEF Arrive, TypeOK, Typed, tables, history
<1>2. ASSUME NEW p \in Processes, RecordNonce(p) PROVE Typed'
  <2> DEFINE r == at[p].request
             w == [at[p] EXCEPT !.pc = "limit", !.now = 0]
  <2>0. r \in Requests /\ at[p].next \in 1 .. Len(Batch[r]) /\ at[p] \in Work
    BY <1>2, <1>t DEF RecordNonce, WorkInv, TypeOK
  <2>1. w \in Work /\ w.request = r /\ w.next = at[p].next
    BY <2>0, <1>f DEF Steps, Free
  <2>2. CASE Ends(p) /\ UNCHANGED <<nonces, used>>
    BY <1>2, <1>t, <1>e, <2>2 DEF RecordNonce, TypeOK, Typed
  <2>3. CASE ~(Ends(p) /\ UNCHANGED <<nonces, used>>)
    <3>1. /\ at' = [at EXCEPT ![p].pc = "limit", ![p].now = 0]
          /\ used' = Append(used, [request |-> r, read |-> at[p].now, stored |-> clock])
          /\ nonces' = [[n \in Requests |-> IF Outlived(nonces[n], at[p].now) THEN -1
                                            ELSE nonces[n]]
                          EXCEPT ![r] = at[p].now + ReplayWindow]
      BY <1>2, <2>3 DEF RecordNonce, Request
    <3>2. at' = [at EXCEPT ![p] = w]
      BY <3>1, <1>t DEF TypeOK
    <3>3. at' \in [Processes -> Work] /\ WorkInv'
      BY <2>0, <2>1, <3>2, WorkStep
    <3>4. nonces' \in [Requests -> Int]
      <4>1. at[p].now + ReplayWindow \in Int
        BY <2>0, IntakeAssumption DEF IntakeAssumption
      <4> QED
        BY <3>1, <4>1, <2>0, <1>t DEF TypeOK
    <3>5. used' \in Seq([request : Requests, read : 0 .. MaxTime, stored : 0 .. MaxTime])
      BY <3>1, <2>0, <1>t DEF TypeOK
    <3> QED
      BY <1>2, <1>t, <3>3, <3>4, <3>5 DEF RecordNonce, TypeOK, Typed
  <2> QED
    BY <2>2, <2>3
<1>3. ASSUME NEW p \in Processes, ReadClock(p) PROVE Typed'
  <2> DEFINE w == [at[p] EXCEPT !.now = clock, !.pc = "select"]
  <2>1. w \in Work /\ w.request = at[p].request /\ w.next = at[p].next
    BY <1>t DEF TypeOK, Steps
  <2>2. at' = [at EXCEPT ![p] = w]
    BY <1>3, <1>t DEF ReadClock, TypeOK
  <2>3. at' \in [Processes -> Work] /\ WorkInv'
    BY <1>3, <1>t, <2>1, <2>2, WorkStep DEF ReadClock, WorkInv
  <2> QED
    BY <1>3, <1>t, <2>3 DEF ReadClock, TypeOK, Typed, tables, history
<1>4. ASSUME NEW p \in Processes, SelectCount(p) PROVE Typed'
  <2>0. at[p].pc = "select" /\ at[p] \in Work /\ WindowOf(at[p].now) \in Windows
        /\ LimitKey(p) \in LimitKeys /\ at[p].pc # "free"
    BY <1>4, <1>t, CountedTyped DEF SelectCount, TypeOK
  <2>1. Swept(WindowOf(at[p].now)) \in [LimitKeys -> [Windows -> Nat]]
    BY <1>t, SweptTyped
  <2>2. CASE Ends(p) /\ counts' = Swept(WindowOf(at[p].now)) /\ UNCHANGED passed
    BY <1>4, <1>t, <1>e, <2>1, <2>2 DEF SelectCount, TypeOK, Typed
  <2>3. CASE LetThrough(p, Swept(WindowOf(at[p].now)), WindowOf(at[p].now))
    <3>1. at' \in [Processes -> Work] /\ WorkInv' /\ counts' \in [LimitKeys -> [Windows -> Nat]]
          /\ passed' \in [LimitKeys -> [Windows -> Nat]]
      BY <1>t, <2>0, <2>1, <2>3, LetThroughTyped DEF Typed
    <3> QED
      BY <1>4, <1>t, <3>1 DEF SelectCount, TypeOK, Typed
  <2>4. CASE Goes(p, "first") /\ UNCHANGED <<counts, passed>>
    <3>1. at' \in [Processes -> Work] /\ WorkInv'
      BY <1>g, <2>0, <2>4 DEF Steps
    <3> QED
      BY <1>4, <1>t, <2>4, <3>1 DEF SelectCount, TypeOK, Typed
  <2> QED
    BY <1>4, <2>2, <2>3, <2>4 DEF SelectCount
<1>5. ASSUME NEW p \in Processes, InsertCount(p) PROVE Typed'
  <2>0. at[p].pc = "first" /\ at[p] \in Work /\ WindowOf(at[p].now) \in Windows
        /\ LimitKey(p) \in LimitKeys /\ at[p].pc # "free"
    BY <1>5, <1>t, CountedTyped DEF InsertCount, TypeOK
  <2>1. Swept(WindowOf(at[p].now)) \in [LimitKeys -> [Windows -> Nat]]
    BY <1>t, SweptTyped
  <2>2. CASE Ends(p) /\ UNCHANGED <<counts, passed>>
    BY <1>5, <1>t, <1>e, <2>2 DEF InsertCount, TypeOK, Typed
  <2>3. CASE LetThrough(p, Swept(WindowOf(at[p].now)), WindowOf(at[p].now))
    <3>1. at' \in [Processes -> Work] /\ WorkInv' /\ counts' \in [LimitKeys -> [Windows -> Nat]]
          /\ passed' \in [LimitKeys -> [Windows -> Nat]]
      BY <1>t, <2>0, <2>1, <2>3, LetThroughTyped DEF Typed
    <3> QED
      BY <1>5, <1>t, <3>1 DEF InsertCount, TypeOK, Typed
  <2> QED
    BY <1>5, <2>2, <2>3 DEF InsertCount
<1>6. ASSUME NEW p \in Processes, LookUp(p) PROVE Typed'
  <2> DEFINE a == Alert(p)
             known == IF Supplied[a] # 0 THEN Supplied[a] ELSE idMap[Key[a]]
  <2>0. at[p].pc = "alert" /\ at[p].pc # "free" /\ at[p] \in Work
    BY <1>6, <1>t DEF LookUp, TypeOK
  <2>1. known \in Nat
    BY <1>t, <2>0, AlertTyped DEF TypeOK
  <2>2. at' \in [Processes -> Work] /\ WorkInv'
    <3>1. CASE Ends(p)
      BY <1>e, <3>1
    <3>2. CASE at' = [at EXCEPT ![p].id = known, ![p].pc = "enqueue"]
      <4> DEFINE w == [at[p] EXCEPT !.id = known, !.pc = "enqueue"]
      <4> HIDE DEF known
      <4>1. w \in Work /\ w.request = at[p].request /\ w.next = at[p].next
        BY <2>0, <2>1 DEF Steps
      <4>2. at' = [at EXCEPT ![p] = w]
        BY <3>2, <1>t DEF TypeOK
      <4> QED
        BY <1>t, <2>0, <4>1, <4>2, WorkStep DEF WorkInv
    <3>3. CASE Goes(p, "sequence")
      BY <1>g, <2>0, <3>3 DEF Steps
    <3> QED
      BY <1>6, <3>1, <3>2, <3>3 DEF LookUp
  <2> QED
    BY <1>6, <1>t, <2>2 DEF LookUp, TypeOK, Typed, tables, history
<1>7. ASSUME NEW p \in Processes, LockSequence(p) PROVE Typed'
  <2> DEFINE w == [at[p] EXCEPT !.id = sequence, !.pc = "allocate"]
  <2>0. at[p].pc = "sequence" /\ at[p] \in Work
    BY <1>7, <1>t DEF LockSequence, TypeOK
  <2>1. w \in Work /\ w.request = at[p].request /\ w.next = at[p].next
    BY <1>t, <2>0 DEF TypeOK, Steps
  <2>2. at' = [at EXCEPT ![p] = w]
    BY <1>7, <1>t DEF LockSequence, TypeOK
  <2>3. at' \in [Processes -> Work] /\ WorkInv'
    BY <1>t, <2>0, <2>1, <2>2, WorkStep DEF WorkInv
  <2> QED
    BY <1>7, <1>t, <2>3 DEF LockSequence, TypeOK, Typed, history
<1>8. ASSUME NEW p \in Processes, Allocate(p) PROVE Typed'
  <2> DEFINE k0 == Key[Alert(p)]
             w == [at[p] EXCEPT !.id = idMap[k0], !.pc = "enqueue"]
  <2>0. at[p].pc = "allocate" /\ at[p].pc # "free" /\ at[p] \in Work
    BY <1>8, <1>t DEF Allocate, TypeOK
  <2>k. k0 \in Keys
    BY <1>t, <2>0, AlertTyped
  <2> HIDE DEF k0
  <2>1. CASE /\ at' = [at EXCEPT ![p].id = idMap[k0], ![p].pc = "enqueue"]
             /\ UNCHANGED <<idMap, sequence>>
    <3>1. w \in Work /\ w.request = at[p].request /\ w.next = at[p].next
      BY <1>t, <2>0, <2>k DEF TypeOK, Steps
    <3>2. at' = [at EXCEPT ![p] = w]
      BY <2>1, <1>t DEF TypeOK
    <3>3. at' \in [Processes -> Work] /\ WorkInv'
      BY <1>t, <2>0, <3>1, <3>2, WorkStep DEF WorkInv
    <3> QED
      BY <1>8, <1>t, <2>1, <3>3 DEF Allocate, TypeOK, Typed, history
  <2>2. CASE /\ sequence' = at[p].id + 1 /\ idMap' = [idMap EXCEPT ![k0] = at[p].id]
             /\ Goes(p, "enqueue")
    <3>1. at' \in [Processes -> Work] /\ WorkInv'
      BY <1>g, <2>0, <2>2 DEF Steps
    <3>2. at[p].id \in Nat /\ idMap \in [Keys -> Nat]
      BY <1>t, <2>0 DEF TypeOK
    <3> DEFINE n == at[p].id
    <3> HIDE DEF n
    <3>3. idMap' \in [Keys -> Nat] /\ sequence' \in Nat \ {0}
      <4>1. n \in Nat /\ sequence' = n + 1 /\ idMap' = [idMap EXCEPT ![k0] = n]
        BY <2>2, <3>2 DEF n
      <4>2. sequence' \in Nat \ {0}
        BY <4>1
      <4>3. idMap' \in [Keys -> Nat]
        BY <3>2, <4>1
      <4> QED
        BY <4>2, <4>3
    <3> QED
      BY <1>8, <1>t, <3>1, <3>3 DEF Allocate, TypeOK, Typed, history
  <2>3. CASE Goes(p, "duplicate") /\ UNCHANGED <<idMap, sequence>>
    <3>1. at' \in [Processes -> Work] /\ WorkInv'
      BY <1>g, <2>0, <2>3 DEF Steps
    <3> QED
      BY <1>8, <1>t, <2>3, <3>1 DEF Allocate, TypeOK, Typed, history
  <2> QED
    BY <1>8, <2>1, <2>2, <2>3 DEF Allocate, k0
<1>9. ASSUME NEW p \in Processes, Enqueue(p) PROVE Typed'
  <2>0. at[p].pc = "enqueue" /\ at[p].pc # "free" /\ at[p] \in Work
    BY <1>9, <1>t DEF Enqueue, TypeOK
  <2>1. /\ at' \in [Processes -> Work] /\ WorkInv' /\ answered' \subseteq Requests
    <3>1. CASE Onward(p)
      BY <1>t, <2>0, <3>1, OnwardTyped DEF Typed
    <3>2. CASE QueueFull(p)
      BY <1>t, <1>e, <3>2 DEF QueueFull, TypeOK
    <3> QED
      BY <1>9, <3>1, <3>2 DEF Enqueue
  <2>2. events' \in [Alerts -> Nat]
    BY <1>9, <1>t, <2>0 DEF Enqueue, TypeOK
  <2> QED
    BY <1>9, <1>t, <2>1, <2>2 DEF Enqueue, TypeOK, Typed
<1>10. ASSUME NEW p \in Processes, Fail(p) PROVE Typed'
  <2>1. at' \in [Processes -> Work] /\ WorkInv' /\ lock' \in Processes \cup {None}
    BY <1>10, <1>t, <1>e DEF Fail, TypeOK
  <2> QED
    BY <1>10, <1>t, <2>1 DEF Fail, TypeOK, Typed, history
<1>11. CASE Tick
  <2>1. clock' \in 0 .. MaxTime
    BY <1>11, <1>t, IntakeAssumption DEF Tick, TypeOK, IntakeAssumption
  <2> QED
    BY <1>11, <1>t, <2>1 DEF Tick, TypeOK, WorkInv, Typed, tables, history
<1>12. CASE UNCHANGED vars
  BY <1>12, <1>t DEF vars, TypeOK, WorkInv, Typed, tables, history
<1> QED
  BY <1>1, <1>2, <1>3, <1>4, <1>5, <1>6, <1>7, <1>8, <1>9, <1>10, <1>11, <1>12
  DEF Next, Handle

(* Every variable has its type (Intake.TypeOK): counters are natural, ids  *)
(* are of the map or the sequence, and a process is at a known step.       *)
THEOREM TypeCorrect == Spec => []TypeOK
<1>1. Typed => TypeOK
  BY DEF Typed
<1> QED
  BY <1>1, InitTyped, TypedStep, PTL DEF Spec

-----------------------------------------------------------------------------
(* A step moves one process, and which step it was shows in where it goes. *)
LEMMA StepMoves ==
    ASSUME Typed, NEW p \in Processes,
           (\E r \in Requests : Arrive(p, r)) \/ Handle(p) \/ Fail(p)
    PROVE  /\ \A q \in Processes : q # p => at'[q] = at[q]
           /\ LockSequence(p) \/ at'[p].pc # "allocate"
           /\ Allocate(p) \/ at'[p].pc # "duplicate"
<1>t. /\ at \in [Processes -> [pc : Steps, request : Requests \cup {None},
                              by : {"global", "caller"}, now : 0 .. MaxTime,
                              next : Nat \ {0}, id : Nat]]
  BY DEF Typed, TypeOK
<1>e. Free.pc = "free"
  BY DEF Free
<1>1. ASSUME NEW r \in Requests, Arrive(p, r)
      PROVE  (\A q \in Processes : q # p => at'[q] = at[q])
             /\ at'[p].pc \notin {"allocate", "duplicate"}
  BY <1>1, <1>t DEF Arrive, Free
<1>2. ASSUME RecordNonce(p)
      PROVE  (\A q \in Processes : q # p => at'[q] = at[q])
             /\ at'[p].pc \notin {"allocate", "duplicate"}
  BY <1>2, <1>t, <1>e DEF RecordNonce, Ends
<1>3. ASSUME ReadClock(p)
      PROVE  (\A q \in Processes : q # p => at'[q] = at[q])
             /\ at'[p].pc \notin {"allocate", "duplicate"}
  BY <1>3, <1>t DEF ReadClock
<1>4. ASSUME NEW rows, NEW window, LetThrough(p, rows, window)
      PROVE  (\A q \in Processes : q # p => at'[q] = at[q])
             /\ at'[p].pc \notin {"allocate", "duplicate"}
  BY <1>4, <1>t, <1>e DEF LetThrough, Ends
<1>5. ASSUME Ends(p)
      PROVE  (\A q \in Processes : q # p => at'[q] = at[q])
             /\ at'[p].pc \notin {"allocate", "duplicate"}
  BY <1>5, <1>t, <1>e DEF Ends
<1>6. ASSUME SelectCount(p) \/ InsertCount(p)
      PROVE  (\A q \in Processes : q # p => at'[q] = at[q])
             /\ at'[p].pc \notin {"allocate", "duplicate"}
  <2>1. CASE Goes(p, "first")
    BY <2>1, <1>t DEF Goes
  <2> QED
    BY <1>4, <1>5, <1>6, <2>1 DEF SelectCount, InsertCount
<1>7. ASSUME LookUp(p)
      PROVE  (\A q \in Processes : q # p => at'[q] = at[q])
             /\ at'[p].pc \notin {"allocate", "duplicate"}
  BY <1>7, <1>t, <1>5 DEF LookUp, Goes
<1>8. ASSUME LockSequence(p)
      PROVE  (\A q \in Processes : q # p => at'[q] = at[q]) /\ at'[p].pc = "allocate"
  BY <1>8, <1>t DEF LockSequence
<1>9. ASSUME Allocate(p)
      PROVE  (\A q \in Processes : q # p => at'[q] = at[q]) /\ at'[p].pc # "allocate"
  BY <1>9, <1>t DEF Allocate, Goes
<1>10. ASSUME Enqueue(p)
      PROVE  (\A q \in Processes : q # p => at'[q] = at[q])
             /\ at'[p].pc \notin {"allocate", "duplicate"}
  BY <1>10, <1>t, <1>5 DEF Enqueue, Onward, QueueFull
<1>11. Fail(p) => Ends(p)
  BY DEF Fail
<1> QED
  BY <1>1, <1>2, <1>3, <1>5, <1>6, <1>7, <1>8, <1>9, <1>10, <1>11 DEF Handle

-----------------------------------------------------------------------------
(* Incident ids.                                                           *)
IdsInv == IdsConverge /\ AllocInv

LEMMA InitIds == Init => IdsInv
<1> SUFFICES ASSUME Init PROVE IdsInv
  OBVIOUS
<1>1. FirstId \in Nat /\ FirstId > 0
  BY IntakeAssumption DEF IntakeAssumption
<1>2. \A p \in Processes : at[p].pc = "free"
  BY DEF Init, Free
<1> QED
  BY <1>1, <1>2 DEF Init, IdsInv, IdsConverge, AllocInv

LEMMA IdsStep == Typed /\ IdsInv /\ [Next]_vars => IdsInv'
<1> SUFFICES ASSUME Typed, IdsInv, [Next]_vars PROVE IdsInv'
  OBVIOUS
<1>t. /\ idMap \in [Keys -> Nat] /\ sequence \in Nat \ {0} /\ None \notin Processes
      /\ \A p \in Processes : at[p].pc = "allocate" => at[p].id = sequence
      /\ at \in [Processes -> [pc : Steps, request : Requests \cup {None},
                              by : {"global", "caller"}, now : 0 .. MaxTime,
                              next : Nat \ {0}, id : Nat]]
  BY IntakeAssumption DEF Typed, TypeOK, IntakeAssumption, IdsInv, AllocInv
<1>1. ASSUME NEW p \in Processes, LockSequence(p) PROVE IdsInv'
  <2>1. \A q \in Processes : q # p => at'[q] = at[q]
    BY <1>1, StepMoves DEF Handle
  <2>2. at'[p].pc = "allocate" /\ at'[p].id = sequence /\ lock' = p /\ lock = None
        /\ UNCHANGED <<idMap, sequence>>
    BY <1>1, <1>t DEF LockSequence, SequenceFree
  <2>3. AllocInv'
    BY <1>t, <2>1, <2>2 DEF IdsInv, AllocInv
  <2>4. IdsConverge'
    BY <1>t, <2>1, <2>2 DEF IdsInv, IdsConverge
  <2> QED
    BY <2>3, <2>4 DEF IdsInv
<1>2. ASSUME NEW p \in Processes, Allocate(p) PROVE IdsInv'
  <2> DEFINE key == Key[Alert(p)]
  <2>0. at[p].pc = "allocate" /\ at[p].id = sequence /\ key \in Keys
    BY <1>2, <1>t, AlertTyped DEF Allocate, Typed
  <2>1. \A q \in Processes : q # p => at'[q] = at[q] /\ at[q].pc # "allocate"
    BY <1>2, <2>0, StepMoves DEF Handle, IdsInv, AllocInv
  <2>2. at'[p].pc # "allocate"
    BY <1>2, <1>t, StepMoves, <2>0 DEF Handle, LockSequence
  <2>3. AllocInv'
    BY <2>1, <2>2 DEF AllocInv
  <2>4. IdsConverge'
    <3> HIDE DEF key
    <3>1. CASE at'[p].pc = "enqueue" /\ UNCHANGED <<idMap, sequence>>
      BY <2>1, <3>1 DEF IdsInv, IdsConverge
    <3>2. CASE /\ at'[p].pc = "enqueue" /\ sequence' = sequence + 1
               /\ idMap' = [idMap EXCEPT ![key] = sequence]
      <4>1. \A k \in Keys : idMap[k] < sequence
        BY DEF IdsInv, IdsConverge
      <4>2. \A k \in Keys : idMap'[k] = IF k = key THEN sequence ELSE idMap[k]
        BY <1>t, <2>0, <3>2
      <4>3. \A k \in Keys : idMap'[k] < sequence'
        BY <1>t, <3>2, <4>1, <4>2
      <4>4. \A k, l \in Keys : (idMap'[k] # 0 /\ idMap'[k] = idMap'[l]) => k = l
        BY <1>t, <4>1, <4>2 DEF IdsInv, IdsConverge
      <4>5. \A q \in Processes : at'[q].pc # "duplicate"
        BY <2>1, <3>2 DEF IdsInv, IdsConverge
      <4> QED
        BY <4>3, <4>4, <4>5 DEF IdsConverge
    <3>3. \A k \in Keys : idMap[k] # sequence
      BY <1>t DEF IdsInv, IdsConverge
    <3> QED
      BY <1>2, <1>t, <2>0, <3>1, <3>2, <3>3 DEF Allocate, Goes, key
  <2> QED
    BY <2>3, <2>4 DEF IdsInv
<1>3. ASSUME NEW p \in Processes, Fail(p) PROVE IdsInv'
  <2>1. \A q \in Processes : q # p => at'[q] = at[q]
    BY <1>3, StepMoves
  <2>2. at'[p].pc = "free" /\ UNCHANGED <<idMap, sequence>>
        /\ lock' = IF lock = p THEN None ELSE lock
    BY <1>3, <1>t DEF Fail, Ends, Free
  <2>3. AllocInv'
    BY <1>t, <2>1, <2>2 DEF IdsInv, AllocInv
  <2>4. IdsConverge'
    BY <2>1, <2>2 DEF IdsInv, IdsConverge
  <2> QED
    BY <2>3, <2>4 DEF IdsInv
<1>4. ASSUME NEW p \in Processes, (\E r \in Requests : Arrive(p, r)) \/ Handle(p),
             ~LockSequence(p), ~Allocate(p)
      PROVE  IdsInv'
  <2>1. /\ \A q \in Processes : q # p => at'[q] = at[q]
        /\ at'[p].pc \notin {"allocate", "duplicate"}
    BY <1>4, StepMoves
  <2>2. UNCHANGED <<idMap, sequence, lock>>
    BY <1>4 DEF Handle, Arrive, RecordNonce, ReadClock, SelectCount, InsertCount, LookUp,
                Enqueue, tables
  <2>3. AllocInv'
    BY <2>1, <2>2 DEF IdsInv, AllocInv
  <2>4. IdsConverge'
    BY <2>1, <2>2 DEF IdsInv, IdsConverge
  <2> QED
    BY <2>3, <2>4 DEF IdsInv
<1>5. CASE Tick \/ UNCHANGED vars
  BY <1>5 DEF Tick, vars, tables, IdsInv, IdsConverge, AllocInv
<1> QED
  BY <1>1, <1>2, <1>3, <1>4, <1>5 DEF Next, Handle

(* However many processes meet the first alerts of buckets, each bucket    *)
(* gets one id, no two the same, and no intake fails on a duplicate        *)
(* (incident_store.get_or_create_incident_id).                             *)
THEOREM IdsUnique == Spec => []IdsConverge
<1>1. IdsInv => IdsConverge
  BY DEF IdsInv
<1> QED
  BY <1>1, InitTyped, TypedStep, InitIds, IdsStep, PTL DEF Spec

-----------------------------------------------------------------------------
(* Answered requests.                                                      *)
StoredInv == AnsweredIsStored /\ BatchInv

LEMMA InitStored == Init => StoredInv
BY DEF Init, StoredInv, AnsweredIsStored, BatchInv, Free

(* Ids and events are only ever added, and a process stands where it did.  *)
LEMMA StaysStored ==
    ASSUME Typed, StoredInv, NEW q \in Processes, at'[q] = at[q],
           \A k \in Keys : idMap[k] # 0 => idMap'[k] = idMap[k],
           \A a \in Alerts : events[a] # 0 => events'[a] = events[a],
           at[q].pc # "free"
    PROVE  /\ at'[q].pc \in {"sequence", "allocate"} => Supplied[Alert(q)'] = 0
           /\ at'[q].pc = "enqueue" => at'[q].id # 0 /\ at'[q].id = IdOf(Alert(q))'
           /\ \A i \in 1 .. at'[q].next - 1 : events'[Batch[at'[q].request][i]] # 0
<1>1. Alert(q)' = Alert(q)
  BY DEF Alert, Request
<1>2. Alert(q) \in Alerts /\ Key[Alert(q)] \in Keys
  BY AlertTyped DEF Typed
<1>3. at[q].pc = "enqueue" => IdOf(Alert(q))' = IdOf(Alert(q))
  BY <1>1, <1>2 DEF StoredInv, BatchInv, IdOf
<1>4. ASSUME NEW i \in 1 .. at[q].next - 1
      PROVE  events'[Batch[at[q].request][i]] # 0
  <2>1. i \in 1 .. Len(Batch[at[q].request]) /\ Batch[at[q].request] \in Seq(Alerts)
    BY IntakeAssumption DEF IntakeAssumption, Typed, TypeOK, WorkInv
  <2>2. Batch[at[q].request][i] \in Alerts
    BY <2>1
  <2>3. events[Batch[at[q].request][i]] # 0
    BY DEF StoredInv, BatchInv
  <2> QED
    BY <2>2, <2>3
<1> QED
  BY <1>1, <1>3, <1>4 DEF StoredInv, BatchInv

LEMMA StaysFiled ==
    ASSUME Typed, AnsweredIsStored,
           \A k \in Keys : idMap[k] # 0 => idMap'[k] = idMap[k],
           UNCHANGED <<events, answered>>
    PROVE  AnsweredIsStored'
<1>1. \A a \in Alerts : Key[a] \in Keys
  BY DEF Keys
<1> QED
  BY <1>1 DEF AnsweredIsStored

LEMMA StoredStep == Typed /\ IdsInv /\ StoredInv /\ [Next]_vars => StoredInv'
<1> SUFFICES ASSUME Typed, IdsInv, StoredInv, [Next]_vars PROVE StoredInv'
  OBVIOUS
<1>t. /\ idMap \in [Keys -> Nat] /\ sequence \in Nat \ {0} /\ events \in [Alerts -> Nat]
      /\ at \in [Processes -> [pc : Steps, request : Requests \cup {None},
                              by : {"global", "caller"}, now : 0 .. MaxTime,
                              next : Nat \ {0}, id : Nat]]
  BY DEF Typed, TypeOK
<1>a. AnsweredIsStored /\ BatchInv
  BY DEF StoredInv
<1>b. ASSUME NEW p \in Processes, \A q \in Processes : q # p => at'[q] = at[q],
             \A k \in Keys : idMap[k] # 0 => idMap'[k] = idMap[k],
             \A a \in Alerts : events[a] # 0 => events'[a] = events[a],
             at'[p].pc # "free" =>
               /\ at'[p].pc \in {"sequence", "allocate"} => Supplied[Alert(p)'] = 0
               /\ at'[p].pc = "enqueue" => at'[p].id # 0 /\ at'[p].id = IdOf(Alert(p))'
               /\ \A i \in 1 .. at'[p].next - 1 : events'[Batch[at'[p].request][i]] # 0
      PROVE  BatchInv'
  <2> SUFFICES ASSUME NEW q \in Processes, at'[q].pc # "free"
               PROVE  /\ at'[q].pc \in {"sequence", "allocate"} => Supplied[Alert(q)'] = 0
                      /\ at'[q].pc = "enqueue" => at'[q].id # 0 /\ at'[q].id = IdOf(Alert(q))'
                      /\ \A i \in 1 .. at'[q].next - 1 :
                            events'[Batch[at'[q].request][i]] # 0
    BY DEF BatchInv
  <2>1. CASE q = p
    BY <1>b, <2>1
  <2>2. CASE q # p
    <3>1. at'[q] = at[q] /\ at[q].pc # "free"
      BY <1>b, <2>2
    <3> QED
      BY <1>b, <3>1, StaysStored
  <2> QED
    BY <2>1, <2>2
<1>1. ASSUME NEW p \in Processes, LookUp(p) PROVE StoredInv'
  <2>0. UNCHANGED <<idMap, events, answered>> /\ at[p].pc = "alert"
    BY <1>1 DEF LookUp, tables, history
  <2>1. \A q \in Processes : q # p => at'[q] = at[q]
    BY <1>1, StepMoves DEF Handle
  <2>2. AnsweredIsStored'
    BY <2>0, <1>a, StaysFiled
  <2>3. CASE Ends(p)
    <3>1. at'[p].pc = "free"
      BY <2>3, <1>t DEF Ends, Free
    <3> QED
      BY <1>b, <2>0, <2>1, <2>2, <3>1 DEF StoredInv
  <2> DEFINE known == IF Supplied[Alert(p)] # 0 THEN Supplied[Alert(p)]
                      ELSE idMap[Key[Alert(p)]]
  <2>4. CASE known # 0 /\ at' = [at EXCEPT ![p].id = known, ![p].pc = "enqueue"]
    <3>1. at'[p].pc = "enqueue" /\ at'[p].id = known /\ at'[p].next = at[p].next
          /\ at'[p].request = at[p].request
      BY <2>4, <1>t
    <3>2. Alert(p)' = Alert(p)
      BY <3>1 DEF Alert, Request
    <3>3. IdOf(Alert(p))' = known
      BY <2>0, <3>2 DEF IdOf
    <3>4. \A i \in 1 .. at'[p].next - 1 : events'[Batch[at'[p].request][i]] # 0
      BY <1>a, <2>0, <3>1 DEF BatchInv
    <3> HIDE DEF known
    <3>5. BatchInv'
      BY <1>b, <2>0, <2>1, <2>4, <3>1, <3>3, <3>4
    <3> QED
      BY <2>2, <3>5 DEF StoredInv
  <2>5. CASE known = 0 /\ Goes(p, "sequence")
    <3>1. at'[p].pc = "sequence" /\ at'[p].next = at[p].next /\ at'[p].request = at[p].request
      BY <2>5, <1>t DEF Goes
    <3>2. Alert(p)' = Alert(p)
      BY <3>1 DEF Alert, Request
    <3>3. Supplied[Alert(p)] = 0
      BY <2>5
    <3>4. \A i \in 1 .. at'[p].next - 1 : events'[Batch[at'[p].request][i]] # 0
      BY <1>a, <2>0, <3>1 DEF BatchInv
    <3>5. BatchInv'
      BY <1>b, <2>0, <2>1, <3>1, <3>2, <3>3, <3>4
    <3> QED
      BY <2>2, <3>5 DEF StoredInv
  <2> QED
    BY <1>1, <2>3, <2>4, <2>5 DEF LookUp
<1>2. ASSUME NEW p \in Processes, LockSequence(p) PROVE StoredInv'
  <2>0. UNCHANGED <<idMap, events, answered>> /\ at[p].pc = "sequence"
    BY <1>2 DEF LockSequence, history
  <2>1. \A q \in Processes : q # p => at'[q] = at[q]
    BY <1>2, StepMoves DEF Handle
  <2>2. AnsweredIsStored'
    BY <2>0, <1>a, StaysFiled
  <2>3. at'[p].pc = "allocate" /\ at'[p].next = at[p].next /\ at'[p].request = at[p].request
    BY <1>2, <1>t DEF LockSequence
  <2>4. Alert(p)' = Alert(p)
    BY <2>3 DEF Alert, Request
  <2>5. /\ Supplied[Alert(p)] = 0
        /\ \A i \in 1 .. at'[p].next - 1 : events'[Batch[at'[p].request][i]] # 0
    BY <1>a, <2>0, <2>3 DEF BatchInv
  <2>6. BatchInv'
    BY <1>b, <2>0, <2>1, <2>3, <2>4, <2>5
  <2> QED
    BY <2>2, <2>6 DEF StoredInv
<1>3. ASSUME NEW p \in Processes, Allocate(p) PROVE StoredInv'
  <2> DEFINE key == Key[Alert(p)]
  <2>0. /\ UNCHANGED <<events, answered>> /\ at[p].pc = "allocate" /\ at[p].id = sequence
        /\ key \in Keys /\ Supplied[Alert(p)] = 0
    BY <1>3, <1>a, AlertTyped DEF Allocate, history, IdsInv, AllocInv, BatchInv, Typed
  <2>1. \A q \in Processes : q # p => at'[q] = at[q]
    BY <1>3, StepMoves DEF Handle
  <2>2. /\ \A k \in Keys : idMap[k] # 0 => idMap'[k] = idMap[k]
        /\ at'[p].pc = "duplicate" \/ (at'[p].pc = "enqueue" /\ at'[p].id = idMap'[key]
                                       /\ idMap'[key] # 0)
        /\ at'[p].next = at[p].next /\ at'[p].request = at[p].request
    <3> HIDE DEF key
    <3>1. CASE /\ at' = [at EXCEPT ![p].id = idMap[key], ![p].pc = "enqueue"]
               /\ idMap[key] # 0 /\ UNCHANGED idMap
      BY <3>1, <1>t
    <3>2. CASE /\ idMap[key] = 0 /\ idMap' = [idMap EXCEPT ![key] = sequence]
               /\ Goes(p, "enqueue")
      <4>1. \A k \in Keys : idMap'[k] = IF k = key THEN sequence ELSE idMap[k]
        BY <1>t, <2>0, <3>2
      <4>2. at'[p].pc = "enqueue" /\ at'[p].id = sequence
            /\ at'[p].next = at[p].next /\ at'[p].request = at[p].request
        BY <1>t, <2>0, <3>2 DEF Goes
      <4> QED
        BY <1>t, <2>0, <3>2, <4>1, <4>2
    <3>3. CASE Goes(p, "duplicate") /\ UNCHANGED idMap
      BY <3>3, <1>t DEF Goes
    <3> QED
      BY <1>3, <2>0, <3>1, <3>2, <3>3 DEF Allocate, key
  <2>3. AnsweredIsStored'
    BY <2>0, <2>2, <1>a, StaysFiled
  <2>4. Alert(p)' = Alert(p)
    BY <2>2 DEF Alert, Request
  <2>5. at'[p].pc = "enqueue" => at'[p].id # 0 /\ at'[p].id = IdOf(Alert(p))'
    BY <2>0, <2>2, <2>4 DEF IdOf
  <2>6. \A i \in 1 .. at'[p].next - 1 : events'[Batch[at'[p].request][i]] # 0
    BY <1>a, <2>0, <2>2 DEF BatchInv
  <2>7. BatchInv'
    <3> HIDE DEF key
    <3> QED
      BY <1>b, <2>0, <2>1, <2>2, <2>5, <2>6
  <2> QED
    BY <2>3, <2>7 DEF StoredInv
<1>4. ASSUME NEW p \in Processes, Enqueue(p) PROVE StoredInv'
  <2> DEFINE r == at[p].request
             b == Batch[r]
  <2>0. /\ UNCHANGED idMap /\ at[p].pc = "enqueue" /\ at[p].id # 0
        /\ at[p].id = IdOf(Alert(p))
        /\ \A i \in 1 .. at[p].next - 1 : events[b[i]] # 0
    BY <1>4, <1>a DEF Enqueue, BatchInv
  <2>1. \A q \in Processes : q # p => at'[q] = at[q]
    BY <1>4, StepMoves DEF Handle
  <2>2. r \in Requests /\ b \in Seq(Alerts) /\ at[p].next \in 1 .. Len(b)
        /\ Alert(p) \in Alerts /\ Alert(p) = b[at[p].next]
    BY <2>0, AlertTyped, IntakeAssumption
    DEF IntakeAssumption, Typed, WorkInv, Alert, Request
  <2>3. PICK a \in Alerts : a = Alert(p)
    BY <2>2
  <2>f. \A x \in Alerts : IdOf(x)' = IdOf(x)
    BY <2>0 DEF IdOf
  <2>g. \A x \in Alerts : events[x] # 0 => events[x] = IdOf(x)
    BY <1>a DEF AnsweredIsStored, IdOf
  <2>4. /\ \A x \in Alerts : events[x] # 0 => events'[x] = events[x]
        /\ \A x \in Alerts : events'[x] # 0 => events'[x] = IdOf(x)
        /\ (Onward(p) /\ events'[a] # 0) \/ QueueFull(p)
    <3>1. CASE events[a] # 0 /\ Onward(p) /\ UNCHANGED events
      BY <3>1, <2>g
    <3>2. CASE events[a] = 0 /\ events' = [events EXCEPT ![a] = at[p].id] /\ Onward(p)
      <4>1. \A x \in Alerts : events'[x] = IF x = a THEN at[p].id ELSE events[x]
        BY <1>t, <3>2
      <4> QED
        BY <2>0, <2>3, <2>g, <3>2, <4>1
    <3>3. CASE QueueFull(p) /\ UNCHANGED events
      BY <3>3, <2>g
    <3> QED
      BY <1>4, <2>3, <3>1, <3>2, <3>3 DEF Enqueue
  <2>5. \A q \in answered : \A i \in DOMAIN Batch[q] : events'[Batch[q][i]] # 0
    <3> SUFFICES ASSUME NEW q \in answered, NEW i \in DOMAIN Batch[q]
                 PROVE  events'[Batch[q][i]] # 0
      OBVIOUS
    <3>1. q \in Requests /\ Batch[q] \in Seq(Alerts)
      BY IntakeAssumption DEF IntakeAssumption, Typed, TypeOK
    <3>2. Batch[q][i] \in Alerts /\ events[Batch[q][i]] # 0
      BY <1>a, <3>1 DEF AnsweredIsStored
    <3> QED
      BY <2>4, <3>2
  <2>6. \A i \in 1 .. at[p].next - 1 : events'[b[i]] # 0
    <3> SUFFICES ASSUME NEW i \in 1 .. at[p].next - 1 PROVE events'[b[i]] # 0
      OBVIOUS
    <3>1. i \in 1 .. Len(b)
      BY <2>2
    <3>2. b[i] \in Alerts
      BY <2>2, <3>1
    <3> QED
      BY <2>0, <2>4, <3>2
  <2>7. CASE UNCHANGED answered /\ Ends(p)
    <3>1. at'[p].pc = "free"
      BY <2>7, <1>t DEF Ends, Free
    <3>2. BatchInv'
      BY <1>b, <2>0, <2>1, <2>4, <3>1
    <3>3. AnsweredIsStored'
      BY <2>4, <2>5, <2>7, <2>f DEF AnsweredIsStored, IdOf
    <3> QED
      BY <3>2, <3>3 DEF StoredInv
  <2>8. CASE Onward(p) /\ events'[a] # 0 /\ at[p].next = Len(b)
    <3>1. Ends(p) /\ answered' = answered \cup {r}
      BY <2>8 DEF Onward, Request
    <3>2. at'[p].pc = "free"
      BY <3>1, <1>t DEF Ends, Free
    <3>3. BatchInv'
      BY <1>b, <2>0, <2>1, <2>4, <3>2
    <3>4. \A i \in DOMAIN b : events'[b[i]] # 0
      <4> SUFFICES ASSUME NEW i \in DOMAIN b PROVE events'[b[i]] # 0
        OBVIOUS
      <4>1. i \in 1 .. at[p].next - 1 \/ i = at[p].next
        BY <2>2, <2>8
      <4> QED
        BY <2>2, <2>3, <2>6, <2>8, <4>1
    <3>5. \A q \in answered' : \A i \in DOMAIN Batch[q] : events'[Batch[q][i]] # 0
      BY <2>5, <3>1, <3>4
    <3>6. AnsweredIsStored'
      BY <2>4, <3>5, <2>f DEF AnsweredIsStored, IdOf
    <3> QED
      BY <3>3, <3>6 DEF StoredInv
  <2>9. CASE Onward(p) /\ events'[a] # 0 /\ at[p].next # Len(b)
    <3>1. /\ at' = [at EXCEPT ![p].next = at[p].next + 1, ![p].pc = "alert", ![p].id = 0]
          /\ UNCHANGED answered
      BY <2>9 DEF Onward, Request
    <3>2. at'[p].pc = "alert" /\ at'[p].next = at[p].next + 1 /\ at'[p].request = r
      BY <3>1, <1>t
    <3>3. \A i \in 1 .. at'[p].next - 1 : events'[Batch[at'[p].request][i]] # 0
      <4> SUFFICES ASSUME NEW i \in 1 .. at[p].next PROVE events'[b[i]] # 0
        BY <2>2, <3>2
      <4>1. i \in 1 .. at[p].next - 1 \/ i = at[p].next
        BY <2>2
      <4> QED
        BY <2>2, <2>3, <2>6, <2>9, <4>1
    <3>4. BatchInv'
      BY <1>b, <2>0, <2>1, <2>4, <3>2, <3>3
    <3>5. AnsweredIsStored'
      BY <2>4, <2>5, <3>1, <2>f DEF AnsweredIsStored, IdOf
    <3> QED
      BY <3>4, <3>5 DEF StoredInv
  <2> QED
    BY <2>4, <2>7, <2>8, <2>9 DEF QueueFull
<1>5. ASSUME NEW p \in Processes, NEW r \in Requests, Arrive(p, r) PROVE StoredInv'
  <2>1. \A q \in Processes : q # p => at'[q] = at[q]
    BY <1>5, StepMoves
  <2>2. at'[p].pc = "nonce" /\ at'[p].next = 1 /\ UNCHANGED <<idMap, events, answered>>
    BY <1>5, <1>t DEF Arrive, Free, tables, history
  <2>3. BatchInv'
    BY <1>b, <2>1, <2>2
  <2>4. AnsweredIsStored'
    BY <1>a, <2>2, StaysFiled
  <2> QED
    BY <2>3, <2>4 DEF StoredInv
<1>6. ASSUME NEW p \in Processes, Fail(p) PROVE StoredInv'
  <2>1. \A q \in Processes : q # p => at'[q] = at[q]
    BY <1>6, StepMoves
  <2>2. at'[p].pc = "free" /\ UNCHANGED <<idMap, events, answered>>
    BY <1>6, <1>t DEF Fail, Ends, Free, history
  <2>3. BatchInv'
    BY <1>b, <2>1, <2>2
  <2>4. AnsweredIsStored'
    BY <1>a, <2>2, StaysFiled
  <2> QED
    BY <2>3, <2>4 DEF StoredInv
<1>7. ASSUME NEW p \in Processes,
             RecordNonce(p) \/ ReadClock(p) \/ SelectCount(p) \/ InsertCount(p)
      PROVE  StoredInv'
  <2>1. \A q \in Processes : q # p => at'[q] = at[q]
    BY <1>7, StepMoves DEF Handle
  <2>2. UNCHANGED <<idMap, events, answered>>
    BY <1>7 DEF RecordNonce, ReadClock, SelectCount, InsertCount, tables, history
  <2>3. \/ at'[p].pc = "free"
        \/ /\ at'[p].pc \in {"limit", "select", "first", "alert"} /\ at[p].pc # "free"
           /\ at'[p].next = at[p].next /\ at'[p].request = at[p].request
    BY <1>7, <1>t DEF RecordNonce, ReadClock, SelectCount, InsertCount, LetThrough, Goes,
                      Ends, Free
  <2>4. at'[p].pc # "free" =>
           \A i \in 1 .. at'[p].next - 1 : events'[Batch[at'[p].request][i]] # 0
    BY <1>a, <2>2, <2>3 DEF BatchInv
  <2>5. BatchInv'
    BY <1>b, <2>1, <2>2, <2>3, <2>4
  <2>6. AnsweredIsStored'
    BY <1>a, <2>2, StaysFiled
  <2> QED
    BY <2>5, <2>6 DEF StoredInv
<1>8. CASE Tick \/ UNCHANGED vars
  <2>1. UNCHANGED <<at, idMap, events, answered>>
    BY <1>8 DEF Tick, vars, tables, history
  <2>2. AnsweredIsStored'
    BY <1>a, <2>1, StaysFiled
  <2>3. BatchInv'
    BY <1>a, <2>1 DEF BatchInv, Alert, Request, IdOf
  <2> QED
    BY <2>2, <2>3 DEF StoredInv
<1> QED
  BY <1>1, <1>2, <1>3, <1>4, <1>5, <1>6, <1>7, <1>8 DEF Next, Handle

(* A request that was answered 200 has an event of each of its alerts,     *)
(* under the id of the alert's bucket or the id it came with, whatever     *)
(* other processes, batches and retries did meanwhile (api.alerts).        *)
THEOREM StoredUnderItsId == Spec => []AnsweredIsStored
<1>1. StoredInv => AnsweredIsStored
  BY DEF StoredInv
<1> QED
  BY <1>1, InitTyped, TypedStep, InitIds, IdsStep, InitStored, StoredStep, PTL DEF Spec

-----------------------------------------------------------------------------
(* The rate limits.                                                        *)
LEMMA InitCount == Init => CountInv
<1> SUFFICES ASSUME Init PROVE CountInv
  OBVIOUS
<1>1. \A k \in LimitKeys : Limit[k] \in Nat
  BY IntakeAssumption DEF IntakeAssumption
<1> QED
  BY <1>1 DEF Init, CountInv, Free

(* Sweeping leaves the rows that may still be counted in.                  *)
LEMMA SweptCounts ==
    ASSUME Typed, CountInv, NEW p \in Processes, at[p].pc \in {"select", "first"}
    PROVE  LET window == WindowOf(at[p].now)
           IN  /\ window \in Windows /\ WindowOf(clock) \in Nat
               /\ window <= WindowOf(clock) /\ WindowOf(clock) <= window + 1
               /\ Swept(window) \in [LimitKeys -> [Windows -> Nat]]
               /\ \A k \in LimitKeys, w \in Windows :
                     WindowOf(clock) <= w + 1 => Swept(window)[k][w] = passed[k][w]
<1> DEFINE window == WindowOf(at[p].now)
<1>0. at[p].now \in Nat /\ clock \in Nat
  BY IntakeAssumption DEF IntakeAssumption, Typed, TypeOK
<1>1. window \in Windows /\ Swept(window) \in [LimitKeys -> [Windows -> Nat]]
  BY CountedTyped, SweptTyped DEF Typed
<1>2. window <= WindowOf(clock) /\ WindowOf(clock) \in Nat /\ WindowOf(clock) <= window + 1
  BY <1>0, WindowMonotone DEF CountInv
<1>3. ASSUME NEW k \in LimitKeys, NEW w \in Windows, WindowOf(clock) <= w + 1
      PROVE  Swept(window)[k][w] = passed[k][w]
  <2>1. w \in Int /\ window \in Int
    BY <1>1 DEF Windows
  <2>2. ~Past(w, window)
    BY <1>2, <1>3, <2>1 DEF Past
  <2>3. Swept(window)[k][w] = counts[k][w]
    BY <2>2 DEF Swept
  <2> QED
    BY <1>3, <2>3 DEF CountInv
<1> QED
  BY <1>1, <1>2, <1>3

LEMMA CountStep == Typed /\ CountInv /\ [Next]_vars => CountInv'
<1> SUFFICES ASSUME Typed, CountInv, [Next]_vars PROVE CountInv'
  OBVIOUS
<1>t. /\ counts \in [LimitKeys -> [Windows -> Nat]] /\ passed \in [LimitKeys -> [Windows -> Nat]]
      /\ clock \in 0 .. MaxTime
      /\ at \in [Processes -> [pc : Steps, request : Requests \cup {None},
                              by : {"global", "caller"}, now : 0 .. MaxTime,
                              next : Nat \ {0}, id : Nat]]
  BY DEF Typed, TypeOK
<1>l. Limit \in [LimitKeys -> Nat] /\ clock \in Nat
  BY <1>t, IntakeAssumption DEF IntakeAssumption
<1>m. ASSUME NEW p \in Processes, \A q \in Processes : q # p => at'[q] = at[q],
             at'[p].pc \notin {"select", "first"}, UNCHANGED clock
      PROVE  \A q \in Processes : at'[q].pc \in {"select", "first"} =>
                at'[q].now <= clock' /\ WindowOf(clock)' <= WindowOf(at'[q].now) + 1
  BY <1>m DEF CountInv, WindowOf
<1>s. ASSUME NEW p \in Processes, at[p].pc \in {"select", "first"}, UNCHANGED clock,
             counts' = Swept(WindowOf(at[p].now)), UNCHANGED passed
      PROVE  \A k \in LimitKeys, w \in Windows :
                /\ WindowOf(clock)' <= w + 1 => counts'[k][w] = passed'[k][w]
                /\ passed'[k][w] <= Limit[k]
  <2>1. \A k \in LimitKeys, w \in Windows :
           WindowOf(clock) <= w + 1 => Swept(WindowOf(at[p].now))[k][w] = passed[k][w]
    BY <1>s, SweptCounts
  <2> QED
    BY <1>s, <2>1 DEF CountInv, WindowOf
<1>p. ASSUME NEW p \in Processes, at[p].pc \in {"select", "first"}, UNCHANGED clock,
             Swept(WindowOf(at[p].now))[LimitKey(p)][WindowOf(at[p].now)] < Limit[LimitKey(p)],
             LetThrough(p, Swept(WindowOf(at[p].now)), WindowOf(at[p].now))
      PROVE  \A k \in LimitKeys, w \in Windows :
                /\ WindowOf(clock)' <= w + 1 => counts'[k][w] = passed'[k][w]
                /\ passed'[k][w] <= Limit[k]
  <2>1. PICK window \in Windows, rows \in [LimitKeys -> [Windows -> Nat]], l \in LimitKeys :
           /\ window = WindowOf(at[p].now) /\ rows = Swept(window) /\ l = LimitKey(p)
    BY <1>p, SweptCounts, CountedTyped
  <2>2. /\ WindowOf(clock) <= window + 1
        /\ \A k \in LimitKeys, w \in Windows :
              WindowOf(clock) <= w + 1 => rows[k][w] = passed[k][w]
    BY <1>p, <2>1, SweptCounts
  <2>3. /\ counts' = [rows EXCEPT ![l][window] = rows[l][window] + 1]
        /\ passed' = [passed EXCEPT ![l][window] = passed[l][window] + 1]
        /\ rows[l][window] < Limit[l]
    BY <1>p, <2>1 DEF LetThrough
  <2>4. rows[l][window] = passed[l][window]
    BY <2>2
  <2>5. ASSUME NEW k \in LimitKeys, NEW w \in Windows
        PROVE  /\ counts'[k][w] = IF k = l /\ w = window THEN rows[l][window] + 1 ELSE rows[k][w]
               /\ passed'[k][w] = IF k = l /\ w = window THEN rows[l][window] + 1
                                  ELSE passed[k][w]
    <3>1. CASE k = l
      BY <1>t, <2>3, <2>4, <3>1
    <3>2. CASE k # l
      BY <1>t, <2>3, <3>2
    <3> QED
      BY <3>1, <3>2
  <2>6. WindowOf(clock)' = WindowOf(clock)
    BY <1>p DEF WindowOf
  <2>7. ASSUME NEW k \in LimitKeys, NEW w \in Windows
        PROVE  passed'[k][w] <= Limit[k]
    <3>1. passed[k][w] <= Limit[k]
      BY DEF CountInv
    <3>2. rows[l][window] \in Nat /\ Limit[l] \in Nat
      BY <2>1, <1>l
    <3> QED
      BY <2>3, <2>5, <3>1, <3>2
  <2> QED
    BY <2>2, <2>5, <2>6, <2>7
<1>1. ASSUME NEW p \in Processes, ReadClock(p) PROVE CountInv'
  <2>1. /\ \A q \in Processes : q # p => at'[q] = at[q]
        /\ at'[p].now = clock /\ UNCHANGED <<clock, counts, passed>>
    BY <1>1, <1>t DEF ReadClock, tables, history
  <2>2. WindowOf(clock) <= WindowOf(clock) + 1 /\ clock <= clock
    BY <1>l, WindowMonotone
  <2> QED
    BY <2>1, <2>2 DEF CountInv, WindowOf
<1>2. ASSUME NEW p \in Processes, SelectCount(p) PROVE CountInv'
  <2>0. at[p].pc \in {"select", "first"} /\ UNCHANGED clock /\ LimitKey(p) \in LimitKeys
    BY <1>2, CountedTyped DEF SelectCount
  <2>1. \A q \in Processes : q # p => at'[q] = at[q]
    BY <1>2, StepMoves DEF Handle
  <2>2. CASE Ends(p) /\ counts' = Swept(WindowOf(at[p].now)) /\ UNCHANGED passed
    <3>1. at'[p].pc = "free"
      BY <2>2, <1>t DEF Ends, Free
    <3> QED
      BY <1>m, <1>s, <2>0, <2>1, <2>2, <3>1 DEF CountInv
  <2>3. CASE /\ LetThrough(p, Swept(WindowOf(at[p].now)), WindowOf(at[p].now))
             /\ Swept(WindowOf(at[p].now))[LimitKey(p)][WindowOf(at[p].now)]
                  \in 1 .. Limit[LimitKey(p)] - 1
    <3>1. at'[p].pc \notin {"select", "first"}
      BY <2>3, <1>t DEF LetThrough, Ends, Free
    <3>2. Swept(WindowOf(at[p].now))[LimitKey(p)][WindowOf(at[p].now)] < Limit[LimitKey(p)]
      BY <1>l, <2>0, <2>3
    <3> QED
      BY <1>m, <1>p, <2>0, <2>1, <2>3, <3>1, <3>2 DEF CountInv
  <2>4. CASE Goes(p, "first") /\ UNCHANGED <<counts, passed>>
    <3>1. at'[p].now = at[p].now
      BY <2>4, <1>t DEF Goes
    <3> QED
      BY <2>0, <2>1, <2>4, <3>1 DEF CountInv, WindowOf
  <2> QED
    BY <1>2, <2>2, <2>3, <2>4 DEF SelectCount
<1>3. ASSUME NEW p \in Processes, InsertCount(p) PROVE CountInv'
  <2>0. at[p].pc \in {"select", "first"} /\ UNCHANGED clock /\ LimitKey(p) \in LimitKeys
    BY <1>3, CountedTyped DEF InsertCount
  <2>1. \A q \in Processes : q # p => at'[q] = at[q]
    BY <1>3, StepMoves DEF Handle
  <2>2. CASE Ends(p) /\ UNCHANGED <<counts, passed>>
    <3>1. at'[p].pc = "free"
      BY <2>2, <1>t DEF Ends, Free
    <3> QED
      BY <1>m, <2>0, <2>1, <2>2, <3>1 DEF CountInv, WindowOf
  <2>3. CASE /\ LetThrough(p, Swept(WindowOf(at[p].now)), WindowOf(at[p].now))
             /\ Swept(WindowOf(at[p].now))[LimitKey(p)][WindowOf(at[p].now)] = 0
    <3>1. at'[p].pc \notin {"select", "first"}
      BY <2>3, <1>t DEF LetThrough, Ends, Free
    <3>2. Limit[LimitKey(p)] > 0
      BY <2>0, IntakeAssumption DEF IntakeAssumption
    <3> QED
      BY <1>m, <1>p, <2>0, <2>1, <2>3, <3>1, <3>2 DEF CountInv
  <2> QED
    BY <1>3, <2>2, <2>3 DEF InsertCount
<1>4. ASSUME NEW p \in Processes, (\E r \in Requests : Arrive(p, r)) \/ Fail(p)
                \/ RecordNonce(p) \/ LookUp(p) \/ LockSequence(p) \/ Allocate(p) \/ Enqueue(p)
      PROVE  CountInv'
  <2>1. \A q \in Processes : q # p => at'[q] = at[q]
    BY <1>4, StepMoves DEF Handle
  <2>2. UNCHANGED <<clock, counts, passed>>
    BY <1>4 DEF Arrive, Fail, RecordNonce, LookUp, LockSequence, Allocate, Enqueue, tables,
                history
  <2>3. at'[p].pc \notin {"select", "first"}
    <3>0. CASE \E r \in Requests : Arrive(p, r)
      BY <3>0, <1>t DEF Arrive, Free
    <3>1. CASE Fail(p) \/ RecordNonce(p)
      BY <3>1, <1>t DEF Fail, RecordNonce, Ends, Free
    <3>2. CASE LookUp(p) \/ LockSequence(p)
      BY <3>2, <1>t DEF LookUp, LockSequence, Ends, Goes, Free
    <3>3. CASE Allocate(p)
      BY <3>3, <1>t DEF Allocate, Goes
    <3>4. CASE Enqueue(p)
      BY <3>4, <1>t DEF Enqueue, Onward, QueueFull, Ends, Free
    <3> QED
      BY <1>4, <3>0, <3>1, <3>2, <3>3, <3>4
  <2> QED
    BY <1>m, <2>1, <2>2, <2>3 DEF CountInv, WindowOf
<1>5. CASE Tick
  <2>1. clock' = clock + 1 /\ UNCHANGED <<at, counts, passed>> /\ ShortWaits
    BY <1>5 DEF Tick, tables, history
  <2>2. WindowOf(clock) <= WindowOf(clock + 1)
        /\ WindowOf(clock) \in Nat /\ WindowOf(clock + 1) \in Nat
    BY <1>l, WindowMonotone
  <2>3. ASSUME NEW q \in Processes, at[q].pc \in {"select", "first"}
        PROVE  at[q].now <= clock + 1 /\ WindowOf(clock + 1) <= WindowOf(at[q].now) + 1
    <3>1. at[q].now \in Int
      BY <1>t
    <3> QED
      BY <1>l, <2>1, <2>3, <3>1 DEF CountInv, ShortWaits
  <2>4. ASSUME NEW k \in LimitKeys, NEW w \in Windows, WindowOf(clock + 1) <= w + 1
        PROVE  counts[k][w] = passed[k][w]
    <3>1. w \in Int
      BY DEF Windows
    <3>2. WindowOf(clock) <= w + 1
      BY <2>2, <2>4, <3>1
    <3> QED
      BY <3>2 DEF CountInv
  <2> QED
    BY <2>1, <2>3, <2>4 DEF CountInv, WindowOf
<1>6. CASE UNCHANGED vars
  BY <1>6 DEF vars, tables, history, CountInv, WindowOf
<1> QED
  BY <1>1, <1>2, <1>3, <1>4, <1>5, <1>6 DEF Next, Handle

-----------------------------------------------------------------------------
(* The replay guard.                                                       *)
Spaced ==
    \A i, j \in DOMAIN used :
       (i < j /\ used[i].request = used[j].request) =>
          used[j].stored > used[i].read + ReplayWindow
ReplayInv == NonceInv /\ Spaced

LEMMA InitReplay == Init => ReplayInv
BY DEF Init, ReplayInv, NonceInv, Spaced, Free

(* A process is before the replay guard only when its request arrives.     *)
LEMMA NonceLeft ==
    ASSUME Typed, NEW p \in Processes, Handle(p) \/ Fail(p)
    PROVE  at'[p].pc # "nonce" /\ UNCHANGED clock
<1>t. /\ at \in [Processes -> [pc : Steps, request : Requests \cup {None},
                              by : {"global", "caller"}, now : 0 .. MaxTime,
                              next : Nat \ {0}, id : Nat]]
  BY DEF Typed, TypeOK
<1>1. UNCHANGED clock
  BY DEF Handle, Fail, RecordNonce, ReadClock, SelectCount, InsertCount, LookUp,
         LockSequence, Allocate, Enqueue
<1>2. CASE RecordNonce(p) \/ ReadClock(p) \/ LookUp(p) \/ LockSequence(p) \/ Fail(p)
  BY <1>2, <1>t DEF RecordNonce, ReadClock, LookUp, LockSequence, Fail, Ends, Goes, Free
<1>3. CASE SelectCount(p) \/ InsertCount(p)
  BY <1>3, <1>t DEF SelectCount, InsertCount, LetThrough, Ends, Goes, Free
<1>4. CASE Allocate(p) \/ Enqueue(p)
  BY <1>4, <1>t DEF Allocate, Enqueue, Onward, QueueFull, Ends, Goes, Free
<1> QED
  BY <1>1, <1>2, <1>3, <1>4 DEF Handle

(* What is known of each use.                                              *)
LEMMA UsesTyped ==
    ASSUME Typed, NEW i \in DOMAIN used
    PROVE  used[i].request \in Requests /\ used[i].read \in Nat /\ used[i].stored \in Nat
<1> DEFINE Uses == [request : Requests, read : 0 .. MaxTime, stored : 0 .. MaxTime]
<1>1. used \in Seq(Uses) /\ MaxTime \in Nat
  BY IntakeAssumption DEF Typed, TypeOK
<1> HIDE DEF Uses
<1>2. used[i] \in Uses
  BY <1>1
<1>3. used[i] \in [request : Requests, read : 0 .. MaxTime, stored : 0 .. MaxTime]
  BY <1>2 DEF Uses
<1>4. 0 .. MaxTime \subseteq Nat
  BY <1>1
<1>5. used[i].read \in 0 .. MaxTime /\ used[i].stored \in 0 .. MaxTime
  BY <1>3
<1>6. used[i].request \in Requests
  BY <1>3
<1> QED
  BY <1>4, <1>5, <1>6

LEMMA ReplayStep == Typed /\ ReplayInv /\ [Next]_vars => ReplayInv'
<1> SUFFICES ASSUME Typed, ReplayInv, [Next]_vars PROVE ReplayInv'
  OBVIOUS
<1>t. /\ clock \in 0 .. MaxTime /\ nonces \in [Requests -> Int]
      /\ used \in Seq([request : Requests, read : 0 .. MaxTime, stored : 0 .. MaxTime])
      /\ at \in [Processes -> [pc : Steps, request : Requests \cup {None},
                              by : {"global", "caller"}, now : 0 .. MaxTime,
                              next : Nat \ {0}, id : Nat]]
      /\ ReplayWindow \in Nat /\ MaxTime \in Nat
  BY IntakeAssumption DEF Typed, TypeOK, IntakeAssumption
<1>u. ASSUME NEW i \in DOMAIN used
      PROVE  used[i].request \in Requests /\ used[i].read \in Nat /\ used[i].stored \in Nat
  BY UsesTyped
<1>c. clock \in Nat
  BY <1>t
<1>1. ASSUME NEW p \in Processes, RecordNonce(p),
             used' = Append(used, [request |-> Request(p), read |-> at[p].now, stored |-> clock])
      PROVE  ReplayInv'
  <2>0. PICK r \in Requests, now \in 0 .. MaxTime :
           r = at[p].request /\ now = at[p].now /\ now <= clock
    BY <1>1, <1>t DEF RecordNonce, Typed, WorkInv, ReplayInv, NonceInv
  <2> DEFINE kept == [n \in Requests |-> IF Outlived(nonces[n], now) THEN -1 ELSE nonces[n]]
             new == [request |-> r, read |-> now, stored |-> clock]
  <2>1. CASE kept[r] = -1 /\ nonces' = [kept EXCEPT ![r] = now + ReplayWindow]
             /\ at' = [at EXCEPT ![p].pc = "limit", ![p].now = 0]
    <3>a. used' = Append(used, new) /\ UNCHANGED clock
      BY <1>1, <2>0 DEF RecordNonce, Request
    <3>b. /\ Len(used) \in Nat /\ DOMAIN used' = 1 .. Len(used) + 1
          /\ DOMAIN used = 1 .. Len(used)
          /\ \A i \in DOMAIN used : used'[i] = used[i]
          /\ used'[Len(used) + 1] = new
      BY <1>t, <2>0, <3>a
    <3>n. \A n \in Requests : nonces'[n] = IF n = r THEN now + ReplayWindow ELSE kept[n]
      BY <2>1
    <3>1. ASSUME NEW i \in DOMAIN used, used[i].request = r
          PROVE  clock > used[i].read + ReplayWindow
      <4>1. nonces[r] = -1 \/ nonces[r] < now
        BY <2>1 DEF Outlived
      <4>2. nonces[r] >= used[i].read + ReplayWindow \/ clock > used[i].read + ReplayWindow
        BY <3>1 DEF ReplayInv, NonceInv
      <4>3. used[i].read \in Nat /\ nonces[r] \in Int /\ now \in Nat /\ now <= clock
        BY <1>t, <1>u, <2>0
      <4>4. ReplayWindow \in Nat
        BY <1>t
      <4> QED
        BY <1>c, <4>1, <4>2, <4>3, <4>4
    <3>2. ASSUME NEW i \in DOMAIN used
          PROVE  \/ nonces'[used[i].request] >= used[i].read + ReplayWindow
                 \/ clock > used[i].read + ReplayWindow
      <4>1. CASE used[i].request = r
        BY <3>1, <4>1
      <4>2. CASE used[i].request # r
        <5> DEFINE n == used[i].request
        <5>1. n \in Requests /\ used[i].read \in Nat /\ nonces[n] \in Int
          BY <1>t, <1>u
        <5>2. nonces'[n] = IF nonces[n] < now THEN -1 ELSE nonces[n]
          BY <3>n, <4>2, <5>1 DEF Outlived
        <5>3. nonces[n] >= used[i].read + ReplayWindow \/ clock > used[i].read + ReplayWindow
          BY DEF ReplayInv, NonceInv
        <5>4. now \in Nat /\ now <= clock /\ ReplayWindow \in Nat
          BY <1>t, <2>0
        <5> QED
          BY <1>c, <5>1, <5>2, <5>3, <5>4
      <4> QED
        BY <4>1, <4>2
    <3>3. \A q \in Processes : at'[q].pc = "nonce" => at'[q].now <= clock'
      BY <1>t, <2>1, <3>a DEF ReplayInv, NonceInv
    <3>4. ASSUME NEW i \in DOMAIN used'
          PROVE  \/ nonces'[used'[i].request] >= used'[i].read + ReplayWindow
                 \/ clock' > used'[i].read + ReplayWindow
      <4>1. CASE i \in DOMAIN used
        BY <3>2, <3>a, <3>b, <4>1
      <4>2. CASE i = Len(used) + 1
        <5>1. used'[i].request = r /\ used'[i].read = now
          BY <3>b, <4>2
        <5> QED
          BY <1>t, <2>0, <3>n, <5>1
      <4> QED
        BY <3>b, <4>1, <4>2
    <3>5. ASSUME NEW i \in DOMAIN used', NEW j \in DOMAIN used', i < j,
                 used'[i].request = used'[j].request
          PROVE  used'[j].stored > used'[i].read + ReplayWindow
      <4>0. i \in DOMAIN used
        BY <3>b, <3>5
      <4>1. CASE j \in DOMAIN used
        BY <3>b, <3>5, <4>0, <4>1 DEF ReplayInv, Spaced
      <4>2. CASE j = Len(used) + 1
        BY <3>1, <3>b, <3>5, <4>0, <4>2
      <4> QED
        BY <3>b, <4>1, <4>2
    <3> QED
      BY <3>3, <3>4, <3>5 DEF ReplayInv, NonceInv, Spaced
  <2>2. CASE UNCHANGED used
    <3>1. Len(used') = Len(used) + 1
      BY <1>1, <1>t, <2>0 DEF Request
    <3> QED
      BY <1>t, <2>2, <3>1
  <2> QED
    BY <1>1, <2>0, <2>1, <2>2 DEF RecordNonce, Request
<1>2. ASSUME NEW p \in Processes, UNCHANGED <<clock, nonces, used>>,
             \A q \in Processes : q # p => at'[q] = at[q],
             at'[p].pc = "nonce" => at'[p].now <= clock
      PROVE  ReplayInv'
  <2>1. \A q \in Processes : at'[q].pc = "nonce" => at'[q].now <= clock'
    BY <1>2 DEF ReplayInv, NonceInv
  <2> QED
    BY <1>2, <2>1 DEF ReplayInv, NonceInv, Spaced
<1>3. ASSUME NEW p \in Processes, NEW r \in Requests, Arrive(p, r) PROVE ReplayInv'
  <2>1. \A q \in Processes : q # p => at'[q] = at[q]
    BY <1>3, StepMoves
  <2>2. at'[p].now <= clock /\ UNCHANGED <<clock, nonces, used>>
    BY <1>3, <1>t DEF Arrive, tables, history
  <2> QED
    BY <1>2, <2>1, <2>2
<1>4. ASSUME NEW p \in Processes, Handle(p) \/ Fail(p), UNCHANGED used, UNCHANGED nonces
      PROVE  ReplayInv'
  <2>1. \A q \in Processes : q # p => at'[q] = at[q]
    BY <1>4, StepMoves
  <2>2. at'[p].pc # "nonce" /\ UNCHANGED clock
    BY <1>4, <1>t, NonceLeft
  <2> QED
    BY <1>2, <1>4, <2>1, <2>2
<1>5. ASSUME NEW p \in Processes, Handle(p) \/ Fail(p)
      PROVE  \/ UNCHANGED <<used, nonces>>
             \/ /\ RecordNonce(p)
                /\ used' = Append(used, [request |-> Request(p), read |-> at[p].now,
                                         stored |-> clock])
  BY <1>5 DEF Handle, Fail, RecordNonce, ReadClock, SelectCount, InsertCount, LookUp,
              LockSequence, Allocate, Enqueue, tables, history
<1>6. CASE Tick
  <2>1. clock' = clock + 1 /\ UNCHANGED <<at, nonces, used>>
    BY <1>6 DEF Tick, tables, history
  <2>2. \A q \in Processes : at'[q].pc = "nonce" => at'[q].now <= clock'
    BY <1>t, <2>1 DEF ReplayInv, NonceInv
  <2>3. ASSUME NEW i \in DOMAIN used
        PROVE  \/ nonces[used[i].request] >= used[i].read + ReplayWindow
               \/ clock + 1 > used[i].read + ReplayWindow
    BY <1>t, <1>u DEF ReplayInv, NonceInv
  <2> QED
    BY <2>1, <2>2, <2>3 DEF ReplayInv, NonceInv, Spaced
<1>7. CASE UNCHANGED vars
  BY <1>7 DEF vars, tables, history, ReplayInv, NonceInv, Spaced
<1> QED
  BY <1>1, <1>3, <1>4, <1>5, <1>6, <1>7 DEF Next, Handle

(* A window lets through no more requests than its limit, together and for *)
(* each caller, whichever clocks the processes have read (rate_limit.allow);*)
(* and a request not stamped ahead of the clock that first took it is not  *)
(* taken again within its timestamp's window                               *)
(* (replay.validate_and_record_nonce): its row outlives that window.       *)
THEOREM AdmissionHolds == Spec => []AdmissionBounded
<1>1. ASSUME Typed, ReplayInv, NEW i \in DOMAIN used, NEW j \in DOMAIN used,
             i < j, used[i].request = used[j].request,
             Stamp[used[i].request] <= used[i].read
      PROVE  used[j].stored > Stamp[used[i].request] + ReplayWindow
  <2>1. used[i].request \in Requests /\ used[i].read \in Nat /\ used[j].stored \in Nat
    BY <1>1, UsesTyped
  <2>2. Stamp[used[i].request] \in Nat /\ ReplayWindow \in Nat
    BY <2>1, IntakeAssumption
  <2>3. used[j].stored > used[i].read + ReplayWindow
    BY <1>1 DEF ReplayInv, Spaced
  <2> QED
    BY <1>1, <2>1, <2>2, <2>3
<1>2. Typed /\ CountInv /\ ReplayInv => AdmissionBounded
  BY <1>1 DEF CountInv, AdmissionBounded
<1> QED
  BY <1>2, InitTyped, TypedStep, InitCount, CountStep, InitReplay, ReplayStep, PTL DEF Spec
=============================================================================
