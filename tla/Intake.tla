------------------------------- MODULE Intake -------------------------------
(***************************************************************************)
(* A signed webhook request on its way to the queue (webhook/api.py,       *)
(* alerts): the replay guard (webhook/replay.py), the two rate limits      *)
(* (webhook/rate_limit.py), the contract of the payload                    *)
(* (webhook/alert_contract.py), and for each alert of the batch the        *)
(* allocation of its incident id (webhook/incident_store.py) and its       *)
(* admission, which JobQueue has in detail.                                *)
(*                                                                         *)
(* Handlers are synchronous inside, so a process has one request at work;  *)
(* processes interleave between the statements of their transactions.  A   *)
(* request that fails its size, signature or source check changes nothing  *)
(* and is left out.                                                        *)
(***************************************************************************)
EXTENDS Integers, FiniteSets, Sequences

CONSTANTS
    Processes,
    Requests,       \* signed requests: one nonce each
    Stamp,          \* the signed timestamp of each
    Caller,         \* the address each comes from
    Batch,          \* the alerts of each, a sequence
    Malformed,      \* requests whose payload breaks the alert contract
    Alerts,
    Key,            \* fingerprint, service, time bucket and tenant of each alert
    Supplied,       \* the incident id an alert brings, 0 for none
    Foreign,        \* alerts of another tenant
    FirstId,        \* incident_id_sequence at first
    Limit,          \* of "global" and of each caller
    RateWindow, ReplayWindow,
    MaxTime, MaxSends, MaxFaults,  \* bounds, see README
    None

Callers == {Caller[r] : r \in Requests}
Keys == {Key[a] : a \in Alerts}
LimitKeys == Callers \cup {"global"}
WindowOf(time) == time \div RateWindow
Windows == 0 .. WindowOf(MaxTime)

ASSUME IntakeAssumption ==
    /\ Stamp \in [Requests -> Nat]
    /\ Batch \in [Requests -> Seq(Alerts)] /\ \A r \in Requests : Batch[r] # <<>>
    /\ Malformed \subseteq Requests /\ Foreign \subseteq Alerts
    /\ Supplied \in [Alerts -> Nat] /\ FirstId \in Nat \ {0}
    /\ "global" \notin Callers /\ Limit \in [LimitKeys -> Nat \ {0}]
    /\ RateWindow \in Nat \ {0} /\ ReplayWindow \in Nat
    /\ MaxTime \in Nat /\ MaxSends \in Nat /\ MaxFaults \in Nat
    /\ None \notin Processes

VARIABLES
    clock,
    nonces,     \* webhook_nonces: expires_at of each nonce's row, -1 for none
    counts,     \* webhook_rate_limits: request_count by key and window, 0 for none
    idMap,      \* incident_id_map: the id of each key, 0 for none
    sequence,   \* next_value of incident_id_sequence
    lock,       \* the process that holds the row of incident_id_sequence
    events,     \* incident_events: the incident of each alert's event, 0 for none
    at,         \* what each process is doing
    used,       \* uses of nonces: when their clock was read, when they were stored
    passed,     \* requests a limiter has let through, by key and window
    answered,   \* requests answered 200
    sends, faults

tables == <<nonces, counts, idMap, sequence, lock, events>>
history == <<used, passed, answered>>
vars == <<clock, tables, at, history, sends, faults>>

(* by: the limiter a request is at; now: the time the running check has    *)
(* read; next: index in the batch; id: what the map or sequence gave.      *)
Free == [pc |-> "free", request |-> None, by |-> "global", now |-> 0, next |-> 1, id |-> 0]

Goes(p, pc) == at' = [at EXCEPT ![p].pc = pc]
Ends(p) == at' = [at EXCEPT ![p] = Free]
Request(p) == at[p].request

-----------------------------------------------------------------------------
(* A request arrives, for the first time or again, and its timestamp is    *)
(* compared with the clock.                                                *)
Near(r, now) == now - Stamp[r] \in -ReplayWindow .. ReplayWindow

Arrive(p, r) ==
    /\ at[p].pc = "free"
    /\ sends < MaxSends /\ sends' = sends + 1
    /\ Near(r, clock)
    /\ at' = [at EXCEPT ![p] = [Free EXCEPT !.pc = "nonce", !.request = r, !.now = clock]]
    /\ UNCHANGED <<clock, tables, history, faults>>

(* Expired rows go; the primary key tells whether the nonce was used, and  *)
(* if it was the deletion is rolled back with the insert.                  *)
Outlived(expiry, now) == expiry < now

RecordNonce(p) ==
    LET r == Request(p)
        now == at[p].now
        kept == [n \in Requests |-> IF Outlived(nonces[n], now) THEN -1 ELSE nonces[n]]
    IN  /\ at[p].pc = "nonce"
        /\ \/ /\ kept[r] = -1
              /\ nonces' = [kept EXCEPT ![r] = now + ReplayWindow]
              /\ used' = Append(used, [request |-> r, read |-> now, stored |-> clock])
              /\ at' = [at EXCEPT ![p].pc = "limit", ![p].now = 0]
           \/ /\ kept[r] # -1
              /\ Ends(p)
              /\ UNCHANGED <<nonces, used>>
        /\ UNCHANGED <<clock, counts, idMap, sequence, lock, events, passed, answered,
                       sends, faults>>

-----------------------------------------------------------------------------
(* allow: a fixed window, counted in one row; first the global limit, then *)
(* the caller's.                                                           *)

LimitKey(p) == IF at[p].by = "global" THEN "global" ELSE Caller[Request(p)]

ReadClock(p) ==
    /\ at[p].pc = "limit"
    /\ at' = [at EXCEPT ![p].now = clock, ![p].pc = "select"]
    /\ UNCHANGED <<clock, tables, history, sends, faults>>

(* The rows of the window before stay, for a process whose clock was read  *)
(* before the window changed.                                              *)
Past_ThePresent(w, window) == w < window
Past(w, window) == w < window - 1
Swept(window) ==
    [k \in LimitKeys |->
       [w \in Windows |-> IF Past(w, window) THEN 0 ELSE counts[k][w]]]

(* A contract violation is answered before any alert is looked at.         *)
LetThrough(p, rows, window) ==
    /\ counts' = [rows EXCEPT ![LimitKey(p)][window] = rows[LimitKey(p)][window] + 1]
    /\ passed' = [passed EXCEPT ![LimitKey(p)][window] = passed[LimitKey(p)][window] + 1]
    /\ IF at[p].by = "global"
       THEN at' = [at EXCEPT ![p].by = "caller", ![p].pc = "limit", ![p].now = 0]
       ELSE IF Request(p) \in Malformed THEN Ends(p)
       ELSE at' = [at EXCEPT ![p].pc = "alert", ![p].now = 0]

(* SELECT ... FOR UPDATE locks the row to the commit, where there is one.  *)
SelectCount(p) ==
    LET window == WindowOf(at[p].now)
        rows == Swept(window)
        count == rows[LimitKey(p)][window]
    IN  /\ at[p].pc = "select"
        /\ \/ /\ count >= Limit[LimitKey(p)]
              /\ counts' = rows
              /\ Ends(p)
              /\ UNCHANGED passed
           \/ /\ count \in 1 .. Limit[LimitKey(p)] - 1
              /\ LetThrough(p, rows, window)
           \/ /\ count = 0
              /\ Goes(p, "first")
              /\ UNCHANGED <<counts, passed>>
        /\ UNCHANGED <<clock, nonces, idMap, sequence, lock, events, used, answered,
                       sends, faults>>

(* Without a row two first requests both come here: the second insert      *)
(* fails, on the key or as the victim of a deadlock, and with it the       *)
(* request (500).                                                          *)
InsertCount(p) ==
    LET window == WindowOf(at[p].now)
        rows == Swept(window)
    IN  /\ at[p].pc = "first"
        /\ \/ rows[LimitKey(p)][window] = 0 /\ LetThrough(p, rows, window)
           \/ rows[LimitKey(p)][window] > 0 /\ Ends(p) /\ UNCHANGED <<counts, passed>>
        /\ UNCHANGED <<clock, nonces, idMap, sequence, lock, events, used, answered,
                       sends, faults>>

-----------------------------------------------------------------------------
(* The alerts of the batch, one after the other.                           *)

Alert(p) == Batch[Request(p)][at[p].next]

(* An alert of another tenant ends the request where it is.                *)
LookUp(p) ==
    LET a == Alert(p)
        known == IF Supplied[a] # 0 THEN Supplied[a] ELSE idMap[Key[a]]
    IN  /\ at[p].pc = "alert"
        /\ \/ a \in Foreign /\ Ends(p)
           \/ /\ a \notin Foreign /\ known # 0
              /\ at' = [at EXCEPT ![p].id = known, ![p].pc = "enqueue"]
           \/ a \notin Foreign /\ known = 0 /\ Goes(p, "sequence")
        /\ UNCHANGED <<clock, tables, history, sends, faults>>

(* The row of the sequence is read and locked.                             *)
SequenceFree_Unlocked(p) == TRUE
SequenceFree(p) == lock = None
LockSequence(p) ==
    /\ at[p].pc = "sequence" /\ SequenceFree(p)
    /\ lock' = p
    /\ at' = [at EXCEPT ![p].id = sequence, ![p].pc = "allocate"]
    /\ UNCHANGED <<clock, nonces, counts, idMap, sequence, events, history, sends, faults>>

(* Under the lock the map is read again.  Key and id are unique in it.     *)
Allocate(p) ==
    LET key == Key[Alert(p)]
        id == at[p].id
    IN  /\ at[p].pc = "allocate"
        /\ \/ /\ idMap[key] # 0
              /\ at' = [at EXCEPT ![p].id = idMap[key], ![p].pc = "enqueue"]
              /\ UNCHANGED <<idMap, sequence>>
           \/ /\ idMap[key] = 0 /\ \A k \in Keys : idMap[k] # id
              /\ sequence' = id + 1
              /\ idMap' = [idMap EXCEPT ![key] = id]
              /\ Goes(p, "enqueue")
           \/ /\ idMap[key] = 0 /\ \E k \in Keys : idMap[k] = id
              /\ Goes(p, "duplicate")
              /\ UNCHANGED <<idMap, sequence>>
        /\ lock' = None
        /\ UNCHANGED <<clock, nonces, counts, events, history, sends, faults>>

(* record_event_and_enqueue: a known event is answered as a duplicate; a   *)
(* full queue ends the request (503).                                      *)
Onward(p) ==
    IF at[p].next = Len(Batch[Request(p)])
    THEN Ends(p) /\ answered' = answered \cup {Request(p)}
    ELSE /\ at' = [at EXCEPT ![p].next = at[p].next + 1, ![p].pc = "alert", ![p].id = 0]
         /\ UNCHANGED answered

QueueFull_Skipped(p) == Onward(p)
QueueFull(p) == Ends(p) /\ UNCHANGED answered

Enqueue(p) ==
    LET a == Alert(p)
    IN  /\ at[p].pc = "enqueue"
        /\ \/ events[a] # 0 /\ Onward(p) /\ UNCHANGED events
           \/ /\ events[a] = 0
              /\ events' = [events EXCEPT ![a] = at[p].id]
              /\ Onward(p)
           \/ /\ events[a] = 0
              /\ QueueFull(p)
              /\ UNCHANGED events
        /\ UNCHANGED <<clock, nonces, counts, idMap, sequence, lock, used, passed, sends, faults>>

-----------------------------------------------------------------------------
(* The process dies or its database does not answer; open transactions are *)
(* rolled back.                                                            *)
Fail(p) ==
    /\ at[p].pc # "free" /\ faults < MaxFaults
    /\ faults' = faults + 1
    /\ Ends(p)
    /\ lock' = IF lock = p THEN None ELSE lock
    /\ UNCHANGED <<clock, nonces, counts, idMap, sequence, events, history, sends>>

(* A statement comes less than a window after its clock was read: the      *)
(* waits for a connection and an answer have timeouts (settings.py).       *)
ShortWaits ==
    \A p \in Processes :
       at[p].pc \in {"select", "first"} => WindowOf(clock + 1) <= WindowOf(at[p].now) + 1

Tick ==
    /\ clock < MaxTime /\ ShortWaits
    /\ clock' = clock + 1
    /\ UNCHANGED <<tables, at, history, sends, faults>>

Init ==
    /\ clock = 0
    /\ nonces = [r \in Requests |-> -1]
    /\ counts = [k \in LimitKeys |-> [w \in Windows |-> 0]]
    /\ idMap = [k \in Keys |-> 0] /\ sequence = FirstId /\ lock = None
    /\ events = [a \in Alerts |-> 0]
    /\ at = [p \in Processes |-> Free]
    /\ used = <<>> /\ passed = counts /\ answered = {}
    /\ sends = 0 /\ faults = 0

Handle(p) ==
    \/ RecordNonce(p)
    \/ ReadClock(p)
    \/ SelectCount(p)
    \/ InsertCount(p)
    \/ LookUp(p)
    \/ LockSequence(p)
    \/ Allocate(p)
    \/ Enqueue(p)

Next ==
    \/ \E p \in Processes : (\E r \in Requests : Arrive(p, r)) \/ Handle(p) \/ Fail(p)
    \/ Tick

Spec == Init /\ [][Next]_vars

-----------------------------------------------------------------------------
(* Properties.                                                             *)

Steps == {"free", "nonce", "limit", "select", "first", "alert", "sequence", "allocate",
          "duplicate", "enqueue"}
TypeOK ==
    /\ clock \in 0 .. MaxTime
    /\ nonces \in [Requests -> Int]
    /\ counts \in [LimitKeys -> [Windows -> Nat]]
    /\ passed \in [LimitKeys -> [Windows -> Nat]]
    /\ idMap \in [Keys -> Nat] /\ sequence \in Nat \ {0}
    /\ lock \in Processes \cup {None}
    /\ events \in [Alerts -> Nat]
    /\ at \in [Processes -> [pc : Steps, request : Requests \cup {None},
                            by : {"global", "caller"}, now : 0 .. MaxTime,
                            next : Nat \ {0}, id : Nat]]
    /\ used \in Seq([request : Requests, read : 0 .. MaxTime, stored : 0 .. MaxTime])
    /\ answered \subseteq Requests

(* However many processes meet the first alerts of buckets, a bucket gets  *)
(* one id and an id one bucket, ids that are still to come are fresh, and  *)
(* no intake fails on a duplicate (get_or_create_incident_id).             *)
IdsConverge ==
    /\ \A k, l \in Keys : (idMap[k] # 0 /\ idMap[k] = idMap[l]) => k = l
    /\ \A k \in Keys : idMap[k] < sequence
    /\ \A p \in Processes : at[p].pc # "duplicate"

(* A request that is answered 200 has an event of each of its alerts, and  *)
(* whichever process, batch or retry brought an alert, its event is filed  *)
(* under the id of its bucket or the id it came with (alerts).             *)
AnsweredIsStored ==
    /\ \A r \in answered : \A i \in DOMAIN Batch[r] : events[Batch[r][i]] # 0
    /\ \A a \in Alerts : events[a] # 0 =>
          events[a] = IF Supplied[a] # 0 THEN Supplied[a] ELSE idMap[Key[a]]

(* A window lets no more requests through than its limit, for all callers  *)
(* together and for each, whatever clocks the processes have read (allow); *)
(* and a request that was not stamped ahead of the clock that first took   *)
(* it is not taken again up to the end of its timestamp's window           *)
(* (validate_and_record_nonce).  This is less than one use of each nonce:  *)
(* a row lives from its use, a timestamp from its stamp, so a request      *)
(* stamped ahead is taken twice, and so may be one whose timestamp was     *)
(* compared in the window and whose insert came after it (README,          *)
(* Findings).                                                              *)
AdmissionBounded ==
    /\ \A k \in LimitKeys, w \in Windows : passed[k][w] <= Limit[k]
    /\ \A i, j \in DOMAIN used :
          LET r == used[i].request
          IN  (i < j /\ used[j].request = r /\ Stamp[r] <= used[i].read) =>
                 used[j].stored > Stamp[r] + ReplayWindow
=============================================================================
