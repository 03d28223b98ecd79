-------------------------- MODULE MCInterpretation --------------------------
(* A small instance of Interpretation for TLC.                             *)
EXTENDS Interpretation

CONSTANTS e1, e2, e3

Plain(e) == [event |-> e, signal |-> None, outcome |-> None, workload |-> 1,
             execution |-> 0, first |-> 1, last |-> 1, ordered |-> TRUE,
             effect |-> FALSE, detection |-> 0, upstream |-> FALSE]
Signal(e, cause) == [Plain(e) EXCEPT !.signal = cause]
Later(e, outcome) == [Plain(e) EXCEPT !.outcome = outcome, !.first = 2, !.last = 2]
Detected(e, points) == [Plain(e) EXCEPT !.detection = points]

Seen(groups) == [groups |-> groups, traffic |-> 0]

SmallPictures ==
    {(* a failure after the machine went down, beside a weak detection *)
     Seen(<<Signal(e1, "machine_down"), Later(e2, "failed"), Detected(e3, 30)>>),
     (* two candidates that are tied *)
     Seen(<<Signal(e1, "disk_full"), Detected(e2, 60)>>),
     (* a disconnection that was followed by a restart *)
     Seen(<<Signal(e1, "network_disconnection"), Later(e2, "started")>>),
     (* two causes at once *)
     Seen(<<Signal(e1, "disk_full"), Signal(e3, "machine_down"), Later(e2, "failed")>>),
     (* a detection and a signal on one event, and traffic *)
     [groups |-> <<[Signal(e1, "disk_full") EXCEPT !.detection = 80]>>, traffic |-> 30],
     (* failed, then started again; a dependency *)
     Seen(<<Signal(e1, "machine_down"), Later(e2, "failed"),
            [Later(e3, "started") EXCEPT !.upstream = TRUE]>>),
     (* the failure is another execution's *)
     Seen(<<[Signal(e1, "network_disconnection") EXCEPT !.execution = 1],
            [Later(e2, "failed") EXCEPT !.execution = 2]>>),
     (* the failure was before *)
     Seen(<<[Signal(e1, "machine_down") EXCEPT !.first = 3, !.last = 3],
            Later(e2, "failed")>>)}

SmallLinks == {<<e1, e2>>, <<e1, e1>>, <<AlertEvent, e1>>, <<External, e1>>, <<e3, Unknown>>}

Says(status, ids) == [status |-> status, ids |-> ids]

(* Hypotheses that cite the right events, wrong ones, or too many.         *)
SmallProposals ==
    {[rank |-> r, confidence |-> "high", support |-> s, contradict |-> {e2, e3},
      cause |-> Says("observed", c), mechanism |-> Says("observed", m),
      impact |-> Says("inferred", IF c = {e1} THEN {e2} ELSE {e1})] :
        r \in {1, 2}, s \in {{e1, e2}, {e1, Unknown}},
        c \in {{e1}, {e1, e2}}, m \in {{e1, e2}}}

SmallSteps ==
    {[class |-> "proposal", type |-> "proposal", approval |-> TRUE],
     [class |-> "unknown", type |-> "read_only", approval |-> FALSE],
     [class |-> "execution_claim", type |-> "proposal", approval |-> TRUE]}
(* Until the next interpretation the thread does not read the last one.    *)
LiveState ==
    IF Reviewed THEN vars
    ELSE <<node, picture, failed, truncated, assessment, chain, rounds, reviews, runs>>
=============================================================================
