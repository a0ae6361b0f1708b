---------------------------- MODULE EvidenceLog ----------------------------
(***************************************************************************)
(* What debouncing promises about one session, without Redis, S3 or        *)
(* handlers: verdicts are judged one after the other; a judged frame may   *)
(* be stored once; and it is stored with a violation exactly when it is    *)
(* the last of Debounce equal verdicts.                                    *)
(***************************************************************************)
EXTENDS Naturals, Sequences

CONSTANTS Numbers, Verdicts, Debounce

VARIABLES judged,    \* the verdicts in the order they were judged
          stored,    \* frames stored
          flagged    \* those stored with a violation

vars == <<judged, stored, flagged>>

(* The i-th verdict completes a run of at least Debounce equal ones.       *)
Earned(i) ==
  /\ judged[i].verdict # "none" /\ i >= Debounce
  /\ \A k \in i - Debounce + 1 .. i : judged[k].verdict = judged[i].verdict

Init == judged = << >> /\ stored = {} /\ flagged = {}

Judge(n, v) ==
  /\ judged' = Append(judged, [frame |-> n, verdict |-> v])
  /\ UNCHANGED <<stored, flagged>>

Store(i) ==
  LET n == judged[i].frame IN
  /\ n \in Numbers \ stored
  /\ stored' = stored \cup {n}
  /\ flagged' = IF Earned(i) THEN flagged \cup {n} ELSE flagged
  /\ UNCHANGED judged

Next == \/ \E n \in Numbers \cup {0} : \E v \in Verdicts : Judge(n, v)
        \/ \E i \in DOMAIN judged : Store(i)

Spec == Init /\ [][Next]_vars
=============================================================================
