--------------------------- MODULE RetentionPolicy ---------------------------
(***************************************************************************)
(* What maintenance promises about stored rows, without workers or locks   *)
(* (config.py: frames and finished webhooks are deleted after so many days,*)
(* "violations, snapshots and session results are kept"): a frame goes     *)
(* only when it is old, an event only when it is old and settled, and the  *)
(* result of a session is fixed once.                                      *)
(***************************************************************************)
EXTENDS Integers

CONSTANTS Frames, Sessions, Subscribed, Retention

VARIABLES now, frames, pending, settled,
          at,        \* when a frame or an event was inserted
          results    \* sessions that have a result, with the frames it counts

vars == <<now, frames, pending, settled, at, results>>

Init ==
  /\ now = 0 /\ frames = {} /\ pending = {} /\ settled = {} /\ results = {}
  /\ at = [r \in Frames \cup Subscribed |-> -1]

Old(r) == at[r] < now - Retention

Pass == now' = now + 1 /\ UNCHANGED <<frames, pending, settled, at, results>>

Insert(f) ==
  /\ at[f] = -1 /\ at' = [at EXCEPT ![f] = now]
  /\ frames' = frames \cup {f}
  /\ UNCHANGED <<now, pending, settled, results>>

Settle(r) ==
  /\ r \in pending /\ pending' = pending \ {r} /\ settled' = settled \cup {r}
  /\ UNCHANGED <<now, frames, at, results>>

Drop(F, D) ==
  /\ \A r \in F \cup D : Old(r)
  /\ frames' = frames \ F /\ settled' = settled \ D
  /\ UNCHANGED <<now, pending, at, results>>

Conclude(s, F) ==
  /\ \A r \in results : r.session # s
  /\ results' = results \cup {[session |-> s, counts |-> F]}
  /\ IF s \in Subscribed THEN pending' = pending \cup {s} /\ at' = [at EXCEPT ![s] = now]
                          ELSE UNCHANGED <<pending, at>>
  /\ UNCHANGED <<now, frames, settled>>

Next ==
  \/ Pass
  \/ \E f \in Frames : Insert(f)
  \/ \E s \in Subscribed : Settle(s)
  \/ \E F \in SUBSET frames, D \in SUBSET settled : Drop(F, D)
  \/ \E s \in Sessions, F \in SUBSET Frames : Conclude(s, F)

Spec == Init /\ [][Next]_vars
=============================================================================
