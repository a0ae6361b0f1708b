--------------------------- MODULE SessionOutcome ---------------------------
(***************************************************************************)
(* What the backend promises about the outcome of an exam session, without *)
(* locks, statements or processes:                                         *)
(*                                                                         *)
(*  - a session is opened once and ended once, with one of three outcomes; *)
(*  - ending is atomic: the frozen frame count, the trust score and the    *)
(*    list in the report are all functions of the evidence recorded at one *)
(*    and the same instant;                                                *)
(*  - the session.ended event is queued in that same instant, exactly once *)
(*    if the organization has a webhook and never otherwise, and says what *)
(*    was frozen;                                                          *)
(*  - evidence may still be recorded after the end (a frame that was under *)
(*    evaluation), but it changes neither the outcome nor the event.       *)
(*                                                                         *)
(* ProctoringSession implements this specification.                        *)
(***************************************************************************)
EXTENDS Integers, Sequences, TrustScore

CONSTANTS Sessions,    \* exam sessions
          Subscribed,  \* those whose organization has webhook_url and webhook_secret
          Times        \* values of ended_at

VARIABLES status,      \* exam_sessions.status, "absent" before the insert
          rows,        \* what session_frames and violations hold about a session
          result,      \* frames_evaluated, trust_score, ended_at
          outbox       \* the session.ended rows of webhook_deliveries

vars == <<status, rows, result, outbox>>

Outcomes == {"completed", "terminated", "abandoned"}

NoRows   == [frames |-> 0, clean |-> 0, flagged |-> 0, events |-> 0, last |-> -1]
NoResult == [frames |-> 0, trust |-> NoScore, endedAt |-> -1]

(* The outcome of a session whose evidence is r                            *)
Frozen(r, at) ==
  [frames |-> r.frames, trust |-> Score(r.frames, r.clean, r.events), endedAt |-> at]

(* The session.ended payload: the frozen outcome and every violation       *)
Event(o, res, r) ==
  [status |-> o, frames |-> res.frames, trust |-> res.trust,
   endedAt |-> res.endedAt, listed |-> r.flagged + r.events]

Init ==
  /\ status = [s \in Sessions |-> "absent"]
  /\ rows   = [s \in Sessions |-> NoRows]
  /\ result = [s \in Sessions |-> NoResult]
  /\ outbox = [s \in Sessions |-> << >>]

Open(s) ==
  /\ status[s] = "absent"
  /\ status' = [status EXCEPT ![s] = "active"]
  /\ \E t \in Times : rows' = [rows EXCEPT ![s].last = t]
  /\ UNCHANGED <<result, outbox>>

(* One frame, with or without a violation, or one client event             *)
Record(s) ==
  /\ status[s] # "absent"
  /\ rows' = [rows EXCEPT ![s] = rows'[s]]
  /\ \/ /\ rows'[s].frames = rows[s].frames + 1
        /\ rows'[s].clean - rows[s].clean \in {0, 1}
        /\ rows'[s].flagged - rows[s].flagged \in {0, 1}
        /\ rows'[s].events = rows[s].events
     \/ /\ rows'[s].events = rows[s].events + 1
        /\ rows'[s].frames = rows[s].frames
        /\ rows'[s].clean = rows[s].clean
        /\ rows'[s].flagged = rows[s].flagged
  /\ UNCHANGED <<status, result, outbox>>

End(s, o) ==
  /\ status[s] = "active"
  /\ status' = [status EXCEPT ![s] = o]
  /\ \E t \in Times : result' = [result EXCEPT ![s] = Frozen(rows[s], t)]
  /\ outbox' = IF s \in Subscribed
               THEN [outbox EXCEPT ![s] = Append(@, Event(o, result'[s], rows[s]))]
               ELSE outbox
  /\ UNCHANGED rows

Next == \E s \in Sessions : Open(s) \/ Record(s) \/ \E o \in Outcomes : End(s, o)

Spec == Init /\ [][Next]_vars
=============================================================================
