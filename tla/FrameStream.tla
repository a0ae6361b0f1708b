---------------------------- MODULE FrameStream ----------------------------
(***************************************************************************)
(* The frames of one active session, from the request to the rows, in the  *)
(* steps of evaluate_frame (routers/proctoring.py) that can interleave or  *)
(* fail: inference in a worker's pool, the streak in Redis, the snapshot   *)
(* in S3, the commit.  Handlers are coroutines of any workers: a REST      *)
(* client may have several frames under way, a socket has one.             *)
(*                                                                         *)
(* Sessions do not share anything here; ProctoringSession has the start    *)
(* and the end of a session and several of them.                           *)
(***************************************************************************)
EXTENDS FrameAnalysis, FiniteSets

CONSTANTS
  Handlers,      \* coroutines
  Observations,  \* what a frame can show (see FrameAnalysis)
  Debounce,      \* settings.violation_debounce_frames
  MaxFrames,     \* bound: frames the clients send
  MaxFailures    \* bound: failures and expiries

Numbers == 1 .. MaxFrames
Modes   == {"exam", "interview"}

ASSUME Shapes == Observations \subseteq Pictures
ASSUME Sizes == Debounce \in Nat \ {0} /\ MaxFrames \in Nat /\ MaxFailures \in Nat

VARIABLES
  mode,        \* exam_sessions.mode
  sent,        \* how many frames were sent; frames are numbered as captured
  \* handlers
  step,        \* where the handler is
  frame,       \* the frame it evaluates
  result,      \* what was decided about it
  count,       \* the streak it was told
  \* Redis, S3 and the database
  streak,      \* violation_streak:<session>, count 0 when the key is absent
  snapshots,   \* frames whose picture was uploaded
  rows,        \* session_frames
  violations,  \* violations
  \* history and bounds
  judged,      \* verdicts in the order they reached Redis
  failures

handlers == <<step, frame, result, count>>
tables   == <<rows, violations>>
vars     == <<mode, sent, handlers, streak, snapshots, tables, judged, failures>>

NoStreak == [type |-> "none", count |-> 0]
NoResult == [verdict |-> "none", confidence |-> 0,
             measured |-> [match |-> "unset", live |-> "unset", posed |-> FALSE]]

Init ==
  /\ mode \in Modes
  /\ sent = 0
  /\ step = [h \in Handlers |-> "idle"]
  /\ frame = [h \in Handlers |-> 0]
  /\ result = [h \in Handlers |-> NoResult]
  /\ count = [h \in Handlers |-> 0]
  /\ streak = NoStreak
  /\ snapshots = {} /\ rows = {} /\ violations = {}
  /\ judged = << >>
  /\ failures = 0

(* Mutations of the operators below: the type of the streak not compared,  *)
(* clean frames counted, the alarm one frame late, the row stored without  *)
(* its picture.                                                            *)
AnyBump(k, v) == IF v = "none" THEN NoStreak ELSE [type |-> v, count |-> k.count + 1]
CleanCounts(k, v) == [type |-> v, count |-> IF k.type = v THEN k.count + 1 ELSE 1]
AlarmLate(n) == n > Debounce
StoreEarly(h) == step[h] \in {"upload", "store"}

-----------------------------------------------------------------------------
(* A frame arrives; the reference embedding is loaded.                     *)
Request(h) ==
  /\ step[h] = "idle" /\ sent < MaxFrames
  /\ sent' = sent + 1
  /\ frame' = [frame EXCEPT ![h] = sent + 1]
  /\ step' = [step EXCEPT ![h] = "infer"]
  /\ UNCHANGED <<mode, result, count, streak, snapshots, tables, judged, failures>>

(* run_inference(_analyze_frame)                                           *)
Analyze(h, o) ==
  /\ step[h] = "infer"
  /\ result' = [result EXCEPT ![h] = [verdict    |-> Verdict(o, mode),
                                      confidence |-> Confidence(o, mode),
                                      measured   |-> Measured(o)]]
  /\ step' = [step EXCEPT ![h] = "bump"]
  /\ UNCHANGED <<mode, sent, frame, count, streak, snapshots, tables, judged, failures>>

(* The script _BUMP, or the deletion of the key by a clean frame           *)
Bumped(k, v) ==
  IF v = "none" THEN NoStreak
  ELSE [type |-> v, count |-> IF k.type = v THEN k.count + 1 ELSE 1]

Alarm(n) == n >= Debounce

(* evaluate_frame: count the streak, and decide whether to upload          *)
Bump(h) ==
  LET k == Bumped(streak, result[h].verdict) IN
  /\ step[h] = "bump"
  /\ streak' = k
  /\ count' = [count EXCEPT ![h] = k.count]
  /\ judged' = Append(judged, [frame |-> frame[h], verdict |-> result[h].verdict])
  /\ step' = [step EXCEPT ![h] = IF Alarm(k.count) THEN "upload" ELSE "store"]
  /\ UNCHANGED <<mode, sent, frame, result, snapshots, tables, failures>>

(* upload_image returns the key of a stored object.                        *)
Upload(h) ==
  /\ step[h] = "upload"
  /\ snapshots' = snapshots \cup {frame[h]}
  /\ step' = [step EXCEPT ![h] = "store"]
  /\ UNCHANGED <<mode, sent, frame, result, count, streak, tables, judged, failures>>

Row(h) == [frame |-> frame[h], verdict |-> result[h].verdict, measured |-> result[h].measured]
Violation(h) == [frame |-> frame[h], type |-> result[h].verdict, confidence |-> result[h].confidence]

Ready(h) == step[h] = "store"

Idle(h) ==
  /\ step' = [step EXCEPT ![h] = "idle"]
  /\ frame' = [frame EXCEPT ![h] = 0]
  /\ result' = [result EXCEPT ![h] = NoResult]
  /\ count' = [count EXCEPT ![h] = 0]

(* evaluate_frame: one commit for the frame and its violation              *)
Store(h) ==
  /\ Ready(h)
  /\ rows' = rows \cup {Row(h)}
  /\ violations' = IF Alarm(count[h]) THEN violations \cup {Violation(h)} ELSE violations
  /\ Idle(h)
  /\ UNCHANGED <<mode, sent, streak, snapshots, judged, failures>>

(* The picture cannot be decoded, or Redis, S3 or the database raises, or  *)
(* the worker dies: what was bumped and uploaded stays.                    *)
Fail(h) ==
  /\ step[h] # "idle" /\ failures < MaxFailures
  /\ failures' = failures + 1
  /\ Idle(h)
  /\ UNCHANGED <<mode, sent, streak, snapshots, tables, judged>>

(* The key expires or is lost: to the streak it is a clean frame.          *)
Expire ==
  /\ streak.count > 0 /\ failures < MaxFailures
  /\ failures' = failures + 1
  /\ streak' = NoStreak
  /\ judged' = Append(judged, [frame |-> 0, verdict |-> "none"])
  /\ UNCHANGED <<mode, sent, handlers, snapshots, tables>>

Next ==
  \/ \E h \in Handlers :
       \/ Request(h) \/ Bump(h) \/ Upload(h) \/ Store(h) \/ Fail(h)
       \/ \E o \in Observations : Analyze(h, o)
  \/ Expire

Spec == Init /\ [][Next]_vars

-----------------------------------------------------------------------------
(* Properties                                                              *)

Types    == {"candidate_missing", "multiple_people", "face_mismatch", "liveness_failed", "looking_away"}
Verdicts == Types \cup {"none"}
Facts    == [match : {"unset", "yes", "no"}, live : {"unset", "yes", "no"}, posed : BOOLEAN]

(* Types of the handlers, of the streak and of the rows                    *)
TypeOK ==
  /\ mode \in Modes
  /\ sent \in 0 .. MaxFrames
  /\ step \in [Handlers -> {"idle", "infer", "bump", "upload", "store"}]
  /\ frame \in [Handlers -> 0 .. MaxFrames]
  /\ result \in [Handlers -> [verdict : Verdicts, confidence : Int, measured : Facts]]
  /\ count \in [Handlers -> Nat]
  /\ streak \in [type : Verdicts, count : Nat]
  /\ snapshots \subseteq Numbers
  /\ rows \subseteq [frame : Numbers, verdict : Verdicts, measured : Facts]
  /\ violations \subseteq [frame : Numbers, type : Types, confidence : Int]
  /\ judged \in Seq([frame : 0 .. MaxFrames, verdict : Verdicts])
  /\ failures \in Nat

(* The hash in Redis is the run of equal verdicts at the end of what was   *)
(* judged, whoever judged it and whatever failed in between: not a frame   *)
(* more or less ("a frame with the same violation type increments count; a *)
(* different type restarts at 1; a clean frame deletes it").               *)
StreakIsRun ==
  LET n == Len(judged)
      c == streak.count
  IN  /\ c <= n
      /\ c = 0 <=> n = 0 \/ judged[n].verdict = "none"
      /\ c > 0 => /\ \A k \in n - c + 1 .. n : judged[k].verdict = streak.type
                  /\ n = c \/ judged[n - c].verdict # streak.type

(* No violation names a snapshot that was not stored, and none is recorded *)
(* without its frame, although the upload, the commit and other handlers   *)
(* may each fail.                                                          *)
SnapshotsStored ==
  \A v \in violations :
    v.frame \in snapshots /\ \E r \in rows : r.frame = v.frame /\ r.verdict = v.type

(* A frame that counts as clean, and so raises the trust score, was        *)
(* matched, found live and posed; a violation is stored with the           *)
(* measurement that shows it and no later one.                             *)
RowsTellWhy ==
  \A r \in rows :
    /\ r.verdict \in {"none", "looking_away"}
         <=> r.measured.match = "yes" /\ r.measured.live = "yes" /\ r.measured.posed
    /\ r.verdict = "face_mismatch" <=> r.measured.match = "no"
    /\ r.verdict = "liveness_failed" <=> r.measured.live = "no"
    /\ r.verdict = "looking_away" => mode = "exam"

(* A mismatch or a spoof is recorded with a confidence above what its      *)
(* threshold leaves: "or 0" in evaluate_frame never replaces a score.      *)
ConfidenceFollows ==
  \A v \in violations :
    /\ v.type = "face_mismatch" => v.confidence > 1000 - MatchThreshold
    /\ v.type = "liveness_failed" => v.confidence > 1000 - LiveThreshold

(* Debouncing keeps its promise in the order of judging: FrameStream       *)
(* implements EvidenceLog.                                                 *)
Evidence == INSTANCE EvidenceLog
              WITH stored <- {r.frame : r \in rows}, flagged <- {v.frame : v \in violations}
FlagsRuns == Evidence!Spec
=============================================================================
