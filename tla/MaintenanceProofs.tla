-------------------------- MODULE MaintenanceProofs --------------------------
(***************************************************************************)
(* Theorems about Maintenance, for every set of workers, sessions and      *)
(* frames and every number of faults.                                      *)
(***************************************************************************)
EXTENDS Maintenance, FiniteSetTheorems, TLAPS

(* Settled or not, an event is that of an ended session, and so is a       *)
(* result; ...                                                             *)
OnlyEnded ==
  /\ \A s \in pending \cup settled : status[s] = "ended"
  /\ \A r \in results : status[r.session] = "ended"

(* ... sessions have started in the past; ...                             *)
Begun == \A s \in Sessions : started[s] <= now

(* ... frames belong to a session that was opened, and are taken within    *)
(* MaxExam of its start; ...                                               *)
InExam ==
  \A f \in Frames :
    /\ f \in frames => at[f] # -1
    /\ at[f] # -1 => /\ status[f[1]] # "absent" /\ at[f] <= now
                     /\ started[f[1]] <= at[f] /\ at[f] <= started[f[1]] + MaxExam

(* ... nobody is at it for longer than MaxRun; ...                         *)
Timely == \A w \in Workers : Busy(w) => began[w] <= now /\ now <= began[w] + MaxRun

(* ... the purge's cutoff is past retention; ...                           *)
CutoffPast == \A w \in Workers : phase[w] \in {"purge", "hooks"} => cutoff[w] <= now - Retention

(* ... a session that the sweep leaves alone has started late enough for   *)
(* its frames to survive the purge that follows; ...                       *)
Spared ==
  \A w \in Workers, s \in Sessions :
    status[s] = "active" /\ s \notin missed =>
      /\ phase[w] = "visit" /\ s \notin todo[w] => started[s] >= began[w] - IdleTimeout - MaxExam
      /\ phase[w] = "purge" => started[s] >= cutoff[w]

(* ... so that no active session has lost a frame.                         *)
Complete ==
  \A f \in Frames :
    at[f] # -1 /\ f \notin frames => status[f[1]] = "ended" \/ f[1] \in missed

Inv ==
  /\ TypeOK /\ OnlyEnded /\ Begun /\ InExam /\ Timely /\ CutoffPast /\ Spared /\ Complete
  /\ ScoredBeforePurged

LEMMA InvInit == Init => Inv
<1> SUFFICES ASSUME Init PROVE Inv
  OBVIOUS
<1>1. TypeOK
  BY LockIsFree, Durations DEF Init, TypeOK
<1>2. OnlyEnded /\ Begun /\ InExam /\ Timely /\ CutoffPast /\ Spared /\ Complete /\ ScoredBeforePurged
  BY DEF Init, OnlyEnded, Begun, InExam, Timely, CutoffPast, Spared, Complete, ScoredBeforePurged, Busy
<1> QED BY <1>1, <1>2 DEF Inv

(* A frame is a pair of a session and a number, not a session.             *)
LEMMA FramesAreNotSessions ==
  ASSUME NEW f \in Frames PROVE f[1] \in Sessions /\ f \notin Sessions
BY RowIds

(* Ending an active session leaves it complete.                            *)
LEMMA Concluded ==
  ASSUME Inv, NEW s \in Sessions, status[s] = "active", Conclude(s)
  PROVE  /\ status' = [status EXCEPT ![s] = "ended"] /\ started' = started /\ settled' = settled
         /\ results' = results \cup {[session |-> s, counts |-> FramesOf(s)]}
         /\ FramesOf(s) \in SUBSET Frames
         /\ pending' \subseteq Subscribed /\ pending' \subseteq pending \cup {s} /\ settled \subseteq Subscribed \ pending'
         /\ at' \in [Frames \cup Subscribed -> -1 .. MaxTime]
         /\ \A f \in Frames : at'[f] = at[f]
<1>1. /\ status' = [status EXCEPT ![s] = "ended"] /\ started' = started /\ settled' = settled
      /\ results' = results \cup {[session |-> s, counts |-> FramesOf(s)]}
  BY DEF Conclude
<1>2. FramesOf(s) \in SUBSET Frames
  BY DEF FramesOf, Inv, TypeOK
<1>3. s \notin settled
  BY DEF Inv, OnlyEnded
<1>4. at' \in [Frames \cup Subscribed -> -1 .. MaxTime] /\ \A f \in Frames : at'[f] = at[f]
  BY FramesAreNotSessions, Durations DEF Conclude, Inv, TypeOK
<1>5. pending' \subseteq Subscribed /\ pending' \subseteq pending \cup {s} /\ settled \subseteq Subscribed \ pending'
  BY <1>3 DEF Conclude, Inv, TypeOK
<1> QED BY <1>1, <1>2, <1>4, <1>5

(* Whoever ends a session leaves the invariant in force.                   *)
LEMMA ConcludeKeeps ==
  ASSUME Inv, NEW s \in Sessions, status[s] = "active", Conclude(s),
         UNCHANGED <<now, frames, lock, phase, began, cutoff, missed, faults>>,
         todo' \in [Workers -> SUBSET Sessions],
         \A w \in Workers : todo[w] \subseteq todo'[w] \cup {s}
  PROVE  Inv'
<1>1. /\ status' = [status EXCEPT ![s] = "ended"] /\ started' = started /\ settled' = settled
      /\ results' = results \cup {[session |-> s, counts |-> FramesOf(s)]}
      /\ FramesOf(s) \in SUBSET Frames
      /\ pending' \subseteq Subscribed /\ pending' \subseteq pending \cup {s} /\ settled \subseteq Subscribed \ pending'
      /\ at' \in [Frames \cup Subscribed -> -1 .. MaxTime]
      /\ \A f \in Frames : at'[f] = at[f]
  BY Concluded
<1>2. status \in [Sessions -> {"absent", "active", "ended"}]
  BY DEF Inv, TypeOK
<1>3. TypeOK'
  BY <1>1 DEF Inv, TypeOK
<1>4. OnlyEnded' /\ Begun'
  BY <1>1, <1>2 DEF Inv, OnlyEnded, Begun, TypeOK
<1>5. InExam' /\ Complete'
  BY <1>1, <1>2, FramesAreNotSessions DEF Inv, InExam, Complete
<1>6. Timely' /\ CutoffPast'
  BY DEF Inv, Timely, CutoffPast, Busy
<1>7. Spared'
  BY <1>1, <1>2 DEF Inv, Spared
<1>8. s \notin missed => FramesOf(s) = {f \in Frames : f[1] = s /\ at[f] # -1}
  BY DEF Inv, Complete, InExam, FramesOf, TypeOK
<1>9. ScoredBeforePurged'
  <2>1. ASSUME NEW r \in results', r.session \notin missed
        PROVE  r.counts = {f \in Frames : f[1] = r.session /\ at[f] # -1}
    BY <1>1, <1>8, <2>1 DEF Inv, ScoredBeforePurged
  <2> QED BY <1>1, <2>1 DEF ScoredBeforePurged
<1> QED BY <1>3, <1>4, <1>5, <1>6, <1>7, <1>9 DEF Inv

-----------------------------------------------------------------------------
(* Time, sessions and events                                               *)

LEMMA TickKeeps == ASSUME Inv, Tick PROVE Inv'
<1> USE DEF Inv, Tick, sessions, hooks, workers
<1>1. now \in Nat /\ now' = now + 1 /\ began \in [Workers -> 0 .. MaxTime] /\ cutoff \in [Workers -> Int]
      /\ at \in [Frames \cup Subscribed -> -1 .. MaxTime]
  BY Durations DEF TypeOK
<1>2. TypeOK'
  BY Durations DEF TypeOK
<1>3. Timely'
  BY <1>1, Durations DEF Timely, Busy
<1>4. CutoffPast'
  <2>1. ASSUME NEW w \in Workers, phase[w] \in {"purge", "hooks"} PROVE cutoff[w] <= now' - Retention
    <3>1. cutoff[w] <= now - Retention /\ cutoff[w] \in Int
      BY <1>1, <2>1 DEF CutoffPast
    <3> QED BY <1>1, <3>1, Durations
  <2> QED BY <1>1, <2>1 DEF CutoffPast
<1>5. InExam'
  <2> SUFFICES ASSUME NEW f \in Frames, at[f] # -1 PROVE at[f] <= now + 1
    BY <1>1 DEF InExam
  <2>1. at[f] <= now /\ at[f] \in Int
    BY <1>1, Durations DEF InExam
  <2> QED BY <1>1, <2>1
<1>6. OnlyEnded' /\ Spared' /\ Complete' /\ ScoredBeforePurged'
  BY DEF OnlyEnded, Spared, Complete, ScoredBeforePurged
<1>7. Begun'
  <2> SUFFICES ASSUME NEW s \in Sessions PROVE started[s] <= now + 1
    BY <1>1 DEF Begun
  <2>1. started[s] <= now /\ started[s] \in Nat
    BY Durations DEF Begun, TypeOK
  <2> QED BY <1>1, <2>1
<1> QED BY <1>2, <1>3, <1>4, <1>5, <1>6, <1>7

LEMMA OpenKeeps == ASSUME Inv, NEW s \in Sessions, Open(s) PROVE Inv'
<1> USE DEF Inv, hooks, workers
<1>1. /\ status[s] = "absent" /\ status' = [status EXCEPT ![s] = "active"]
      /\ started' = [started EXCEPT ![s] = now] /\ now \in 0 .. MaxTime
      /\ UNCHANGED <<now, results, frames, hooks, at, lock, workers, missed, faults>>
  BY DEF Open, TypeOK
<1>2. /\ status \in [Sessions -> {"absent", "active", "ended"}] /\ started \in [Sessions -> 0 .. MaxTime]
      /\ began \in [Workers -> 0 .. MaxTime] /\ cutoff \in [Workers -> Int]
  BY DEF TypeOK
<1>3. TypeOK'
  BY <1>1 DEF TypeOK
<1>4. OnlyEnded' /\ Begun'
  BY <1>1, <1>2 DEF OnlyEnded, Begun, TypeOK
<1>5. InExam' /\ Complete'
  BY <1>1, <1>2, FramesAreNotSessions DEF InExam, Complete
<1>6. Timely' /\ CutoffPast' /\ ScoredBeforePurged'
  BY <1>1 DEF Timely, CutoffPast, Busy, ScoredBeforePurged
<1>7. Spared'
  <2>1. ASSUME NEW w \in Workers
        PROVE  /\ phase[w] = "visit" => now >= began[w] - IdleTimeout - MaxExam
               /\ phase[w] = "purge" => now >= cutoff[w]
    <3>1. phase[w] = "visit" => began[w] <= now
      BY DEF Timely, Busy
    <3>2. phase[w] = "purge" => cutoff[w] <= now - Retention
      BY DEF CutoffPast
    <3> QED BY <1>1, <1>2, <3>1, <3>2, Durations
  <2> QED BY <1>1, <1>2, <2>1 DEF Spared
<1> QED BY <1>3, <1>4, <1>5, <1>6, <1>7

LEMMA CaptureKeeps == ASSUME Inv, NEW f \in Frames, Capture(f) PROVE Inv'
<1> USE DEF Inv, sessions, hooks, workers
<1>1. /\ at[f] = -1 /\ status[f[1]] = "active" /\ now <= started[f[1]] + MaxExam
      /\ frames' = frames \cup {f} /\ at' = [at EXCEPT ![f] = now]
      /\ now \in 0 .. MaxTime /\ started[f[1]] \in Nat
      /\ UNCHANGED <<now, sessions, hooks, lock, workers, missed, faults>>
  BY FramesAreNotSessions, Durations DEF Capture, TypeOK
<1>2. at \in [Frames \cup Subscribed -> -1 .. MaxTime]
  BY DEF TypeOK
<1>3. TypeOK'
  BY <1>1, <1>2 DEF TypeOK
<1>4. OnlyEnded' /\ Begun' /\ Timely' /\ CutoffPast' /\ Spared'
  BY <1>1 DEF OnlyEnded, Begun, Timely, CutoffPast, Spared, Busy
<1>5. started[f[1]] <= now
  BY FramesAreNotSessions DEF Begun
<1>6. InExam' /\ Complete'
  BY <1>1, <1>2, <1>5, Durations DEF InExam, Complete
<1>7. ScoredBeforePurged'
  <2>1. \A r \in results : r.session # f[1]
    BY <1>1 DEF OnlyEnded
  <2>2. ASSUME NEW r \in results
        PROVE  {g \in Frames : g[1] = r.session /\ at'[g] # -1} = {g \in Frames : g[1] = r.session /\ at[g] # -1}
    BY <1>1, <1>2, <2>1
  <2> QED BY <1>1, <2>2 DEF ScoredBeforePurged
<1> QED BY <1>3, <1>4, <1>6, <1>7

LEMMA SettleKeeps == ASSUME Inv, NEW d \in Subscribed, Settle(d) PROVE Inv'
<1> USE DEF Inv, Settle, sessions, workers
<1>1. TypeOK' /\ OnlyEnded' /\ Begun'
  BY DEF TypeOK, OnlyEnded, Begun
<1>2. InExam' /\ Timely' /\ CutoffPast' /\ Spared' /\ Complete' /\ ScoredBeforePurged'
  BY DEF InExam, Timely, CutoffPast, Spared, Complete, ScoredBeforePurged, Busy
<1> QED BY <1>1, <1>2

-----------------------------------------------------------------------------
(* Workers                                                                 *)

LEMMA TryLockKeeps == ASSUME Inv, NEW w \in Workers, TryLock(w) PROVE Inv'
<1> USE DEF Inv, TryLock, Goto, sessions, hooks
<1>1. TypeOK'
  BY DEF TypeOK
<1>2. Timely'
  BY Durations DEF TypeOK, Timely, Busy
<1>3. CutoffPast' /\ Spared'
  BY DEF TypeOK, CutoffPast, Spared
<1>4. OnlyEnded' /\ Begun' /\ InExam' /\ Complete' /\ ScoredBeforePurged'
  BY DEF OnlyEnded, Begun, InExam, Complete, ScoredBeforePurged
<1> QED BY <1>1, <1>2, <1>3, <1>4

(* What is not stale has started, at the earliest, an exam's length before *)
(* the idle timeout.                                                       *)
LEMMA NotStale ==
  ASSUME Inv, NEW s \in Sessions, status[s] = "active", s \notin Stale
  PROVE  started[s] >= now - IdleTimeout - MaxExam
<1>1. now \in Nat /\ started[s] \in Nat /\ \A f \in Frames : at[f] \in Int
  BY Durations DEF Inv, TypeOK
<1>2. CASE ~(started[s] < now - IdleTimeout)
  BY <1>1, <1>2, Durations
<1>3. CASE \E f \in FramesOf(s) : ~(at[f] < now - IdleTimeout)
  <2>1. PICK f \in frames : f[1] = s /\ ~(at[f] < now - IdleTimeout)
    BY <1>3 DEF FramesOf
  <2>2. f \in Frames /\ at[f] <= started[s] + MaxExam
    BY <2>1 DEF Inv, TypeOK, InExam
  <2> QED BY <1>1, <2>1, <2>2, Durations
<1> QED BY <1>2, <1>3 DEF Stale

LEMMA QueryKeeps == ASSUME Inv, NEW w \in Workers, Query(w) PROVE Inv'
<1> USE DEF Inv, Goto, sessions, hooks
<1>1. PICK page \in SUBSET Stale :
         todo' = [todo EXCEPT ![w] = page] /\ missed' = missed \cup (Stale \ page)
  BY DEF Query
<1>2. /\ phase[w] = "query" /\ phase' = [phase EXCEPT ![w] = "visit"]
      /\ UNCHANGED <<now, sessions, frames, hooks, at, lock, began, cutoff, faults>>
      /\ Stale \subseteq Sessions
  BY DEF Query, Stale
<1>3. TypeOK'
  BY <1>1, <1>2 DEF TypeOK
<1>4. Timely' /\ CutoffPast'
  BY <1>2 DEF TypeOK, Timely, CutoffPast, Busy
<1>5. ASSUME NEW s \in Sessions, status[s] = "active", s \notin Stale
      PROVE  started[s] >= began[w] - IdleTimeout - MaxExam
  <2>1. started[s] >= now - IdleTimeout - MaxExam
    BY <1>5, NotStale
  <2>2. began[w] <= now
    BY <1>2 DEF Timely, Busy
  <2> QED BY <2>1, <2>2, Durations DEF TypeOK
<1>6. Spared'
  BY <1>1, <1>2, <1>5 DEF TypeOK, Spared
<1>7. OnlyEnded' /\ Begun' /\ InExam' /\ Complete' /\ ScoredBeforePurged'
  BY <1>1, <1>2 DEF OnlyEnded, Begun, InExam, Complete, ScoredBeforePurged
<1> QED BY <1>3, <1>4, <1>6, <1>7

LEMMA VisitKeeps == ASSUME Inv, NEW w \in Workers, NEW s \in Sessions, Visit(w, s) PROVE Inv'
<1>1. /\ todo' = [todo EXCEPT ![w] = todo[w] \ {s}] /\ s \in todo[w] /\ phase[w] = "visit"
      /\ UNCHANGED <<now, frames, lock, phase, began, cutoff, missed, faults>>
  BY DEF Visit
<1>2. todo' \in [Workers -> SUBSET Sessions] /\ \A v \in Workers : todo[v] \subseteq todo'[v] \cup {s}
  BY <1>1 DEF Inv, TypeOK
<1>3. CASE StillActive(s)
  BY <1>1, <1>2, <1>3, ConcludeKeeps DEF Visit, StillActive
<1>4. CASE ~StillActive(s)
  <2>1. UNCHANGED <<sessions, hooks, at>> /\ status[s] # "active"
    BY <1>4 DEF Visit, StillActive
  <2> USE DEF Inv, sessions, hooks
  <2>2. TypeOK' /\ Spared'
    BY <1>1, <1>2, <2>1 DEF TypeOK, Spared
  <2>3. OnlyEnded' /\ Begun' /\ InExam' /\ Timely' /\ CutoffPast' /\ Complete' /\ ScoredBeforePurged'
    BY <1>1, <2>1 DEF OnlyEnded, Begun, InExam, Timely, CutoffPast, Complete, ScoredBeforePurged, Busy
  <2> QED BY <2>2, <2>3
<1> QED BY <1>3, <1>4

LEMMA SweptKeeps == ASSUME Inv, NEW w \in Workers, Swept(w) PROVE Inv'
<1> USE DEF Inv, Swept, Goto, sessions, hooks
<1>1. now \in Nat /\ began[w] \in Nat /\ now <= began[w] + MaxRun /\ \A s \in Sessions : started[s] \in Nat
  BY Durations DEF TypeOK, Timely, Busy
<1>2. TypeOK'
  BY <1>1, Durations DEF TypeOK
<1>3. Timely' /\ CutoffPast'
  BY <1>1, Durations DEF TypeOK, Timely, CutoffPast, Busy
<1>4. ASSUME NEW s \in Sessions, status[s] = "active", s \notin missed
      PROVE  started[s] >= now - Retention
  <2>1. started[s] >= began[w] - IdleTimeout - MaxExam
    BY <1>4 DEF Spared
  <2> QED BY <1>1, <2>1, Durations, RetentionIsLong
<1>5. Spared'
  BY <1>4 DEF TypeOK, Spared
<1>6. OnlyEnded' /\ Begun' /\ InExam' /\ Complete' /\ ScoredBeforePurged'
  BY DEF OnlyEnded, Begun, InExam, Complete, ScoredBeforePurged
<1> QED BY <1>2, <1>3, <1>5, <1>6

LEMMA PurgeFramesKeeps == ASSUME Inv, NEW w \in Workers, PurgeFrames(w) PROVE Inv'
<1> USE DEF Inv, Goto, sessions, hooks
<1>1. PICK B \in SUBSET Expired(w), p \in {"hooks", "purge"} :
         frames' = frames \ B /\ phase' = [phase EXCEPT ![w] = p]
  BY DEF PurgeFrames
<1>2. /\ phase[w] = "purge"
      /\ UNCHANGED <<now, sessions, hooks, at, lock, began, todo, cutoff, missed, faults>>
  BY DEF PurgeFrames
<1>3. TypeOK'
  BY <1>1, <1>2 DEF TypeOK
<1>4. Timely' /\ CutoffPast' /\ Spared'
  BY <1>1, <1>2 DEF TypeOK, Timely, CutoffPast, Spared, Busy
<1>5. ASSUME NEW f \in B PROVE f \in Frames /\ (status[f[1]] = "ended" \/ f[1] \in missed)
  <2>1. f \in frames /\ f \in Frames /\ at[f] < cutoff[w] /\ f[1] \in Sessions
    BY FramesAreNotSessions DEF TypeOK, Expired
  <2>2. at[f] # -1 /\ started[f[1]] <= at[f] /\ status[f[1]] # "absent"
    BY <2>1 DEF InExam
  <2>3. ~(started[f[1]] >= cutoff[w])
    BY <2>1, <2>2, Durations DEF TypeOK
  <2>4. status[f[1]] # "active" \/ f[1] \in missed
    BY <1>2, <2>1, <2>3 DEF Spared
  <2> QED BY <2>1, <2>2, <2>4 DEF TypeOK
<1>6. InExam' /\ Complete'
  BY <1>1, <1>2, <1>5 DEF InExam, Complete
<1>7. OnlyEnded' /\ Begun' /\ ScoredBeforePurged'
  BY <1>2 DEF OnlyEnded, Begun, ScoredBeforePurged
<1> QED BY <1>3, <1>4, <1>6, <1>7

LEMMA PurgeHooksKeeps == ASSUME Inv, NEW w \in Workers, PurgeHooks(w) PROVE Inv'
<1> USE DEF Inv, PurgeHooks, Goto, sessions
<1>1. TypeOK'
  BY DEF TypeOK
<1>2. Timely' /\ CutoffPast' /\ Spared'
  BY DEF TypeOK, Timely, CutoffPast, Spared, Busy
<1>3. OnlyEnded' /\ Begun' /\ InExam' /\ Complete' /\ ScoredBeforePurged'
  BY DEF OnlyEnded, Begun, InExam, Complete, ScoredBeforePurged
<1> QED BY <1>1, <1>2, <1>3

(* So does a worker that stops before its next turn.                       *)
LEMMA SleepKeeps ==
  ASSUME Inv, NEW w \in Workers, Sleep(w), faults' \in Nat,
         UNCHANGED <<now, sessions, frames, hooks, at, missed>>
  PROVE  Inv'
<1> USE DEF Inv, Sleep, Goto, Freed, sessions, hooks
<1>1. TypeOK'
  BY Durations DEF TypeOK
<1>2. Timely' /\ CutoffPast' /\ Spared'
  BY DEF TypeOK, Timely, CutoffPast, Spared, Busy
<1>3. OnlyEnded' /\ Begun' /\ InExam' /\ Complete' /\ ScoredBeforePurged'
  BY DEF OnlyEnded, Begun, InExam, Complete, ScoredBeforePurged
<1> QED BY <1>1, <1>2, <1>3

LEMMA RestKeeps == ASSUME Inv, LoseLock \/ UNCHANGED vars PROVE Inv'
<1> USE DEF Inv, LoseLock, vars, sessions, hooks, workers
<1>1. TypeOK'
  BY DEF TypeOK
<1>2. Timely' /\ CutoffPast' /\ Spared' /\ OnlyEnded' /\ Begun' /\ InExam' /\ Complete' /\ ScoredBeforePurged'
  BY DEF Timely, CutoffPast, Spared, OnlyEnded, Begun, InExam, Complete, ScoredBeforePurged, Busy
<1> QED BY <1>1, <1>2

LEMMA InvStep == Inv /\ [Next]_vars => Inv'
<1> SUFFICES ASSUME Inv, [Next]_vars PROVE Inv'
  OBVIOUS
<1>1. ASSUME NEW s \in Sessions, End(s) PROVE Inv'
  <2>1. todo' \in [Workers -> SUBSET Sessions] /\ \A w \in Workers : todo[w] \subseteq todo'[w] \cup {s}
    BY <1>1 DEF End, workers, Inv, TypeOK
  <2> QED BY <1>1, <2>1, ConcludeKeeps DEF End, workers
<1>2. ASSUME NEW w \in Workers, Release(w) \/ Crash(w) PROVE Inv'
  <2>1. Sleep(w) /\ faults' \in Nat /\ UNCHANGED <<now, sessions, frames, hooks, at, missed>>
    BY <1>2 DEF Release, Crash, Inv, TypeOK
  <2> QED BY <2>1, SleepKeeps
<1>3. ASSUME NEW w \in Workers, Work(w) PROVE Inv'
  BY <1>2, <1>3, TryLockKeeps, QueryKeeps, VisitKeeps, SweptKeeps, PurgeFramesKeeps, PurgeHooksKeeps DEF Work
<1> QED BY <1>1, <1>2, <1>3, TickKeeps, OpenKeeps, CaptureKeeps, SettleKeeps, RestKeeps DEF Next

(* The invariant holds in every reachable state.                           *)
LEMMA InvAlways == Spec => []Inv
BY InvInit, InvStep, PTL DEF Spec

(* Types; an event is pending or settled, never both                       *)
THEOREM Typing == Spec => []TypeOK
BY InvAlways, PTL DEF Inv

(* Frames are deleted by age alone, yet every result counts all of its     *)
(* session's, unless a sweep had to leave the session for later.           *)
THEOREM ScoredFirst == Spec => []ScoredBeforePurged
BY InvAlways, PTL DEF Inv

(* An active session has all its frames, unless a sweep had to leave it    *)
(* for later: whatever the purge takes, it takes from sessions whose       *)
(* result is fixed.                                                        *)
THEOREM ActiveKeepsFrames ==
  Spec => [](\A s \in Sessions : status[s] = "active" /\ s \notin missed =>
               FramesOf(s) = {f \in Frames : f[1] = s /\ at[f] # -1})
<1>1. Inv => \A s \in Sessions : status[s] = "active" /\ s \notin missed =>
                FramesOf(s) = {f \in Frames : f[1] = s /\ at[f] # -1}
  BY DEF Inv, TypeOK, InExam, Complete, FramesOf
<1> QED BY <1>1, InvAlways, PTL

(* The sweep leaves a session for later only when more than SweepLimit are *)
(* idle at once.                                                           *)
LEMMA LeftWhenCrowded ==
  ASSUME IsFiniteSet(Sessions), [Next]_vars
  PROVE  missed' = missed \/ Cardinality(Stale) > SweepLimit
<1>1. ASSUME NEW w \in Workers, Query(w) PROVE missed' = missed \/ Cardinality(Stale) > SweepLimit
  <2>1. PICK page \in SUBSET Stale :
          /\ Cardinality(page) = SweepLimit \/ (page = Stale /\ Cardinality(page) < SweepLimit)
          /\ missed' = missed \cup (Stale \ page)
    BY <1>1 DEF Query
  <2>2. IsFiniteSet(Stale) /\ Stale \subseteq Sessions
    <3>1. Stale \in SUBSET Sessions
      BY DEF Stale
    <3> QED BY <3>1, FS_Subset
  <2>3. /\ Cardinality(page) <= Cardinality(Stale)
        /\ Cardinality(Stale) = Cardinality(page) => Stale = page
        /\ Cardinality(page) \in Nat /\ Cardinality(Stale) \in Nat
    BY <2>2, FS_Subset, FS_CardinalityType
  <2>4. page # Stale => Cardinality(Stale) > SweepLimit
    <3> DEFINE a == Cardinality(page)
               b == Cardinality(Stale)
    <3>1. page # Stale => a = SweepLimit /\ a <= b /\ a # b /\ a \in Nat /\ b \in Nat
      BY <2>1, <2>3
    <3> HIDE DEF a, b
    <3>2. page # Stale => b > SweepLimit
      BY <3>1
    <3> QED BY <3>2 DEF b
  <2> QED BY <2>1, <2>4
<1>2. ASSUME NEW w \in Workers, NEW s \in Sessions, Visit(w, s) PROVE missed' = missed
  BY <1>2 DEF Visit
<1>3. ASSUME NEW w \in Workers, Work(w) PROVE missed' = missed \/ Cardinality(Stale) > SweepLimit
  BY <1>1, <1>2, <1>3 DEF Work, TryLock, Swept, PurgeFrames, PurgeHooks, Release
<1> QED BY <1>3 DEF Next, vars, Tick, Open, End, Capture, Settle, Crash, LoseLock

(* The exception of ScoredBeforePurged is needed only by a large backlog:  *)
(* each session that a sweep leaves for later was idle together with at    *)
(* least SweepLimit others.                                                *)
THEOREM MissedMeansBacklog ==
  ASSUME IsFiniteSet(Sessions)
  PROVE  Spec => [][missed' = missed \/ Cardinality(Stale) > SweepLimit]_vars
<1>1. [Next]_vars => [missed' = missed \/ Cardinality(Stale) > SweepLimit]_vars
  BY LeftWhenCrowded
<1> QED BY <1>1, PTL DEF Spec

(* With no more sessions than one sweep visits, every result counts every  *)
(* frame that its session ever got.                                        *)
THEOREM AllCounted ==
  ASSUME IsFiniteSet(Sessions), Cardinality(Sessions) <= SweepLimit
  PROVE  Spec => [](\A r \in results : r.counts = {f \in Frames : f[1] = r.session /\ at[f] # -1})
<1>1. Cardinality(Stale) <= SweepLimit
  <2>1. Stale \in SUBSET Sessions
    BY DEF Stale
  <2>2. Cardinality(Stale) <= Cardinality(Sessions) /\ Cardinality(Stale) \in Nat /\ Cardinality(Sessions) \in Nat
    BY <2>1, FS_Subset, FS_CardinalityType
  <2> DEFINE a == Cardinality(Stale)
             b == Cardinality(Sessions)
  <2>3. a <= b /\ a \in Nat /\ b \in Nat /\ b <= SweepLimit
    BY <2>2
  <2> HIDE DEF a, b
  <2>4. a <= SweepLimit
    BY <2>3, Durations
  <2> QED BY <2>4 DEF a
<1>2. missed = {} /\ [Next]_vars => (missed = {})'
  <2> SUFFICES ASSUME missed = {}, [Next]_vars PROVE missed' = {}
    OBVIOUS
  <2>1. ~(Cardinality(Stale) > SweepLimit)
    <3> DEFINE a == Cardinality(Stale)
    <3>1. a \in Nat /\ a <= SweepLimit
      <4>1. Stale \in SUBSET Sessions
        BY DEF Stale
      <4> QED BY <1>1, <4>1, FS_Subset, FS_CardinalityType
    <3> HIDE DEF a
    <3>2. ~(a > SweepLimit)
      BY <3>1, Durations
    <3> QED BY <3>2 DEF a
  <2> QED BY <2>1, LeftWhenCrowded
<1>3. Init => missed = {}
  BY DEF Init
<1>4. Inv /\ missed = {} => \A r \in results : r.counts = {f \in Frames : f[1] = r.session /\ at[f] # -1}
  BY DEF Inv, ScoredBeforePurged
<1> QED BY <1>2, <1>3, <1>4, InvAlways, PTL DEF Spec

-----------------------------------------------------------------------------
(* At most one worker more than the connections lost                       *)

AtIt == {w \in Workers : Busy(w)}

(* Whoever is at it without the lock has lost it by a fault.               *)
Unlocked ==
  /\ IsFiniteSet(AtIt)
  /\ lock # NoWorker => lock \in AtIt
  /\ Cardinality(AtIt \ {lock}) <= faults

LEMMA UnlockedInit == Init => Unlocked
<1> SUFFICES ASSUME Init PROVE Unlocked
  OBVIOUS
<1>1. AtIt = {} /\ AtIt \ {lock} = {} /\ lock = NoWorker /\ faults = 0
  BY DEF Init, AtIt, Busy
<1> QED BY <1>1, FS_EmptySet DEF Unlocked

(* Fewer workers at it without the lock, and no fewer faults               *)
LEMMA Fewer ==
  ASSUME Unlocked, TypeOK, AtIt' \subseteq AtIt, AtIt' \ {lock'} \subseteq AtIt \ {lock}, faults' \in Nat,
         faults <= faults', lock' # NoWorker => lock' \in AtIt'
  PROVE  Unlocked'
<1>1. IsFiniteSet(AtIt \ {lock}) /\ IsFiniteSet(AtIt')
  BY FS_Subset DEF Unlocked
<1>2. IsFiniteSet(AtIt' \ {lock'}) /\ Cardinality(AtIt' \ {lock'}) <= Cardinality(AtIt \ {lock})
  BY <1>1, FS_Subset
<1>3. Cardinality(AtIt' \ {lock'}) \in Nat /\ Cardinality(AtIt \ {lock}) \in Nat /\ faults \in Nat
  BY <1>1, <1>2, FS_CardinalityType DEF TypeOK
<1>4. Cardinality(AtIt' \ {lock'}) <= faults'
  <2> DEFINE a == Cardinality(AtIt' \ {lock'})
             b == Cardinality(AtIt \ {lock})
  <2>1. a <= b /\ b <= faults /\ a \in Nat /\ b \in Nat
    BY <1>2, <1>3 DEF Unlocked
  <2> HIDE DEF a, b
  <2>2. a <= faults'
    BY <1>3, <2>1
  <2> QED BY <2>2 DEF a
<1> QED BY <1>1, <1>4 DEF Unlocked

LEMMA UnlockedStep == TypeOK /\ Unlocked /\ [Next]_vars => Unlocked'
<1> SUFFICES ASSUME TypeOK, Unlocked, [Next]_vars PROVE Unlocked'
  OBVIOUS
<1>1. phase \in [Workers -> {"sleep", "query", "visit", "purge", "hooks", "release"}]
      /\ lock \in Workers \cup {NoWorker} /\ faults \in Nat
  BY DEF TypeOK
<1>2. ASSUME NEW w \in Workers, TryLock(w) PROVE Unlocked'
  <2>1. lock = NoWorker /\ lock' = w /\ faults' = faults /\ phase[w] = "sleep"
        /\ phase' = [phase EXCEPT ![w] = "query"]
    BY <1>2 DEF TryLock, LockFree, Goto
  <2>2. AtIt' = AtIt \cup {w} /\ w \notin AtIt
    BY <1>1, <2>1 DEF AtIt, Busy
  <2>3. AtIt' \ {lock'} = AtIt \ {lock}
    BY <2>1, <2>2, LockIsFree DEF AtIt
  <2>4. IsFiniteSet(AtIt')
    BY <2>2, FS_AddElement DEF Unlocked
  <2> QED BY <2>1, <2>2, <2>3, <2>4 DEF Unlocked
<1>3. ASSUME NEW w \in Workers, Sleep(w), faults' \in Nat, faults <= faults' PROVE Unlocked'
  <2>1. AtIt' = AtIt \ {w}
    BY <1>1, <1>3 DEF Sleep, Goto, AtIt, Busy
  <2>2. lock' = IF lock = w THEN NoWorker ELSE lock
    BY <1>3 DEF Sleep, Freed
  <2>3. AtIt' \ {lock'} \subseteq AtIt \ {lock} /\ (lock' # NoWorker => lock' \in AtIt')
    BY <2>1, <2>2 DEF Unlocked
  <2> QED BY <1>3, <2>1, <2>3, Fewer
<1>4. ASSUME NEW w \in Workers, Release(w) \/ Crash(w) PROVE Unlocked'
  <2>1. Sleep(w) /\ faults' \in Nat /\ faults <= faults'
    BY <1>1, <1>4 DEF Release, Crash
  <2> QED BY <1>3, <2>1
<1>5. ASSUME LoseLock PROVE Unlocked'
  <2>1. lock \in Workers /\ lock' = NoWorker /\ faults' = faults + 1 /\ phase' = phase
    BY <1>1, <1>5 DEF LoseLock, workers
  <2>2. AtIt' = AtIt /\ AtIt' \ {lock'} = AtIt /\ lock \in AtIt
    BY <2>1, LockIsFree DEF AtIt, Busy, Unlocked
  <2>3. Cardinality(AtIt \ {lock}) = Cardinality(AtIt) - 1
    BY <2>2, FS_RemoveElement DEF Unlocked
  <2>4. Cardinality(AtIt) \in Nat
    BY FS_CardinalityType DEF Unlocked
  <2>5. Cardinality(AtIt) <= faults'
    <3> DEFINE a == Cardinality(AtIt)
               b == Cardinality(AtIt \ {lock})
    <3>1. b = a - 1 /\ b <= faults /\ a \in Nat
      BY <2>3, <2>4 DEF Unlocked
    <3> HIDE DEF a, b
    <3>2. a <= faults'
      BY <1>1, <2>1, <3>1
    <3> QED BY <3>2 DEF a
  <2> QED BY <2>1, <2>2, <2>5 DEF Unlocked
<1>6. ASSUME UNCHANGED <<lock, faults>>,
             UNCHANGED phase \/ \E w \in Workers, p \in {"visit", "purge", "hooks", "release"} :
                                  phase[w] # "sleep" /\ phase' = [phase EXCEPT ![w] = p]
      PROVE  Unlocked'
  <2>1. AtIt' = AtIt
    BY <1>1, <1>6 DEF AtIt, Busy
  <2> QED BY <1>6, <2>1 DEF Unlocked
<1>7. ASSUME NEW w \in Workers, Work(w) PROVE Unlocked'
  <2>1. ASSUME Query(w) PROVE Unlocked'
    BY <1>6, <2>1 DEF Query, Goto
  <2>2. ASSUME Swept(w) PROVE Unlocked'
    BY <1>6, <2>2 DEF Swept, Goto
  <2>3. ASSUME PurgeFrames(w) PROVE Unlocked'
    <3>1. PICK p \in {"hooks", "purge"} : phase' = [phase EXCEPT ![w] = p]
      BY <2>3 DEF PurgeFrames, Goto
    <3> QED BY <1>6, <2>3, <3>1 DEF PurgeFrames
  <2>4. ASSUME PurgeHooks(w) PROVE Unlocked'
    BY <1>6, <2>4 DEF PurgeHooks, Goto
  <2>5. ASSUME NEW s \in Sessions, Visit(w, s) PROVE Unlocked'
    BY <1>6, <2>5 DEF Visit
  <2> QED BY <1>2, <1>4, <1>7, <2>1, <2>2, <2>3, <2>4, <2>5 DEF Work
<1>8. CASE UNCHANGED <<lock, phase, faults>>
  BY <1>6, <1>8
<1> QED BY <1>4, <1>5, <1>7, <1>8 DEF Next, vars, workers, Tick, Open, End, Capture, Settle

LEMMA UnlockedBounds == TypeOK /\ Unlocked => OneMaintainer
<1> SUFFICES ASSUME TypeOK, Unlocked PROVE Cardinality(AtIt) <= 1 + faults
  BY DEF OneMaintainer, AtIt
<1> DEFINE a == Cardinality(AtIt)
           b == Cardinality(AtIt \ {lock})
<1>1. IsFiniteSet(AtIt) /\ a \in Nat
  BY FS_CardinalityType DEF Unlocked
<1>2. a <= b + 1
  <2>1. CASE lock \in AtIt
    BY <1>1, <2>1, FS_RemoveElement
  <2>2. CASE lock \notin AtIt
    <3>1. AtIt \ {lock} = AtIt
      BY <2>2
    <3> QED BY <1>1, <3>1
  <2> QED BY <2>1, <2>2
<1>3. b <= faults /\ faults \in Nat /\ b \in Nat
  BY <1>1, FS_Subset, FS_CardinalityType DEF Unlocked, TypeOK
<1> HIDE DEF a, b
<1>4. a <= 1 + faults
  BY <1>1, <1>2, <1>3
<1> QED BY <1>4 DEF a

(* One worker is at it, and one more for each fault at most.               *)
THEOREM OneAtATime == Spec => []OneMaintainer
<1>1. Spec => []Unlocked
  BY UnlockedInit, UnlockedStep, Typing, PTL DEF Spec
<1> QED BY <1>1, Typing, UnlockedBounds, PTL

(* While no connection is lost and nobody dies, the lock excludes: the     *)
(* sweep and the purge never meet those of another worker.                 *)
THEOREM Exclusive ==
  Spec => [](faults = 0 => \A v, w \in Workers : Busy(v) /\ Busy(w) => v = w)
<1>1. TypeOK /\ Unlocked => (faults = 0 => \A v, w \in Workers : Busy(v) /\ Busy(w) => v = w)
  <2> SUFFICES ASSUME TypeOK, Unlocked, faults = 0, NEW w \in Workers, Busy(w) PROVE w = lock
    OBVIOUS
  <2> DEFINE A == AtIt \ {lock}
  <2>1. IsFiniteSet(A)
    BY FS_Subset DEF Unlocked
  <2>2. Cardinality(A) \in Nat /\ Cardinality(A) <= 0
    BY <2>1, FS_CardinalityType DEF Unlocked
  <2>3. Cardinality(A) = 0
    BY <2>2
  <2>4. A = {}
    <3> HIDE DEF A
    <3> QED BY <2>1, <2>3, FS_EmptySet
  <2> QED BY <2>4 DEF AtIt
<1>2. Spec => []Unlocked
  BY UnlockedInit, UnlockedStep, Typing, PTL DEF Spec
<1> QED BY <1>1, <1>2, Typing, PTL

(* The lock never outlives the work it protects: whoever holds it is at    *)
(* it, so that a worker that died or skipped never keeps the others out.   *)
THEOREM LockHeldAtWork == Spec => [](lock # NoWorker => Busy(lock))
<1>1. Unlocked => (lock # NoWorker => Busy(lock))
  BY DEF Unlocked, AtIt
<1>2. Spec => []Unlocked
  BY UnlockedInit, UnlockedStep, Typing, PTL DEF Spec
<1> QED BY <1>1, <1>2, PTL

-----------------------------------------------------------------------------
(* Sessions and their results                                              *)

(* An ended session has a result, and only one.                            *)
Scored ==
  \A s \in Sessions :
    /\ status[s] = "ended" => \E r \in results : r.session = s
    /\ \A r, q \in results : r.session = s /\ q.session = s => r = q

(* An end adds the one result its session has.                             *)
LEMMA ConcludeScores ==
  ASSUME Inv, Scored, NEW s \in Sessions, status[s] = "active", Conclude(s)
  PROVE  Scored'
<1>1. /\ status' = [status EXCEPT ![s] = "ended"]
      /\ results' = results \cup {[session |-> s, counts |-> FramesOf(s)]}
  BY DEF Conclude
<1>2. \A r \in results : r.session # s
  BY DEF Inv, OnlyEnded
<1>3. ASSUME NEW x \in Sessions, status'[x] = "ended" PROVE \E r \in results' : r.session = x
  <2>1. CASE x = s
    <3> DEFINE new == [session |-> s, counts |-> FramesOf(s)]
    <3>1. new \in results' /\ new.session = x
      BY <1>1, <2>1
    <3> HIDE DEF new
    <3> QED BY <3>1
  <2>2. CASE x # s
    <3>1. status[x] = "ended"
      BY <1>1, <1>3, <2>2 DEF Inv, TypeOK
    <3> QED BY <1>1, <3>1 DEF Scored
  <2> QED BY <2>1, <2>2
<1>4. ASSUME NEW x \in Sessions, NEW r \in results', NEW q \in results', r.session = x, q.session = x
      PROVE  r = q
  <2> DEFINE new == [session |-> s, counts |-> FramesOf(s)]
  <2>1. (r \in results \/ r = new) /\ (q \in results \/ q = new) /\ new.session = s
    BY <1>1
  <2> HIDE DEF new
  <2> QED BY <1>2, <1>4, <2>1 DEF Scored
<1> QED BY <1>3, <1>4 DEF Scored

LEMMA ScoredStep == Inv /\ Scored /\ [Next]_vars => Scored'
<1> SUFFICES ASSUME Inv, Scored, [Next]_vars PROVE Scored'
  OBVIOUS
<1>1. ASSUME NEW s \in Sessions, Open(s) PROVE Scored'
  BY <1>1 DEF Open, Scored, Inv, TypeOK
<1>2. ASSUME NEW s \in Sessions, End(s) PROVE Scored'
  BY <1>2, ConcludeScores DEF End
<1>3. ASSUME UNCHANGED <<status, results>> PROVE Scored'
  BY <1>3 DEF Scored
<1>4. ASSUME NEW w \in Workers, NEW s \in Sessions, Visit(w, s) PROVE Scored'
  <2>1. CASE StillActive(s)
    BY <1>4, <2>1, ConcludeScores DEF Visit, StillActive
  <2>2. CASE ~StillActive(s)
    BY <1>3, <1>4, <2>2 DEF Visit, sessions
  <2> QED BY <2>1, <2>2
<1>5. ASSUME NEW w \in Workers, Work(w) PROVE Scored'
  BY <1>3, <1>4, <1>5 DEF Work, TryLock, Query, Swept, PurgeFrames, PurgeHooks, Release, sessions
<1>6. CASE \/ Tick \/ LoseLock \/ UNCHANGED vars
           \/ \E f \in Frames : Capture(f)
           \/ \E d \in Subscribed : Settle(d)
           \/ \E w \in Workers : Crash(w)
  BY <1>3, <1>6 DEF Tick, LoseLock, vars, Capture, Settle, Crash, sessions
<1> QED BY <1>1, <1>2, <1>5, <1>6 DEF Next

(* A session has a result exactly when it is ended, and never two,         *)
(* although the learner, the partner and the sweeps of several workers may *)
(* all try to end it.                                                      *)
THEOREM ResultIffEnded ==
  Spec => [](\A s \in Sessions :
               /\ status[s] = "ended" <=> \E r \in results : r.session = s
               /\ \A r, q \in results : r.session = s /\ q.session = s => r = q)
<1>1. Init => Scored
  BY DEF Init, Scored
<1>2. Inv /\ Scored => \A s \in Sessions :
                          /\ status[s] = "ended" <=> \E r \in results : r.session = s
                          /\ \A r, q \in results : r.session = s /\ q.session = s => r = q
  BY DEF Inv, OnlyEnded, Scored
<1> QED BY <1>1, <1>2, ScoredStep, InvAlways, PTL DEF Spec

-----------------------------------------------------------------------------
(* Maintenance implements RetentionPolicy.                                 *)

LEMMA PolicyInit == Init => Policy!Init
BY DEF Init, Policy!Init

(* An end is an end of RetentionPolicy.                                    *)
LEMMA PolicyConclude ==
  ASSUME Inv, NEW s \in Sessions, status[s] = "active", Conclude(s), UNCHANGED <<now, frames>>
  PROVE  Policy!Next
<1>1. \A r \in results : r.session # s
  BY DEF Inv, OnlyEnded
<1>2. FramesOf(s) \in SUBSET Frames
  BY DEF FramesOf, Inv, TypeOK
<1>3. Policy!Conclude(s, FramesOf(s))
  BY <1>1 DEF Conclude, Policy!Conclude
<1> QED BY <1>2, <1>3 DEF Policy!Next

LEMMA PolicyStep == Inv /\ [Next]_vars => [Policy!Next]_(Policy!vars)
<1> SUFFICES ASSUME Inv, [Next]_vars PROVE [Policy!Next]_(Policy!vars)
  OBVIOUS
<1>1. CASE Tick
  BY <1>1 DEF Tick, sessions, hooks, Policy!Pass, Policy!Next
<1>2. ASSUME NEW s \in Sessions, End(s) PROVE Policy!Next
  BY <1>2, PolicyConclude DEF End
<1>3. ASSUME NEW f \in Frames, Capture(f) PROVE Policy!Next
  <2>1. Policy!Insert(f)
    BY <1>3 DEF Capture, sessions, hooks, Policy!Insert
  <2> QED BY <2>1 DEF Policy!Next
<1>4. ASSUME NEW d \in Subscribed, Settle(d) PROVE Policy!Next
  <2>1. Policy!Settle(d)
    BY <1>4 DEF Settle, sessions, Policy!Settle
  <2> QED BY <2>1 DEF Policy!Next
<1>5. ASSUME NEW w \in Workers, NEW s \in Sessions, Visit(w, s) PROVE Policy!Next \/ UNCHANGED Policy!vars
  <2>1. CASE StillActive(s)
    BY <1>5, <2>1, PolicyConclude DEF Visit, StillActive
  <2>2. CASE ~StillActive(s)
    BY <1>5, <2>2 DEF Visit, sessions, hooks, Policy!vars
  <2> QED BY <2>1, <2>2
<1>6. ASSUME NEW w \in Workers, PurgeFrames(w) PROVE Policy!Next
  <2>1. PICK B \in SUBSET Expired(w) : frames' = frames \ B
    BY <1>6 DEF PurgeFrames
  <2>2. \A f \in B : at[f] < now - Retention
    <3>1. phase[w] = "purge" /\ cutoff[w] <= now - Retention
      BY <1>6 DEF PurgeFrames, Inv, CutoffPast
    <3> QED BY <2>1, <3>1, Durations DEF Expired, Inv, TypeOK
  <2>3. B \in SUBSET frames /\ {} \in SUBSET settled /\ settled' = settled \ {}
    BY <1>6 DEF Expired, PurgeFrames, hooks
  <2>4. Policy!Drop(B, {})
    BY <1>6, <2>1, <2>2, <2>3 DEF PurgeFrames, sessions, hooks, Policy!Drop, Policy!Old
  <2> QED BY <2>3, <2>4 DEF Policy!Next
<1>7. ASSUME NEW w \in Workers, PurgeHooks(w) PROVE Policy!Next
  <2> DEFINE D == {d \in settled : ~(at[d] >= cutoff[w])}
  <2>1. settled' = settled \ D /\ frames' = frames \ {} /\ D \in SUBSET settled /\ {} \in SUBSET frames
    BY <1>7 DEF PurgeHooks
  <2>2. \A d \in D : at[d] < now - Retention
    <3>1. phase[w] = "hooks" /\ cutoff[w] <= now - Retention
      BY <1>7 DEF PurgeHooks, Inv, CutoffPast
    <3> QED BY <3>1, Durations DEF Inv, TypeOK
  <2> HIDE DEF D
  <2>3. Policy!Drop({}, D)
    BY <1>7, <2>1, <2>2 DEF PurgeHooks, sessions, Policy!Drop, Policy!Old
  <2> QED BY <2>1, <2>3 DEF Policy!Next
<1>8. CASE UNCHANGED <<now, frames, pending, settled, at, results>>
  BY <1>8 DEF Policy!vars
<1>9. ASSUME NEW w \in Workers, Work(w) PROVE Policy!Next \/ UNCHANGED Policy!vars
  BY <1>5, <1>6, <1>7, <1>9 DEF Work, TryLock, Query, Swept, Release, sessions, hooks, Policy!vars
<1> QED BY <1>1, <1>2, <1>3, <1>4, <1>8, <1>9 DEF Next, vars, sessions, hooks, Open, Crash, LoseLock

(* Only rows past retention and finished events are deleted, and a session *)
(* gets one result, whoever crashes or loses the lock.                     *)
THEOREM PolicyImplemented == Spec => FollowsPolicy
BY PolicyInit, PolicyStep, InvAlways, PTL DEF Spec, FollowsPolicy, Policy!Spec
=============================================================================
