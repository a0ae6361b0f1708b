----------------------------- MODULE Maintenance -----------------------------
(***************************************************************************)
(* The maintenance loop of services/background.py, which every API worker  *)
(* runs once a minute: whoever gets the advisory lock sweeps idle sessions *)
(* and then deletes the rows past retention; the others skip the tick.     *)
(*                                                                         *)
(* The lock lives in a transaction of its own; the sweep and the purge use *)
(* other connections.  A worker that dies loses all of them; but the       *)
(* connection with the lock may also be lost alone, and the work goes on.  *)
(*                                                                         *)
(* Ending a session is one step here (ProctoringSession shows that it is   *)
(* atomic) and queues its session.ended event; the outbox settles events   *)
(* at any time (WebhookOutbox).                                            *)
(***************************************************************************)
EXTENDS Integers, FiniteSets

CONSTANTS
  Workers,       \* API workers
  Sessions,      \* exam sessions
  Frames,        \* frames that may be taken: <<session, number>>
  Subscribed,    \* those whose end queues an event, known by the session
  NoWorker,      \* the holder of the free advisory lock
  IdleTimeout,   \* settings.session_idle_timeout_minutes
  Retention,     \* settings.session_frames_retention_days
  SweepLimit,    \* LIMIT of the sweep
  PurgeBatch,    \* _RETENTION_BATCH
  MaxExam,       \* bound: how long after its start a session gets frames
  MaxRun,        \* bound: how long one run of the maintenance takes
  MaxTime,       \* bound: the clock stops here
  MaxFaults      \* bound: crashes and lost connections

ASSUME LockIsFree == NoWorker \notin Workers
ASSUME RowIds ==
  /\ Subscribed \subseteq Sessions
  /\ Frames \subseteq Sessions \X Nat /\ Frames \cap Sessions = {}
ASSUME Durations ==
  /\ IdleTimeout \in Nat /\ Retention \in Nat /\ MaxExam \in Nat /\ MaxRun \in Nat
  /\ MaxTime \in Nat /\ MaxFaults \in Nat /\ SweepLimit \in Nat \ {0} /\ PurgeBatch \in Nat \ {0}
(* 30 days against minutes and hours                                       *)
ASSUME RetentionIsLong == IdleTimeout + MaxExam + MaxRun <= Retention

VARIABLES
  now,       \* the clock
  \* the database
  status,    \* exam_sessions.status
  started,   \* exam_sessions.started_at
  results,   \* frames_evaluated and trust_score, as the frames they count
  frames,    \* session_frames
  pending, settled,   \* webhook_deliveries
  at,        \* captured_at of a frame, created_at of an event
  lock,      \* the holder of the advisory lock
  \* workers
  phase,     \* where the worker is in run_maintenance_once
  began,     \* when it took the lock
  todo,      \* the sweep's rows still to visit
  cutoff,    \* purge_expired_rows' cutoff
  \* history and bounds
  missed,    \* sessions a sweep left for later
  faults

sessions == <<status, started, results>>
hooks    == <<pending, settled>>
workers  == <<phase, began, todo, cutoff>>
vars     == <<now, sessions, frames, hooks, at, lock, workers, missed, faults>>

Init ==
  /\ now = 0
  /\ status = [s \in Sessions |-> "absent"]
  /\ started = [s \in Sessions |-> 0]
  /\ results = {}
  /\ frames = {} /\ pending = {} /\ settled = {}
  /\ at = [r \in Frames \cup Subscribed |-> -1]
  /\ lock = NoWorker
  /\ phase = [w \in Workers |-> "sleep"]
  /\ began = [w \in Workers |-> 0]
  /\ todo = [w \in Workers |-> {}]
  /\ cutoff = [w \in Workers |-> 0]
  /\ missed = {} /\ faults = 0

FramesOf(s) == {f \in frames : f[1] = s}

(* Mutations of the operators below: the lock not tried or not freed, an   *)
(* end without the recheck, a sweep of sessions without a frame only.      *)
Always == TRUE
Kept(w) == lock
NotRechecked(s) == TRUE
NeverSeen == {s \in Sessions : status[s] = "active" /\ FramesOf(s) = {}}

LockFree == lock = NoWorker
Freed(w) == IF lock = w THEN NoWorker ELSE lock
StillActive(s) == status[s] = "active"
(* No start, frame or event since the idle timeout                         *)
Stale ==
  {s \in Sessions :
     /\ status[s] = "active" /\ started[s] < now - IdleTimeout
     /\ \A f \in FramesOf(s) : at[f] < now - IdleTimeout}

-----------------------------------------------------------------------------
(* Time, sessions and events                                               *)

Tick ==
  /\ now < MaxTime
  /\ \A w \in Workers : phase[w] # "sleep" => now - began[w] < MaxRun
  /\ now' = now + 1
  /\ UNCHANGED <<sessions, frames, hooks, at, lock, workers, missed, faults>>

Open(s) ==
  /\ status[s] = "absent"
  /\ status' = [status EXCEPT ![s] = "active"]
  /\ started' = [started EXCEPT ![s] = now]
  /\ UNCHANGED <<now, results, frames, hooks, at, lock, workers, missed, faults>>

Capture(f) ==
  /\ at[f] = -1 /\ status[f[1]] = "active" /\ now <= started[f[1]] + MaxExam
  /\ frames' = frames \cup {f}
  /\ at' = [at EXCEPT ![f] = now]
  /\ UNCHANGED <<now, sessions, hooks, lock, workers, missed, faults>>

(* finalize_session: what is stored now is counted, the event is queued.   *)
Conclude(s) ==
  /\ status' = [status EXCEPT ![s] = "ended"]
  /\ results' = results \cup {[session |-> s, counts |-> FramesOf(s)]}
  /\ IF s \in Subscribed
     THEN pending' = pending \cup {s} /\ at' = [at EXCEPT ![s] = now]
     ELSE UNCHANGED <<pending, at>>
  /\ UNCHANGED <<started, settled>>

(* The learner or the partner ends it.                                     *)
End(s) ==
  /\ status[s] = "active"
  /\ Conclude(s)
  /\ UNCHANGED <<now, frames, lock, workers, missed, faults>>

Settle(d) ==
  /\ d \in pending
  /\ pending' = pending \ {d} /\ settled' = settled \cup {d}
  /\ UNCHANGED <<now, sessions, frames, at, lock, workers, missed, faults>>

-----------------------------------------------------------------------------
(* run_maintenance_once                                                    *)

Goto(w, p) == phase' = [phase EXCEPT ![w] = p]

(* pg_try_advisory_xact_lock; a worker that does not get it skips the tick.*)
TryLock(w) ==
  /\ phase[w] = "sleep" /\ LockFree
  /\ lock' = w
  /\ began' = [began EXCEPT ![w] = now]
  /\ Goto(w, "query")
  /\ UNCHANGED <<now, sessions, frames, hooks, at, todo, cutoff, missed, faults>>

(* abandon_idle_sessions                                                   *)
Query(w) ==
  /\ phase[w] = "query"
  /\ \E page \in SUBSET Stale :
       /\ Cardinality(page) = SweepLimit \/ (page = Stale /\ Cardinality(page) < SweepLimit)
       /\ todo' = [todo EXCEPT ![w] = page]
       /\ missed' = missed \cup (Stale \ page)
  /\ Goto(w, "visit")
  /\ UNCHANGED <<now, sessions, frames, hooks, at, lock, began, cutoff, faults>>

Visit(w, s) ==
  /\ phase[w] = "visit" /\ s \in todo[w]
  /\ todo' = [todo EXCEPT ![w] = @ \ {s}]
  /\ IF StillActive(s) THEN Conclude(s) ELSE UNCHANGED <<sessions, hooks, at>>
  /\ UNCHANGED <<now, frames, lock, phase, began, cutoff, missed, faults>>

(* purge_expired_rows begins                                               *)
Swept(w) ==
  /\ phase[w] = "visit" /\ todo[w] = {}
  /\ cutoff' = [cutoff EXCEPT ![w] = now - Retention]
  /\ Goto(w, "purge")
  /\ UNCHANGED <<now, sessions, frames, hooks, at, lock, began, todo, missed, faults>>

Expired(w) == {f \in frames : at[f] < cutoff[w]}

PurgeFrames(w) ==
  /\ phase[w] = "purge"
  /\ \E B \in SUBSET Expired(w) :
       /\ Cardinality(B) = PurgeBatch \/ (B = Expired(w) /\ Cardinality(B) < PurgeBatch)
       /\ frames' = frames \ B
       /\ Goto(w, IF Cardinality(B) < PurgeBatch THEN "hooks" ELSE "purge")
  /\ UNCHANGED <<now, sessions, hooks, at, lock, began, todo, cutoff, missed, faults>>

PurgeHooks(w) ==
  /\ phase[w] = "hooks"
  /\ settled' = {d \in settled : at[d] >= cutoff[w]}
  /\ Goto(w, "release")
  /\ UNCHANGED <<now, sessions, frames, pending, at, lock, began, todo, cutoff, missed, faults>>

Sleep(w) ==
  /\ Goto(w, "sleep")
  /\ began' = [began EXCEPT ![w] = 0]
  /\ todo' = [todo EXCEPT ![w] = {}]
  /\ cutoff' = [cutoff EXCEPT ![w] = 0]
  /\ lock' = Freed(w)

(* The commit frees the lock; without its connection it raises instead.    *)
Release(w) ==
  /\ phase[w] = "release"
  /\ Sleep(w)
  /\ UNCHANGED <<now, sessions, frames, hooks, at, missed, faults>>

(* The worker dies, or a statement raises: the loop logs it and sleeps.    *)
Crash(w) ==
  /\ phase[w] # "sleep" /\ faults < MaxFaults
  /\ faults' = faults + 1
  /\ Sleep(w)
  /\ UNCHANGED <<now, sessions, frames, hooks, at, missed>>

(* Only the connection that holds the lock is lost.                        *)
LoseLock ==
  /\ lock # NoWorker /\ faults < MaxFaults
  /\ faults' = faults + 1
  /\ lock' = NoWorker
  /\ UNCHANGED <<now, sessions, frames, hooks, at, workers, missed>>

Work(w) ==
  \/ TryLock(w) \/ Query(w) \/ Swept(w) \/ PurgeFrames(w) \/ PurgeHooks(w) \/ Release(w)
  \/ \E s \in Sessions : Visit(w, s)

Next ==
  \/ Tick
  \/ \E s \in Sessions : Open(s) \/ End(s)
  \/ \E f \in Frames : Capture(f)
  \/ \E d \in Subscribed : Settle(d)
  \/ \E w \in Workers : Work(w) \/ Crash(w)
  \/ LoseLock

Spec == Init /\ [][Next]_vars

(* Every loop goes on; time and users need not.                            *)
Fairness == \A w \in Workers : WF_vars(Work(w))

FairSpec == Spec /\ Fairness

-----------------------------------------------------------------------------
(* Properties                                                              *)

Busy(w) == phase[w] # "sleep"

(* Types; an event is pending or settled, never both                       *)
TypeOK ==
  /\ now \in 0 .. MaxTime
  /\ status \in [Sessions -> {"absent", "active", "ended"}]
  /\ started \in [Sessions -> 0 .. MaxTime]
  /\ results \subseteq [session : Sessions, counts : SUBSET Frames]
  /\ frames \subseteq Frames /\ pending \subseteq Subscribed /\ settled \subseteq Subscribed \ pending
  /\ at \in [Frames \cup Subscribed -> -1 .. MaxTime]
  /\ lock \in Workers \cup {NoWorker}
  /\ phase \in [Workers -> {"sleep", "query", "visit", "purge", "hooks", "release"}]
  /\ began \in [Workers -> 0 .. MaxTime]
  /\ todo \in [Workers -> SUBSET Sessions]
  /\ cutoff \in [Workers -> Int]
  /\ missed \subseteq Sessions
  /\ faults \in Nat

(* "run by whichever worker grabs a Postgres advisory lock": two workers   *)
(* are at it at once only after the lock's connection was lost, and then   *)
(* at most one more for each such loss.                                    *)
OneMaintainer == Cardinality({w \in Workers : Busy(w)}) <= 1 + faults

(* A session's result counts every frame it ever got, although frames are  *)
(* deleted by age alone, whether or not their session was scored: the      *)
(* sweep that goes first has ended it, unless more than SweepLimit idle    *)
(* sessions had piled up.                                                  *)
ScoredBeforePurged ==
  \A r \in results :
    r.session \notin missed => r.counts = {f \in Frames : f[1] = r.session /\ at[f] # -1}

(* What the loop deletes and fixes follows the retention policy, whoever   *)
(* crashes or loses the lock: no pending event and no young row is ever    *)
(* deleted, and no session is ended twice (Maintenance implements          *)
(* RetentionPolicy).                                                       *)
Policy == INSTANCE RetentionPolicy WITH Frames <- Frames, results <- results
FollowsPolicy == Policy!Spec

(* Rows past retention do go, in batches, while any worker runs.           *)
PastRetention(f) == f \in frames /\ at[f] < now - Retention
OldFramesGo == \A f \in Frames : PastRetention(f) ~> f \notin frames
=============================================================================
