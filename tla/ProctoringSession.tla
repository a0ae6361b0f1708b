-------------------------- MODULE ProctoringSession --------------------------
(***************************************************************************)
(* An exam session from POST /sessions to its end, as the backend runs it: *)
(*                                                                         *)
(*  - frame handlers (the REST fallback and the WebSocket loop of          *)
(*    routers/proctoring.py) and client events write session_frames and    *)
(*    violations rows and count the violation streak in Redis;             *)
(*  - three kinds of enders race to finalize the session: the learner      *)
(*    (POST /sessions/{id}/end), the partner (POST /sessions/{id}/terminate)*)
(*    and the idle sweeper (services/background.py).                       *)
(*                                                                         *)
(* Every process is a coroutine of some worker; an action is what it does  *)
(* between two awaits on the database, Redis, S3 or the inference pool.    *)
(*                                                                         *)
(* PostgreSQL as the code uses it (READ COMMITTED): a statement sees what  *)
(* is committed when it starts; SELECT ... FOR UPDATE takes the session's  *)
(* row lock, kept until the transaction ends; inserting a frame or a       *)
(* violation needs a key-share lock on the session row it references, so   *)
(* an insert waits while an ender holds the row lock.  Plain reads never   *)
(* wait.  now() in a transaction is the time the transaction began.        *)
(***************************************************************************)
EXTENDS Integers, Sequences, FiniteSets, TrustScore

CONSTANTS
  Sessions,      \* exam sessions
  Subscribed,    \* those whose organization has webhook_url and webhook_secret
  Learners,      \* coroutines serving POST /sessions/{id}/end
  Partners,      \* coroutines serving POST /sessions/{id}/terminate
  Sweepers,      \* the maintenance coroutine that holds the advisory lock
  RestHandlers,  \* coroutines serving POST .../frame and .../events
  Sockets,       \* coroutines serving the WebSocket
  Types,         \* violation types a frame can show
  NoType,        \* no violation type
  Nobody,        \* the holder of a free row lock
  NoSession,     \* the session of an idle process
  Debounce,      \* settings.violation_debounce_frames
  IdleTimeout,   \* settings.session_idle_timeout_minutes
  SweepLimit,    \* LIMIT of the sweeper's query
  MaxTime,       \* bound: the clock stops here
  MaxWork,       \* bound: frames and client events the clients send
  MaxCrashes     \* bound: enders killed or failed half way

Enders   == Learners \cup Partners \cup Sweepers
Handlers == RestHandlers \cup Sockets

ASSUME Disjoint ==
  /\ Learners \cap Partners = {} /\ Learners \cap Sweepers = {} /\ Partners \cap Sweepers = {}
  /\ RestHandlers \cap Sockets = {}
ASSUME FewHandlers == IsFiniteSet(Handlers)
ASSUME Fresh == Nobody \notin Enders /\ NoType \notin Types /\ NoSession \notin Sessions
ASSUME Subscription == Subscribed \subseteq Sessions
ASSUME Numbers ==
  /\ Debounce \in Nat \ {0} /\ IdleTimeout \in Nat /\ SweepLimit \in Nat
  /\ MaxTime \in Nat /\ MaxWork \in Nat /\ MaxCrashes \in Nat

Times == 0 .. MaxTime
NoTx  == -1    \* a socket with no open transaction

VARIABLES
  now,      \* the clock
  \* the database
  status,   \* exam_sessions.status
  rows,     \* the session's session_frames and violations, counted (see NoRows)
  result,   \* frames_evaluated, trust_score, ended_at
  outbox,   \* session.ended rows of webhook_deliveries, oldest first
  lock,     \* which ender holds the session's row lock
  \* Redis
  streak,   \* the hash violation_streak:<session>, count 0 when the key is absent
  \* enders
  phase,    \* where the ender is
  target,   \* the session it is ending
  draft,    \* what it has read for the outcome so far
  todo,     \* sweeper: rows of its query still to visit
  \* handlers
  step,     \* where the handler is
  serves,   \* the session it serves
  txStart,  \* now() of its transaction
  clean,    \* the frame shows no violation
  raise,    \* the streak reached the debounce limit: also insert a violation
  \* bounds
  work, crashes

database == <<status, rows, result, outbox>>
ending   == <<phase, target, draft, todo, crashes>>
serving  == <<step, serves, txStart, clean, raise, work>>
vars     == <<now, database, lock, streak, ending, serving>>

(* frames, clean, flagged: session_frames rows, those without a violation, *)
(* and the violations rows frames raised; events: client events; last:     *)
(* greatest(started_at, max(captured_at), max(detected_at))                *)
NoRows   == [frames |-> 0, clean |-> 0, flagged |-> 0, events |-> 0, last |-> -1]
NoResult == [frames |-> 0, trust |-> NoScore, endedAt |-> -1]
NoStreak == [type |-> NoType, count |-> 0]
NoDraft  == [frames |-> 0, total |-> 0, clean |-> 0, trust |-> NoScore, endedAt |-> -1]

(* Mutations of the operators below, each one a plausible slip: get without*)
(* with_for_update, no recheck of the status, a socket that checks only    *)
(* when it connects, a sweep that joins on frames.                         *)
RowIgnored(s) == TRUE
AnyStatus(s) == status[s] # "absent"
CheckedOnce(s) == TRUE
StaleWithFrames ==
  {s \in Sessions : status[s] = "active" /\ rows[s].frames > 0 /\ rows[s].last < now - IdleTimeout}

(* What FOR UPDATE and the key-share lock of an insert wait for             *)
RowFree(s) == lock[s] = Nobody

(* The status that the locking read returns                                *)
StillActive(s) == status[s] = "active"

(* The status db.refresh reads before each frame of a socket               *)
RefreshedActive(s) == status[s] = "active"

Later(a, b) == IF a > b THEN a ELSE b

(* Clients stop in time for the sweeper to find their sessions idle.       *)
ClientsActive == work < MaxWork /\ now + IdleTimeout < MaxTime

Init ==
  /\ now = 0
  /\ status = [s \in Sessions |-> "absent"]
  /\ rows   = [s \in Sessions |-> NoRows]
  /\ result = [s \in Sessions |-> NoResult]
  /\ outbox = [s \in Sessions |-> << >>]
  /\ lock   = [s \in Sessions |-> Nobody]
  /\ streak = [s \in Sessions |-> NoStreak]
  /\ phase  = [e \in Enders |-> "idle"]
  /\ target = [e \in Enders |-> NoSession]
  /\ draft  = [e \in Enders |-> NoDraft]
  /\ todo   = [e \in Sweepers |-> {}]
  /\ step   = [h \in Handlers |-> "idle"]
  /\ serves = [h \in Handlers |-> NoSession]
  /\ txStart = [h \in Handlers |-> NoTx]
  /\ clean  = [h \in Handlers |-> FALSE]
  /\ raise  = [h \in Handlers |-> FALSE]
  /\ work = 0 /\ crashes = 0

-----------------------------------------------------------------------------
(* The clock, Redis expiry, and POST /sessions                             *)

Tick ==
  /\ now < MaxTime
  /\ now' = now + 1
  /\ UNCHANGED <<database, lock, streak, ending, serving>>

(* The key expires (_STREAK_TTL_S after the last bump) or Redis loses it.  *)
(* The clock here is too coarse to tell when, so it may happen at any time.*)
StreakExpires(s) ==
  /\ streak[s].count > 0
  /\ streak' = [streak EXCEPT ![s] = NoStreak]
  /\ UNCHANGED <<now, database, lock, ending, serving>>

CreateSession(s) ==
  /\ status[s] = "absent"
  /\ now + IdleTimeout < MaxTime
  /\ status' = [status EXCEPT ![s] = "active"]
  /\ rows' = [rows EXCEPT ![s].last = now]
  /\ UNCHANGED <<now, result, outbox, lock, streak, ending, serving>>

-----------------------------------------------------------------------------
(* Handlers: REST frames, client events and the WebSocket loop             *)

Start(h, s, next) ==
  /\ step' = [step EXCEPT ![h] = next]
  /\ serves' = [serves EXCEPT ![h] = s]
  /\ txStart' = [txStart EXCEPT ![h] = now]
  /\ UNCHANGED <<now, database, lock, streak, ending, clean, raise>>

Stop(h) ==
  /\ step' = [step EXCEPT ![h] = "idle"]
  /\ serves' = [serves EXCEPT ![h] = NoSession]
  /\ txStart' = [txStart EXCEPT ![h] = NoTx]
  /\ clean' = [clean EXCEPT ![h] = FALSE]
  /\ raise' = [raise EXCEPT ![h] = FALSE]
  /\ UNCHANGED work

(* evaluate_frame_rest and report_client_event, up to the status check:    *)
(* the status is the one require_session_scope read.  A session that is    *)
(* not active answers 404 and changes nothing.                             *)
RestRequest(h, s, next) ==
  /\ h \in RestHandlers /\ step[h] = "idle" /\ ClientsActive
  /\ status[s] = "active"
  /\ work' = work + 1
  /\ Start(h, s, next)
RestFrame(h, s)   == RestRequest(h, s, "infer")
ClientEvent(h, s) == RestRequest(h, s, "event")

(* _serve_ws up to the loop: the transaction opened by the status check    *)
(* stays open until the first frame commits.                               *)
Connect(h, s) ==
  /\ h \in Sockets /\ step[h] = "idle" /\ ClientsActive
  /\ status[s] = "active"
  /\ Start(h, s, "open")
  /\ UNCHANGED work

(* One message: refresh the status, then evaluate the frame; an            *)
(* undecodable frame is answered and leaves the transaction open.          *)
Receive(h) ==
  /\ step[h] = "open" /\ ClientsActive
  /\ RefreshedActive(serves[h])
  /\ txStart' = [txStart EXCEPT ![h] = IF @ = NoTx THEN now ELSE @]
  /\ work' = work + 1
  /\ \E next \in {"infer", "open"} : step' = [step EXCEPT ![h] = next]
  /\ UNCHANGED <<now, database, lock, streak, ending, serves, clean, raise>>

(* The session ended while the socket was open (close 4410), or the client *)
(* disconnects.                                                            *)
Close(h) ==
  /\ step[h] = "open"
  /\ Stop(h)
  /\ UNCHANGED <<now, database, lock, streak, ending>>

Bumped(k, t) == [type |-> t, count |-> IF k.type = t THEN k.count + 1 ELSE 1]

(* evaluate_frame: inference returned, count the streak in Redis           *)
EvaluateViolation(h, t) ==
  /\ step[h] = "infer"
  /\ LET k == Bumped(streak[serves[h]], t)
     IN  /\ streak' = [streak EXCEPT ![serves[h]] = k]
         /\ raise' = [raise EXCEPT ![h] = k.count >= Debounce]
  /\ clean' = [clean EXCEPT ![h] = FALSE]
  /\ step' = [step EXCEPT ![h] = "commit"]
  /\ UNCHANGED <<now, database, lock, ending, serves, txStart, work>>

EvaluateClean(h) ==
  /\ step[h] = "infer"
  /\ streak' = [streak EXCEPT ![serves[h]] = NoStreak]
  /\ clean' = [clean EXCEPT ![h] = TRUE]
  /\ raise' = [raise EXCEPT ![h] = FALSE]
  /\ step' = [step EXCEPT ![h] = "commit"]
  /\ UNCHANGED <<now, database, lock, ending, serves, txStart, work>>

AddFrame(r, c, f, at) ==
  [frames  |-> r.frames + 1,
   clean   |-> r.clean + (IF c THEN 1 ELSE 0),
   flagged |-> r.flagged + (IF f THEN 1 ELSE 0),
   events  |-> r.events,
   last    |-> Later(r.last, at)]

AddEvent(r, at) ==
  [frames |-> r.frames, clean |-> r.clean, flagged |-> r.flagged,
   events |-> r.events + 1, last |-> Later(r.last, at)]

(* evaluate_frame: one transaction inserts the frame and the violation it  *)
(* raised, once the snapshot is uploaded.  A socket keeps listening.       *)
CommitFrame(h) ==
  LET s == serves[h] IN
  /\ step[h] = "commit" /\ RowFree(s)
  /\ rows' = [rows EXCEPT ![s] = AddFrame(@, clean[h], raise[h], txStart[h])]
  /\ IF h \in Sockets
     THEN /\ step' = [step EXCEPT ![h] = "open"]
          /\ txStart' = [txStart EXCEPT ![h] = NoTx]
          /\ clean' = [clean EXCEPT ![h] = FALSE]
          /\ raise' = [raise EXCEPT ![h] = FALSE]
          /\ UNCHANGED <<serves, work>>
     ELSE Stop(h)
  /\ UNCHANGED <<now, status, result, outbox, lock, streak, ending>>

CommitEvent(h) ==
  LET s == serves[h] IN
  /\ step[h] = "event" /\ RowFree(s)
  /\ rows' = [rows EXCEPT ![s] = AddEvent(@, txStart[h])]
  /\ Stop(h)
  /\ UNCHANGED <<now, status, result, outbox, lock, streak, ending>>

(* An undecodable REST frame, an error from Redis, S3 or the database, or  *)
(* the end of the worker: the transaction rolls back, the streak stays as  *)
(* it is.                                                                  *)
Fail(h) ==
  /\ step[h] \in {"infer", "commit", "event"}
  /\ Stop(h)
  /\ UNCHANGED <<now, database, lock, streak, ending>>

-----------------------------------------------------------------------------
(* Enders: a request or the sweeper picks a session, waits for its row     *)
(* lock, reads the outcome in four statements and commits it.              *)

Goto(e, p) == phase' = [phase EXCEPT ![e] = p]
Leave(e) ==
  /\ Goto(e, IF e \in Sweepers THEN "sweeping" ELSE "idle")
  /\ target' = [target EXCEPT ![e] = NoSession]
  /\ draft' = [draft EXCEPT ![e] = NoDraft]

(* end_session and terminate_session up to SELECT ... FOR UPDATE; an       *)
(* unknown session answers 404.                                            *)
Request(e, s) ==
  /\ e \in Learners \cup Partners /\ phase[e] = "idle"
  /\ status[s] # "absent"
  /\ Goto(e, "waiting")
  /\ target' = [target EXCEPT ![e] = s]
  /\ UNCHANGED <<now, database, lock, streak, draft, todo, crashes, serving>>

Stale == {s \in Sessions : status[s] = "active" /\ rows[s].last < now - IdleTimeout}

(* abandon_idle_sessions: the query, with the last activity it saw         *)
Sweep(e) ==
  /\ e \in Sweepers /\ phase[e] = "idle"
  /\ Goto(e, "sweeping")
  /\ \E page \in SUBSET Stale :
       /\ Cardinality(page) = SweepLimit \/ (page = Stale /\ Cardinality(page) < SweepLimit)
       /\ todo' = [todo EXCEPT ![e] = {[session |-> s, seen |-> rows[s].last] : s \in page}]
  /\ UNCHANGED <<now, database, lock, streak, target, draft, crashes, serving>>

VisitRow(e) ==
  /\ e \in Sweepers /\ phase[e] = "sweeping"
  /\ \E r \in todo[e] :
       /\ todo' = [todo EXCEPT ![e] = @ \ {r}]
       /\ target' = [target EXCEPT ![e] = r.session]
       /\ draft' = [draft EXCEPT ![e].endedAt = r.seen]
  /\ Goto(e, "waiting")
  /\ UNCHANGED <<now, database, lock, streak, crashes, serving>>

SweepDone(e) ==
  /\ e \in Sweepers /\ phase[e] = "sweeping" /\ todo[e] = {}
  /\ Goto(e, "idle")
  /\ UNCHANGED <<now, database, lock, streak, target, draft, todo, crashes, serving>>

(* The lock is granted on a session that is no longer active (idempotent   *)
(* answer, or the sweeper rolls back and continues) or, for a partner, on  *)
(* a session of another organization (404).                                *)
TurnAway(e) ==
  /\ phase[e] = "waiting" /\ RowFree(target[e])
  /\ ~StillActive(target[e]) \/ e \in Partners
  /\ Leave(e)
  /\ UNCHANGED <<now, database, lock, streak, todo, crashes, serving>>

(* The lock is granted and the session re-read: still active               *)
Acquire(e) ==
  /\ phase[e] = "waiting" /\ RowFree(target[e])
  /\ StillActive(target[e])
  /\ lock' = [lock EXCEPT ![target[e]] = e]
  /\ Goto(e, "locked")
  /\ draft' = [draft EXCEPT ![e].endedAt = IF e \in Sweepers THEN @ ELSE now]
  /\ UNCHANGED <<now, database, streak, target, todo, crashes, serving>>

(* finalize_session: frames_evaluated                                      *)
CountFrames(e) ==
  /\ phase[e] = "locked"
  /\ draft' = [draft EXCEPT ![e].frames = rows[target[e]].frames]
  /\ Goto(e, "counted")
  /\ UNCHANGED <<now, database, lock, streak, target, todo, crashes, serving>>

Tallied(d, r) ==
  [frames |-> d.frames, total |-> r.frames, clean |-> r.clean, trust |-> d.trust,
   endedAt |-> d.endedAt]

(* compute_trust_score: total and clean frames in one statement            *)
TallyFrames(e) ==
  /\ phase[e] = "counted"
  /\ draft' = [draft EXCEPT ![e] = Tallied(@, rows[target[e]])]
  /\ Goto(e, "tallied")
  /\ UNCHANGED <<now, database, lock, streak, target, todo, crashes, serving>>

(* compute_trust_score: client events in another                           *)
ScoreEvents(e) ==
  /\ phase[e] = "tallied"
  /\ draft' = [draft EXCEPT ![e].trust = Score(draft[e].total, draft[e].clean, rows[target[e]].events)]
  /\ Goto(e, "scored")
  /\ UNCHANGED <<now, database, lock, streak, target, todo, crashes, serving>>

OutcomeOf(e) == IF e \in Learners THEN "completed"
                ELSE IF e \in Partners THEN "terminated" ELSE "abandoned"

(* build_report lists the violations, enqueue adds the event, and one      *)
(* commit makes status, outcome and event visible and frees the row.       *)
CommitEnd(e) ==
  LET s == target[e]
      o == OutcomeOf(e)
      d == draft[e]
  IN
  /\ phase[e] = "scored"
  /\ status' = [status EXCEPT ![s] = o]
  /\ result' = [result EXCEPT ![s] = [frames |-> d.frames, trust |-> d.trust, endedAt |-> d.endedAt]]
  /\ outbox' = IF s \in Subscribed
               THEN [outbox EXCEPT ![s] = Append(@,
                      [status |-> o, frames |-> d.frames, trust |-> d.trust, endedAt |-> d.endedAt,
                       listed |-> rows[s].flagged + rows[s].events])]
               ELSE outbox
  /\ lock' = [lock EXCEPT ![s] = Nobody]
  /\ draft' = [draft EXCEPT ![e] = NoDraft]
  /\ Goto(e, "committed")
  /\ UNCHANGED <<now, rows, streak, target, todo, crashes, serving>>

(* finalize_session's last await, after the commit                         *)
ResetStreak(e) ==
  /\ phase[e] = "committed"
  /\ streak' = [streak EXCEPT ![target[e]] = NoStreak]
  /\ Leave(e)
  /\ UNCHANGED <<now, database, lock, todo, crashes, serving>>

(* The worker dies, or the database or Redis raises: the transaction rolls *)
(* back and the row lock is free; a sweeper loses the rest of its tick.    *)
Crash(e) ==
  /\ phase[e] # "idle" /\ crashes < MaxCrashes
  /\ crashes' = crashes + 1
  /\ Goto(e, "idle")
  /\ lock' = [s \in Sessions |-> IF lock[s] = e THEN Nobody ELSE lock[s]]
  /\ target' = [target EXCEPT ![e] = NoSession]
  /\ draft' = [draft EXCEPT ![e] = NoDraft]
  /\ todo' = IF e \in Sweepers THEN [todo EXCEPT ![e] = {}] ELSE todo
  /\ UNCHANGED <<now, database, streak, serving>>

-----------------------------------------------------------------------------
Handle(h) ==
  \/ \E s \in Sessions : RestFrame(h, s) \/ ClientEvent(h, s) \/ Connect(h, s)
  \/ Receive(h) \/ Close(h)
  \/ \E t \in Types : EvaluateViolation(h, t)
  \/ EvaluateClean(h) \/ CommitFrame(h) \/ CommitEvent(h) \/ Fail(h)

Finalize(e) ==
  \/ Acquire(e) \/ TurnAway(e) \/ CountFrames(e) \/ TallyFrames(e) \/ ScoreEvents(e)
  \/ CommitEnd(e) \/ ResetStreak(e)

SweepStep(e) == Sweep(e) \/ VisitRow(e) \/ SweepDone(e)

Next ==
  \/ Tick
  \/ \E s \in Sessions : CreateSession(s) \/ StreakExpires(s)
  \/ \E h \in Handlers : Handle(h)
  \/ \E e \in Enders : (\E s \in Sessions : Request(e, s)) \/ Finalize(e) \/ SweepStep(e) \/ Crash(e)

Spec == Init /\ [][Next]_vars

(* Time passes, the maintenance loop keeps running, and an ender that got  *)
(* as far as waiting for the row is eventually served: no client has to do *)
(* anything.                                                               *)
Fairness ==
  /\ WF_vars(Tick)
  /\ \A e \in Enders : WF_vars(Finalize(e))
  /\ \A e \in Sweepers : WF_vars(SweepStep(e))

FairSpec == Spec /\ Fairness

-----------------------------------------------------------------------------
(* Properties                                                              *)

Outcomes == {"completed", "terminated", "abandoned"}
Ended(s) == status[s] \in Outcomes

RowSet    == [frames : Nat, clean : Nat, flagged : Nat, events : Nat, last : -1 .. MaxTime]
ResultSet == [frames : Nat, trust : NoScore .. Perfect, endedAt : -1 .. MaxTime]
EventSet  == [status : Outcomes, frames : Nat, trust : NoScore .. Perfect,
              endedAt : -1 .. MaxTime, listed : Nat]
StreakSet == [type : Types \cup {NoType}, count : Nat]
DraftSet  == [frames : Nat, total : Nat, clean : Nat, trust : NoScore .. Perfect,
              endedAt : -1 .. MaxTime]

Holding == {"locked", "counted", "tallied", "scored"}
Phases  == {"idle", "sweeping", "waiting", "committed"} \cup Holding
Steps   == {"idle", "open", "infer", "commit", "event"}

(* Types: in particular a trust score is a number of tenths in 0..1000 or  *)
(* absent (compute_trust_score clamps it), never anything between.         *)
TypeOK ==
  /\ now \in Times
  /\ status \in [Sessions -> {"absent", "active"} \cup Outcomes]
  /\ rows \in [Sessions -> RowSet]
  /\ result \in [Sessions -> ResultSet]
  /\ outbox \in [Sessions -> Seq(EventSet)]
  /\ lock \in [Sessions -> Enders \cup {Nobody}]
  /\ streak \in [Sessions -> StreakSet]
  /\ phase \in [Enders -> Phases]
  /\ target \in [Enders -> Sessions \cup {NoSession}]
  /\ draft \in [Enders -> DraftSet]
  /\ todo \in [Sweepers -> SUBSET [session : Sessions, seen : -1 .. MaxTime]]
  /\ step \in [Handlers -> Steps]
  /\ serves \in [Handlers -> Sessions \cup {NoSession}]
  /\ txStart \in [Handlers -> -1 .. MaxTime]
  /\ clean \in [Handlers -> BOOLEAN]
  /\ raise \in [Handlers -> BOOLEAN]
  /\ work \in Nat /\ crashes \in Nat
  /\ \A h \in Handlers : step[h] # "idle" => serves[h] \in Sessions
  /\ \A e \in Enders : phase[e] \notin {"idle", "sweeping"} => target[e] \in Sessions

(* An ender that finalizes holds the row lock of an active session, and    *)
(* the row lock is held by nobody else.                                    *)
RowLock ==
  /\ \A e \in Enders :
       phase[e] \in Holding => lock[target[e]] = e /\ status[target[e]] = "active"
  /\ \A s \in Sessions :
       lock[s] # Nobody => phase[lock[s]] \in Holding /\ target[lock[s]] = s

(* What finalize_session has read stays true until it commits, although    *)
(* each statement has its own snapshot and frames, events and other enders *)
(* go on: the frozen count, the score and the list in the report agree.    *)
ReadsStand ==
  \A e \in Enders :
    LET r == rows[target[e]]
        d == draft[e]
    IN  /\ phase[e] \in {"counted", "tallied", "scored"} => d.frames = r.frames
        /\ phase[e] = "tallied" => d.total = r.frames /\ d.clean = r.clean
        /\ phase[e] = "scored" => d.trust = Score(r.frames, r.clean, r.events)

(* Whatever can become an ended_at is a time, and rows belong to sessions  *)
(* that exist.                                                             *)
Dated ==
  /\ \A h \in Handlers :
       step[h] # "idle" => status[serves[h]] # "absent"
  /\ \A s \in Sessions : status[s] # "absent" => rows[s].last \in Times
  /\ \A e \in Sweepers : \A v \in todo[e] : v.seen \in Times
  /\ \A e \in Enders :
       phase[e] \in Holding \/ (phase[e] = "waiting" /\ e \in Sweepers)
         => draft[e].endedAt \in Times

(* However the learner, the partner and the sweeper race, retry or crash,  *)
(* an ended session has exactly one session.ended event (none without a    *)
(* webhook), a session that is not ended has none, and the event tells     *)
(* what the session row says for ever after (end_session's "must not       *)
(* recompute the score or re-send the webhook").                           *)
OneEventPerEnd ==
  \A s \in Sessions :
    IF Ended(s) /\ s \in Subscribed
    THEN /\ Len(outbox[s]) = 1
         /\ outbox[s][1].status = status[s]
         /\ outbox[s][1].frames = result[s].frames
         /\ outbox[s][1].trust = result[s].trust
         /\ outbox[s][1].endedAt = result[s].endedAt
    ELSE outbox[s] = << >>

(* The report agrees with itself: a session announced with 100.0 points    *)
(* lists no violation, neither one that frames raised nor a client event.  *)
(* True up to 1999 frames (rounding to a tenth hides one in 2000), although*)
(* score and list come from different tables and statements.               *)
PerfectListsNothing ==
  \A s \in Sessions : \A i \in DOMAIN outbox[s] :
    outbox[s][i].trust = Perfect /\ outbox[s][i].frames < 2000 => outbox[s][i].listed = 0

(* Frames committed after the end are only those that were already under   *)
(* evaluation: each handler adds at most one to an ended session, sockets  *)
(* included, however many messages their clients go on sending.            *)
InFlight(s) == {h \in Handlers : serves[h] = s /\ step[h] \in {"infer", "commit"}}
LateFramesBounded ==
  \A s \in Sessions :
    Ended(s) => rows[s].frames - result[s].frames + Cardinality(InFlight(s))
                  <= Cardinality(Handlers)

(* A learner's or partner's end covers the evidence it counted: no frame   *)
(* or event that went into the outcome is dated after ended_at.            *)
EndCoversEvidence ==
  [][\A s \in Sessions :
       status[s] = "active" /\ status'[s] \in {"completed", "terminated"}
         => rows[s].last <= result'[s].endedAt]_vars

(* Ending is atomic although it takes four statements and a lock: the      *)
(* module implements SessionOutcome.                                       *)
Outcome == INSTANCE SessionOutcome
EndsAtomically == Outcome!Spec

(* The idle sweeper ends every session nobody ends, even one that never    *)
(* got a frame: no session stays active for ever.                          *)
EverySessionEnds == \A s \in Sessions : status[s] = "active" ~> Ended(s)

(* background.py: "Mark active sessions with no frame/event for the idle   *)
(* timeout as abandoned".                                                  *)
AbandonedOnlyIfIdle ==
  [][\A s \in Sessions :
       status[s] = "active" /\ status'[s] = "abandoned"
         => rows[s].last < now - IdleTimeout]_vars

(* FIXES.md: "violation debounce streaks ... cleared on session end".      *)
StreakClearedOnEnd ==
  \A s \in Sessions :
    Ended(s) /\ (\A e \in Enders : target[e] # s) => streak[s] = NoStreak
=============================================================================
