# Formal models of the proctoring backend

TLA+ models of the FastAPI backend under `src/backend/app`: what an exam
session, its evidence, its outcome, the events about it, and the keys and tokens
that give access to it may do when requests, WebSockets, background loops and
crashes interleave. TLC checks the models on
small instances; TLAPS proves the main properties for every instance.

    tlc -workers 2 -config session_core.cfg MCProctoringSession.tla   # or session_*.cfg
    tlc -workers 2 -config frame_stream.cfg MCFrameStream.tla
    tlc -workers 2 -config maintenance.cfg MCMaintenance.tla
    tlc -workers 2 -config webhook_outbox.cfg MCWebhookOutbox.tla     # or webhook_*.cfg
    tlc -workers 2 -config kyc_uploads.cfg MCKyc.tla                  # or kyc_verdicts.cfg
    tlc -workers 2 -config access.cfg MCAccess.tla
    tlapm ProctoringSessionProofs.tla                                 # and the other *Proofs.tla

## 1. Inventory

| Component | State | Operations | Talks to |
|---|---|---|---|
| Session lifecycle (`routers/candidates.py`, `routers/partner.py`, `services/session_report.py`) | `exam_sessions` rows: status, ended_at, trust_score, frames_evaluated | create, end (learner), terminate (partner), report | outbox (same transaction), streaks (after the commit) |
| Frame evaluation (`routers/proctoring.py`) | `session_frames`, `violations` rows; a socket's open transaction | REST frame, WebSocket loop, client event, verify-face | inference pool, Redis, S3, database |
| Violation streaks (`services/violation_streaks.py`) | one Redis hash per session, TTL 6 h | bump (Lua, atomic), reset | called by frames and by finalization |
| Maintenance (`services/background.py`) | advisory lock, one query's rows, a cutoff | sweep, purge of frames and of finished deliveries, once a minute in one worker | finalization, outbox rows |
| Analysis (`routers/proctoring.py`, `services/face_service.py`, `services/person_detector.py`) | none | verdict, measurements and confidence of a picture; the gate before a session | networks, in the inference pool |
| Webhook outbox (`services/webhooks.py`) | `webhook_deliveries`: status, attempts, next_attempt_at | enqueue in the caller's transaction; deliver a batch | partner's URL |
| KYC (`routers/kyc.py`) | `candidates.kyc_status`, `face_embeddings` | verify | inference, S3, outbox |
| Access (`core/auth.py`, `routers/candidates.py`, `routers/partner.py`, `routers/vendors.py`) | API key hashes, `is_active`, JWT claims, rate counters | call with a key, issue and use a token, rotate, revoke, reactivate | every router |
| Sign-in throttle (`routers/auth.py`, `routers/docs.py`) | failure counters in Redis, 15 minutes | check, count, clear | |
| Registration (`routers/candidates.py`) | `candidates`, unique (org, lower(email)) | create | |
| Not modelled | review, docs pages, application shell, schema, scripts, front end | see section 5 | |

Where it is hard: every handler awaits between reading the session and writing
(inference takes seconds); PostgreSQL runs READ COMMITTED, so each statement has
its own snapshot and only the `FOR UPDATE` row lock, with the key-share lock of
the foreign keys, orders an end against the frames; Redis and S3 are outside the
transaction; several workers and hosts run the same loops; a worker can die
between any two awaits; a socket outlives the session it serves. The hazards,
each at its line and with the property that watches it, are in PROJECT.json.

What makes the components correct:

- session: ended once, outcome computed from one moment, immutable, announced
  once, and no session stays active for ever;
- frames: what is stored after the end is only what was under way; a stored
  verdict agrees with the measurements beside it;
- streaks: a violation is raised by enough consecutive frames of its type, in
  the order they are judged, and by nothing else;
- maintenance: one worker at a time, and no frame is deleted before its session
  has its result, unless the sweep's LIMIT left that session for later;
- outbox: every event of a committed change is delivered or marked failed after
  a bounded number of attempts, no two workers hold a row;
- KYC: the verdict stored, the event sent and the active embedding agree;
- access: a token reaches only its candidate, a key only its organization, and
  the tokens of a revoked key run out (a socket opened with one stays until its
  session ends); no minute lets in too many calls;
- registration: one candidate for an e-mail in an organization;
- sign-in: a bounded number of wrong passwords, and a lockout that ends.

## 2. Modules

`TrustScore` is the score as arithmetic on tenths of a point. Python's
`round(x, 1)` is half-even on the rational value for fewer than 2000 frames.

`SessionOutcome` is the abstract specification: `Open`, `Record`, `End` are
atomic; `End` freezes `Frozen(rows)` and appends one event.

`ProctoringSession` is the program. Its processes and the code:

| Actions | Code |
|---|---|
| `CreateSession` | `create_session` (KYC already verified) |
| `RestFrame`, `ClientEvent` | `evaluate_frame_rest`, `report_client_event` up to the status check |
| `Connect`, `Receive`, `Close` | `_serve_ws`: the first check, the refresh before each frame, the ways out |
| `EvaluateViolation`, `EvaluateClean` | `evaluate_frame` after inference: bump or reset in Redis |
| `CommitFrame`, `CommitEvent`, `Fail` | the transaction commits, waiting for the session's row; or rolls back |
| `Request`, `TurnAway`, `Acquire` | `end_session`, `terminate_session`: the locking read and the answers that change nothing |
| `Sweep`, `VisitRow`, `SweepDone` | `abandon_idle_sessions` |
| `CountFrames`, `TallyFrames`, `ScoreEvents`, `CommitEnd`, `ResetStreak` | `finalize_session`, statement by statement |
| `Crash` | the worker dies or an await raises: rollback, the lock is free |
| `Tick`, `StreakExpires` | the clock, Redis expiry |

State: `status`, `result`, `outbox` are what the database has committed; `rows`
counts a session's frames, clean frames, violations raised by frames, client
events and keeps the latest of their dates and started_at, because nothing in
this component reads more of them. `lock` is the row lock. A frame's insert waits
for it (the foreign key takes FOR KEY SHARE, which conflicts with FOR UPDATE).
`txStart` is `now()` of the handler's transaction, which is what `captured_at`
gets: for a socket's first frame that is the time of the connection, afterwards
the refresh that preceded the frame. `draft` is what an ender has read, `todo`
the rows of the sweeper's query still to visit. Redis may lose a key at any time
(`StreakExpires` is not tied to the 6 hours, the clock is too coarse): an
over-approximation, sound for every property here. A partner's request may be for
another organization's session: `TurnAway` lets any partner be refused after the
lock is granted. Inserts and their commit are one step, because a transaction
that has inserted does nothing else before committing.

The definitions `RowIgnored`, `AnyStatus`, `CheckedOnce`, `StaleWithFrames`,
`Unclamped` and `FramesOnly` are mutations: replacing the operator they follow by them must break
the property PROJECT.json pairs them with.

`MCProctoringSession` is the module TLC runs; `ProctoringSessionProofs` holds the
theorems.

`EventDelivery` is what the outbox promises: an event is settled once, as
delivered (only if it was received) or as failed, and received any number of
times before that; what arrives later was sent before. `ProctoringSession` ends where it begins: an element of its
`outbox` is a row that `Enqueue` creates here.

`WebhookOutbox` is `services/webhooks.py` and the loop that drives it:

| Actions | Code |
|---|---|
| `Enqueue` | `enqueue` and its caller's commit; nothing without a webhook |
| `Configure` | `update_organization` sets, changes or clears `webhook_url`; nothing validates it |
| `Take` | `deliver_due`: due, pending, unlocked rows, longest due first, at most a batch, with the organizations as they are then |
| `Post`, `Unconfigured` | `_attempt` for one row: processed and accepted; refused, failed or too late; not configured any more |
| `Arrive` | the partner processes a request that nobody waits for any more, at once or much later |
| `Commit` | the rest of every `_attempt` and the batch's one commit: count, settle or back off |
| `Raise` | a URL that cannot be parsed raises through `gather`: nothing is committed, and the requests of the other attempts, which are not cancelled, may go on |
| `Crash` | the worker is killed with its batch; its requests may already be with the partner |
| `Sleep` | nothing due: the loop waits two seconds and asks again |
| `Tick` | the clock jumps to the next due time |

`attempts += 1` and the settled status are in memory until the commit, so they
are part of `Commit`; only the answer is kept per row, in `result`. The URL is
"none" (also when there is no secret), "good", or "invalid", one that httpx
refuses to parse (`https://host:port/`); one it parses but cannot reach is "good" with
requests that do not get through. `gather` starts every attempt before any of them
waits, and httpx raises for an invalid URL before it sends anything, so a batch
with one (`Poisoned`) gets no answer at all: it can only be rolled back. A request
whose sender got a refusal, an error or a timeout, or was rolled back, is in
`astray` until the partner processes it (`Arrive`), if it ever does. `received`
counts what partners processed and `rollbacks` the records that were lost; the
program reads neither (`rollbacks` only bounds how many requests a row sends
astray, `MaxStrays`).

The mutations of this module are `AnyRow` (no SKIP LOCKED), `ExhaustedLate`,
`AnyAnswer`, `InAnyStatus`, `KeepClaim` (a claim that is not a row lock, and so
survives its worker) and `Uncounted`.

`KycRecord` is what a verification promises: it is recorded at once, and only a
verified upload becomes the reference face, in the place of any other.

`Kyc` is `verify_kyc`: `Read` (the candidate, before inference), `Flush` (after
inference and S3: the candidate's columns are written and its row locked),
`Deactivate` (the UPDATE of `face_embeddings`, on the rows that statement sees),
`Commit`, and `Fail` (every 4xx, S3 or database error, or a killed worker).
`StartExam` is `create_session` of `ProctoringSession`, as far as KYC matters to
it. Two facts about the ORM carry the model. A column is written only if its
new value differs from the one read (`Written`); the S3 keys and `updated_at`
always differ, so the row always is. And `Session.execute` autoflushes first
(`autoflush` is on by default and `database.py` leaves it): the UPDATE is of the
bare table, but its WHERE names the mapped attribute, which makes the session
treat the statement as its own. The candidate's UPDATE therefore precedes it, and
its lock makes a second upload's UPDATE start, with a new snapshot, after the
first one's commit. The mutation `Unguarded` takes that lock away and leaves two
references. The others are `FirstOnly`, `AnyVerdict` and `OpenVerdict`.

`FrameAnalysis` is what is computed about one picture, as operators: which boxes
and faces count, whether a face matches and is live, head and gaze, the verdict,
the columns filled (`Measured`) and the `Confidence`; also `CheckFace` (the gate
before a session), the choice of the primary and of the hold-ID faces, and the
geometry of the liveness crop. A picture is what the networks and `solvePnP`
return for it, a member of `Pictures`; pixels and the networks are not modelled.

`EvidenceLog` is what debouncing promises: verdicts are judged one after the
other, and a frame is stored with a violation exactly when its verdict is the
last of `Debounce` equal ones.

`FrameStream` is `evaluate_frame` for the frames of one active session, several
of them at a time:

| Actions | Code |
|---|---|
| `Request` | a frame arrives (REST or socket); frames are numbered as captured |
| `Analyze` | `run_inference(_analyze_frame)`, for any picture of `Observations` |
| `Bump` | the Lua script of `violation_streaks.py`, or the DEL of a clean frame; whether to upload |
| `Upload` | `upload_image` returned the key of a stored object |
| `Store` | the commit of the frame and its violation |
| `Fail` | an undecodable picture, an exception or a dead worker at any point |
| `Expire` | the hash expires or is lost |

`judged` is the order in which verdicts reached Redis, with a clean entry for an
expiry. It is the only order the code can respect: handlers of one session may
run in several workers, and the model lets frame 2 be judged before frame 1.
Mutations: `AnyBump`, `CleanCounts`, `AlarmLate`, `StoreEarly` and, in
`FrameAnalysis`, `AloneByFace` and `PlainScore`.

`RetentionPolicy` is what may happen to stored rows, without workers or locks: a
frame goes only when it is old, an event only when it is old and settled, and a
session's result is fixed once.

`Maintenance` is the loop of `background.py` in every API worker:

| Actions | Code |
|---|---|
| `TryLock` | `pg_try_advisory_xact_lock`; a worker that does not get it skips the tick |
| `Query`, `Visit` | `abandon_idle_sessions`: the query with its LIMIT, then each row, rechecked under its lock |
| `Swept`, `PurgeFrames`, `PurgeHooks` | `purge_expired_rows`: the cutoff, batches until one is short, the finished deliveries |
| `Release` | the commit that frees the lock |
| `Crash` | the worker dies or a statement raises; the loop logs it and sleeps |
| `LoseLock` | the connection that holds only the lock is lost; the work goes on with the others |
| `Tick`, `Open`, `Capture`, `End`, `Settle` | time, sessions and the outbox around it |

An end is one step (`Conclude`), because `ProctoringSession` shows that it is
atomic. `at` keeps the date of a row after it is deleted, and `missed` the
sessions that a sweep left for later because of its LIMIT; no action reads
`missed`. Mutations: `Always` (no lock), `Kept` (a lock that is never freed),
`NotRechecked`, `NeverSeen`.

`ApiAccess` has the API keys of organizations, the fixed windows of their rate
limit, the tokens minted with them, and what both give access to. A partner's
call is three steps (`Present`, `CountCall`, then one of `IssueToken`,
`ShowCandidate`, `PartnerSession` or `GiveUp`), because the key is checked, the
window counted and the request served at different moments; an admin's edit is
two (`Load`, `Save`), because the ORM writes a column only if it differs from
what it loaded. The minute a call is counted in is any between its check and
now. The learner's requests with a token are one step each. The token names a
candidate (`sub`) and possibly a session (`sid`), and each route checks what it
checks: `UseCandidate` (KYC, verify-face) and `CreateSession` the candidate,
`UseSession` (REST frames, client events, the end) and `Connect` both. `Connect`
is `proctoring_ws`, which checks the token before the handshake; `Stream` is a
frame of the open socket, for which no token is looked at again, as
`core/config.py` says, so it may come long after the token has expired. `Disconnect` is any
end of the socket; that it must end with its session is in `ProctoringSession`,
whose `Receive` reads the status. `act` is what the last step read or changed,
with whose key and what token (`Quiet` steps leave none), and `dead` when a key
last stopped working. Cryptography is not
modelled: nobody makes a key or a token but the program. Mutations: `HashOnly`
(`is_active` forgotten), `OneMinute` (a counter that expires with its minute),
`Uncounted`, `SidOnly`.

`Registration` is `create_candidate`: the lookup, the INSERT that waits for an
uncommitted one with the same key in the unique index, the commit, the answer,
and a failure at each point. Mutations: `NoIndex`, `Flushed`.

`LoginThrottle` is the throttle of failed sign-ins: an attempt reads its
counters (`Try`), checks the password, and counts or clears them
(`WrongPassword`, `RightPassword`), others in between. An attempt on the admin
panel has a counter for its address and one for its e-mail, one on the docs page
only the first. Mutations: `TooLate`, `AllBlock`, `Twice`.

`MCAccess` puts these three in one run: they share no state, so a behaviour takes
one of them (`part`) and leaves the others at rest.

## 3. Runs

| Run | Bounds | Shows |
|---|---|---|
| `session_core` | 1 session; learner, partner, sweeper; a REST handler and a socket; 2 frames or events; clock 0..2, idle = no activity since an earlier tick; 1 crash | types, `OneEventPerEnd`, `ReadsStand`, `EndCoversEvidence`, `PerfectListsNothing`, and `EndsAtomically`: it implements `SessionOutcome` |
| `session_ends` | 2 sessions; sweeper with LIMIT 1; a socket; 2 messages; clock 0..2; 1 crash; fairness | `EverySessionEnds`, `LateFramesBounded` |
| `session_sweep_race` | a REST handler and the sweeper; clock 0..3, idle after 1 | finding: `AbandonedOnlyIfIdle` fails |
| `session_late_streak` | as core, without partner, socket and crashes | finding: `StreakClearedOnEnd` fails |
| `webhook_outbox` | 2 organizations with a delivery each, one with a URL that works at first, 2 workers, batches of 2, 2 attempts, backoff 1 then 2, 1 change of URL, 1 crash, 1 stray request of a rolled back row; fairness | types, `DisjointBatches`, `AttemptsAccounted`, `DuplicatesExplained`, `SettledForGood`, `SettlesUnlessPoisoned`, and `KeepsPromise`: it implements `EventDelivery` |
| `webhook_poison` | 2 deliveries, 2 organizations, one with an invalid URL, 1 worker; fairness | finding: `EverySettles` fails |
| `webhook_backoff` | 1 delivery, 1 worker, the real numbers | finding: `RetriesLastSeventeenHours` fails |
| `kyc_uploads` | 2 candidates, 3 uploads | types, `OneReference`, `ExamsHaveReference`, `SerialVerdictsAgree`, and `KeepsRecord`: it implements `KycRecord` |
| `kyc_verdicts` | 1 candidate, 3 uploads, symmetric | finding: `VerdictsAgree` fails |
| `frame_stream` | 2 handlers, 3 frames, debounce 2, 7 pictures, 1 failure or expiry; symmetric | types, `StreakIsRun`, `SnapshotsStored`, `RowsTellWhy`, `ConfidenceFollows`, and `FlagsRuns`: it implements `EvidenceLog` |
| `maintenance` | 2 workers, 2 sessions, 1 frame, LIMIT and batch 1, idle 0, exams and runs of 1, retention 2, clock 0..3, 1 fault; fairness | types, `OneMaintainer`, `ScoredBeforePurged`, `OldFramesGo`, and `FollowsPolicy`: it implements `RetentionPolicy` |
| `access` | one at a time of: 2 organizations with a candidate each, 2 sessions, 2 callers, 2 admins, 1 socket, 3 calls, edits, new sessions or connections, 2 keys per organization, limit 1, counters for 2 minutes, tokens and calls for 1, clock 0..2; 3 registrations; 2 clients, 2 counters, limit 2, window 2, attempts of 1, 4 attempts, clock 0..5; symmetric | types, `RateLimited`, `TenantIsolation`, `RevocationSettles`, `OneCandidatePerEmail`, `FailuresBounded`, `LockoutEnds` |

The bounds suffice for what is asked. Three enders on one session cover every
pair that can race plus a third that waits; two pieces of evidence let one be
counted and one come late, or two reach the debounce limit of 2; one crash may
hit any step. Clients stop early enough (`ClientsActive`) for the clock to make
their sessions idle: that is the client going away, not a restriction on time.
Two sessions with LIMIT 1 make the sweeper leave one for its next tick.

In the outbox, two workers and two rows let one worker hold one row, both or
none while the other looks; two attempts have one backoff between them, so
retry and exhaustion both happen; one crash can hit any row at any stage of it.
Two organizations let an invalid URL of one roll back the delivery of the other
after its request was sent. `MCWebhookOutbox` fixes which delivery is whose and
starts one organization with a working URL (`TwoPartners`); the other starts with
any, and the proofs have neither restriction.

Three uploads let one set the stage (pending, verified or rejected) for two that
overlap; the runs stop when all uploads are done, so deadlock is not checked.

Three frames over two handlers let a run of two be made, broken or overtaken by
the third, with the failure before, inside or after it. The seven pictures differ
in one thing each from a face exactly at every threshold: a small box beside the
person, closed eyes, eyes away, another face, a spoof, two persons, nobody. All
five types of violation and the clean verdict come up; every other picture is in
the proofs.
The run stops when the frames are used up, so deadlock is not checked.

In `maintenance` a fault may free the lock under a worker, so two are at it; with
LIMIT 1 and two idle sessions one is missed, and with a batch of 1 a purge that
finds the frame has a second, short one. Retention is as short as the assumption
`RetentionIsLong` allows. With a single frame it could be one unit shorter; with
a second one, taken later, the assumption is tight (the run would fail with
retention 1), and that case is left to the proof, because the liveness check takes
minutes there.

In `access` two calls in one minute are one over the limit, one may be counted in
the minute after its check, and a revocation, a rotation or both may come between
any two steps. The one socket can connect with the last minute of a token and
stream after it. Three registrations let one be stored, one wait and one fail. Two
sign-ins reach the limit together after one failure each. Which e-mails coincide
matters to registrations only, so the other parts take equal ones. Symmetry is
used for safety only. All three stop at their bounds: deadlock is not checked.

Fairness in `session_ends`: time passes; the maintenance loop is an endless
`while True` that swallows exceptions (`WF` of the sweep); an ender that waits
for the row or finalizes is served, as PostgreSQL grants a free row lock to a
waiter (`WF` of `Finalize`). Nothing is assumed of clients or handlers, and
crashes are finitely many.

Fairness in `webhook_outbox` and `webhook_poison`: time passes, and each worker
goes on with what it can do, because `_webhook_loop` is a `while True` that
swallows exceptions and httpx ends every request after `webhook_timeout_s`.
Partners may refuse or lose every request, for ever.

Fairness in `maintenance`: each worker goes on with what it can do, because
`_maintenance_loop` is a `while True` that swallows exceptions and a lock that is
lost or freed is free. Time, users and the outbox may stop; faults are finitely
many.

### Findings

- *The sweeper abandons a session that came back.* After the lock it re-reads
  the status only. A frame or event committed since its query does not save the
  session, and `ended_at` is older than the newest counted frame.
- *One unparsable webhook URL blocks its batch.* `_attempt` catches
  `httpx.HTTPError`; `httpx.InvalidURL` is not one. It leaves `deliver_due`
  through `gather`, nothing is committed, and the same rows are taken again two
  seconds later, for ever, those of other organizations in the batch included.
  `gather` does not cancel their requests, so their partners may receive the event
  with every pass.
- *A verdict is lost.* A candidate was rejected; two uploads overlap, one
  verifies, the other rejects and commits last. The rejection equals the status it
  had read, so the ORM does not write it: the partner and the browser are told
  "rejected", the status stays "verified" and exams may start.
- *Retries last 14.8 hours, not 17.* Eight attempts have seven backoffs.
- *A streak outlives its session.* A frame under evaluation at the end bumps the
  Redis hash after `finalize_session` has deleted it.

One divergence met while modelling has no run, because it is plain to see in
`CreateSession`: `core/auth.py` (lines 10-11) calls a session token "scoped to one
candidate (and optionally one session)", but `create_session` compares only the
candidate, so a token minted for one session opens another one of its candidate
(`act.op` is "create" there). It cannot use what it opened: that is the last
conjunct of `TenantIsolation`.

## 4. Proofs

`ProctoringSessionProofs` proves, for any sets of sessions, enders and handlers
and any bounds, under the assumptions named in `ProctoringSession` (the kinds of
process are disjoint, the sentinels are not members, the numbers are naturals):

- `Typing`: `[]TypeOK`; scores are None or within 0..100 (`ScoreType`).
- `RowLockHeld`: `[]RowLock`.
- `ReadsAgree`: `[]ReadsStand`.
- `OneEvent`: `[]OneEventPerEnd`.
- `EvidenceCovered`: `Spec => EndCoversEvidence`.
- `LateFrames`: `[]LateFramesBounded`, for finitely many handlers (`FewHandlers`).
- `PerfectReport`: `[]PerfectListsNothing`.
- `Implementation`: `Spec => EndsAtomically`, i.e. SessionOutcome's `Spec`.
- Of steps: `EndIsFinal` (nothing after an end changes its outcome or its event),
  `ViolationsNeverHelp` (evidence against a candidate never raises the score the
  session is heading for), `AbandonedDated`.

The argument: `OneEventPerEnd` is not inductive alone, a second ender could
append. The invariant is `IInv == TypeOK /\ RowLock /\ ReadsStand /\ Dated`.
`RowLock` ties a finalizing ender to the lock and to the status it re-read, so
two of them on one session contradict each other. From it, no row of that
session appears while the ender works (`RowsStand`), so `ReadsStand` is
preserved; `Dated` bounds whatever may become an `ended_at`. Then `CommitEnd`
writes exactly `Frozen(rows)` of that moment (`CommitWrites`), which is
`SessionOutcome!End`, and every other step is `Open`, `Record` or a stutter.

For `EvidenceCovered` the invariant adds that nothing is dated after now (`Past`)
and that a request's `ended_at`, taken after the lock was granted, is no earlier
than the rows of its session (`Covers`, kept by `RowsStand`). It says nothing of
the sweeper, whose `ended_at` is from before the lock: that is the finding on
`session_sweep_race`. For `LateFrames`, a commit to an ended session takes its
handler out of `InFlight`, and nobody enters it there (`FlightsLand`).

The score is arithmetic with a division, a rounding half to even and a clamp. Two
lemmas carry all that is said of it: the rounded value is nearest
(`RoundNearest`), and rounding is monotone between any two fractions
(`RoundMonotone`). From them a clean frame never lowers the score, and a frame
with a violation or a client event never raises it (`EvidenceMovesScore`); below
2000 frames a score of 100.0 means that every frame was clean and nothing else
happened (`PerfectHidesNothing`; the 2000th frame is where one bad frame rounds
away). `PerfectReport` needs besides that violations raised by frames are frames
that are not clean, in the rows and in what an ender has read of them (`Tallies`).
`AbandonedDated` says how far the finding on `session_sweep_race` goes: newer
activity may exist, but `ended_at` is more than the idle timeout ago and no later
than the last row, because it was computed from rows the query saw (`SweptIdle`).

`WebhookOutboxProofs` proves, for any sets and numbers:

- `OutboxTyping`, `Disjoint`, `Accounted`, `Explained`: the four invariants.
- `Settlement`: `Spec => SettledForGood`.
- `Delivery`: `Spec => KeepsPromise`, i.e. EventDelivery's `Spec`.
- `NoStrandedClaim`: a row is locked by a worker exactly when it is in that
  worker's batch, so no crash or exception strands it.
- `DuplicatesBounded`: the partner has received an event, or may still, at most
  `MaxAttempts` times and once more for each record that was lost; where every URL
  can be parsed only a crash loses one, and the bound is `MaxAttempts` plus the
  crashes.
- `DueSoon`: a pending row is due within the longest backoff.

Its invariant adds two facts to the ones the runs check. `Locked`: a row in a
batch is pending and locked by that worker, from which batches are disjoint and
settled rows are in none. `Answered`: only rows of a batch have an answer, and
an accepted row was received. Together they give that at most one answer of a
row is outstanding (`OneAnswer`), which is what `DuplicatesExplained` needs when
a commit turns it into a counted attempt and a rollback into a lost record; and
they make `Commit` an `EventDelivery!Settle` of the rows it settles. `due` is
only shown to be an integer: the provers know no more about `4 ^ n`.

`KycProofs` proves `KycTyping`, `SingleReference`, `ReferenceStays`,
`SerialStatus` and `Recording` (`Spec => KeepsRecord`) for any sets of candidates
and uploads, and two facts about what the partner is told: `ReferenceAnnounced`
(the images are those of the last upload announced, the reference is that of the
last one announced as verified, even where the status is the lost verdict of the
finding) and `AnnouncedOnce` (each upload that is done has one event, of its own
candidate, and no other upload has any). Besides the properties the invariant has `LockHeld` (a writing upload
holds its candidate's row), `StaleStands` (so what it deactivated is all that is
active when it commits) and `FreshReads` (a candidate's only upload under way has
read what is still stored, so `Written` is its verdict).

`FrameStreamProofs` proves, for any handlers, frames, failures, thresholds and
any set of pictures (`Thresholds`, `Shapes`, `Sizes`):

- `Typing`, `RunKept` (`[]StreakIsRun`), `EvidenceStored` (`[]SnapshotsStored`),
  `RowsExplained` (`[]RowsTellWhy`), `ConfidenceStored` (`[]ConfidenceFollows`);
- `EvidenceImplemented`: `Spec => FlagsRuns`, i.e. EvidenceLog's `Spec`.

- `CountedOnce`: no frame is judged twice; `FlagsBacked`: every violation raised by
  frames rests on `Debounce` different frames of its type; `JudgedInOrder`: one
  handler judges frames in the order they were sent.

It first proves of the operators of `FrameAnalysis`, for every picture: the verdict
and the measurements agree (`VerdictTells`); the confidence exceeds what its
threshold leaves (`ConfidenceTells`; that the most confident box exists is
`BestBox`); the gate before a session admits whatever a session would count as
clean (`GateAgrees`; with a second face the session is stricter); and of two faces
the hold-ID check takes the one that the others take (`HoldIdTakesPrimary`). The crop stays
inside the picture with the side computed for it, for a box anywhere (`CropFits`).
Eyes that cannot be measured are given 0.5, which is compared with 0.35
vertically: they look away exactly when the gaze threshold is below 0.15, and
nobody does from 0.65 up (`GazeThreshold`). The setting is any number, by default
0.20.

The invariant then adds what a handler
knows between its steps: its result explains itself (`Analyzed`), its verdict is
among the judged ones and an alarm was earned there (`Counted`), an alarm that may
be stored has its picture (`Pictured`), and its frame is its own (`Own`).
`RunGrows` says that the script's new hash is the new run, and from it an alarm is
`EvidenceLog!Earned` (`AlarmIsEarned`). `CountedOnce` is inductive together with
the fact that a frame still to be judged is in nobody else's hands and not in the
log (`Placed`); with it the frames of a run are different, which is `FlagsBacked`.

`MaintenanceProofs` proves, for any workers, sessions, frames and faults:

- `Typing`, `ScoredFirst` (`[]ScoredBeforePurged`), `OneAtATime`
  (`[]OneMaintainer`);
- `PolicyImplemented`: `Spec => FollowsPolicy`, i.e. RetentionPolicy's `Spec`.
- `ActiveKeepsFrames`, and when the exception of `ScoredBeforePurged` is needed: a
  sweep leaves a session for later only when more than its LIMIT are idle
  (`MissedMeansBacklog`), so with no more sessions than that every result counts
  every frame ever captured (`AllCounted`).
- `Exclusive`: without faults at most one worker is at it; `LockHeldAtWork`: the
  lock is never held by one that is not.
- `ResultIffEnded`: a session has a result exactly when it is ended, and one.

`ScoredFirst` rests on `RetentionIsLong`: idle timeout, exam and one run of the
maintenance together last no longer than retention (half an hour and hours against
30 days). The argument is a chain of dates: frames are within `MaxExam` of their
session's start (`InExam`), a run is within `MaxRun` of its beginning (`Timely`),
the cutoff is past retention (`CutoffPast`), so a session that a sweep has looked
at and left active started too late to have a frame before the cutoff of the
purge that follows (`Spared`), and no active session has lost a frame
(`Complete`). `OneAtATime` needs that whoever works without the lock has lost it
by a fault (`Unlocked`); `Exclusive` is the case of no fault.

`ApiAccessProofs` proves `AccessTyping`, `RateLimiting`, `Isolation` and
`Revocation` for any organizations, callers, keys and limits. `RateLimiting` rests
on `CountersOutliveCalls`: the counter of a minute lives longer (120 s) than a call
may take from its check to its count; its invariant is that a call is recent
(`Timely`) and a counter outlives its minute's calls (`CountersKept`). `Timely`
also says that the key of a call works or died after it was checked, which dates
the tokens of dead keys; with `TokensOwned` and `DeadBefore` that is `Revocation`.
`Isolation` needs of sockets that the token that let them in is in scope still
(`SocketsInScope`): sessions keep their candidate. Two theorems are of steps:
`LastUse` (when the last call is answered by a dead key and the last request or
connection made with its tokens; after that only sockets already open act by
it, for as long as their sessions last) and `RotationIsFinal` (no edit
loaded before a rotation, and no reactivation, revives the key it replaced).

`RegistrationProofs` proves `RegistrationTyping` and `UniqueEmail` with what the
index knows of uncommitted rows (`IndexHolds`), and `OneWinner`: at most one of
the overlapping calls for an identity is told 201, and one is unless a call was
lost. `LoginThrottleProofs` proves
`LoginTyping`, `BoundedFailures`, `LockoutsEnd` and `OnlyExpiryOpens` (a counter
that blocks is opened by its expiry or by an attempt that was let in no later than
it filled up) for finitely many clients: an
attempt past the check may add one failure, so failures and attempts under way are
counted together (`Room`), and those under way passed the check before the counter
filled up (`Before`).

Every safety property and every refinement that a passing run checks is a theorem.
What stays with TLC, or unproved, and why:

- `EverySessionEnds`, `SettlesUnlessPoisoned`, `OldFramesGo`: liveness under
  fairness is out of the prover's reach.
- That a retry is never due earlier than the one before it: the provers know no
  more of `4 ^ n` than its being an operator. `DueSoon` uses only the cap on it.
- The findings are counterexamples; the theorems say what remains true beside
  them (`AbandonedDated`, `SerialStatus`, `ReferenceAnnounced`,
  `DuplicatesBounded`).

## 5. Not modelled

- Review of violations (`routers/admin.py`): one row and one statement, the last
  writer wins; nothing in the repository says what overlapping reviews should
  leave.
- The webhook signing secret: an URL and a secret are set and read together, and
  `WebhookOutbox` already has configurations that change under a batch.
- The report as a partner reads it later, usage figures and signed S3 URLs: reads
  of committed rows, which change nothing. Who may read them is in `ApiAccess`.
- The neural networks, `solvePnP`, decoding and resizing of pictures: their
  results are the input of `FrameAnalysis`.
- The pool of inference threads beyond its being a wait: it keeps no state that
  another component reads.
- Docs pages, application shell, metrics, settings, schema and migrations,
  operator scripts, the local test front end: no protocol of their own. Unique
  keys, defaults and limits are used by the modules that depend on them.
