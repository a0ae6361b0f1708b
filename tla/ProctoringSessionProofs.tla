----------------------- MODULE ProctoringSessionProofs -----------------------
(***************************************************************************)
(* Theorems about ProctoringSession, for every number of sessions, enders  *)
(* and handlers and every value of the bounds.                             *)
(***************************************************************************)
EXTENDS ProctoringSession, FiniteSetTheorems, TLAPS

USE Disjoint, Fresh, Subscription, Numbers

-----------------------------------------------------------------------------
(* Lemmas about the trust score                                            *)

(* The integer quotient and remainder that RoundHalfEven starts from       *)
LEMMA Division ==
  ASSUME NEW n \in Int, NEW d \in Nat \ {0}, NEW q \in Int, NEW r \in Int, q = n \div d, r = n % d
  PROVE  n = d * q + r /\ 0 <= r /\ r < d
BY SMTT(30)

(* RoundHalfEven is an integer within half a unit of the quotient; half a  *)
(* unit away it is even.                                                   *)
LEMMA RoundNearest ==
  ASSUME NEW n \in Int, NEW d \in Nat \ {0}
  PROVE  LET x == RoundHalfEven(n, d)
         IN  /\ x \in Int
             /\ 2 * (d * x - n) <= d /\ 2 * (n - d * x) <= d
             /\ 2 * (d * x - n) = d \/ 2 * (n - d * x) = d => x % 2 = 0
<1> DEFINE q == n \div d
           r == n % d
           x == RoundHalfEven(n, d)
<1>1. q \in Int /\ r \in Int
  OBVIOUS
<1>2. n = d * q + r /\ 0 <= r /\ r < d
  BY <1>1, Division
<1>a. x = IF 2 * r < d \/ (2 * r = d /\ q % 2 = 0) THEN q ELSE q + 1
  BY DEF RoundHalfEven
<1> HIDE DEF q, r, x
<1>3. \/ x = q /\ (2 * r < d \/ (2 * r = d /\ q % 2 = 0))
      \/ x = q + 1 /\ (2 * r > d \/ (2 * r = d /\ q % 2 # 0))
  <2>1. 2 * r < d \/ 2 * r = d \/ 2 * r > d
    BY <1>1
  <2> QED BY <1>a, <2>1
<1>4. d * (q + 1) = d * q + d /\ d * q \in Int
  BY <1>1
<1>5. CASE x = q /\ (2 * r < d \/ (2 * r = d /\ q % 2 = 0))
  <2>1. d * x = d * q
    BY <1>5
  <2> QED BY <1>1, <1>2, <1>4, <1>5, <2>1 DEF x
<1>6. CASE x = q + 1 /\ (2 * r > d \/ (2 * r = d /\ q % 2 # 0))
  <2>1. d * x = d * q + d
    BY <1>4, <1>6
  <2>2. q % 2 # 0 => (q + 1) % 2 = 0
    BY <1>1
  <2> QED BY <1>1, <1>2, <1>4, <1>6, <2>1, <2>2 DEF x
<1> QED BY <1>3, <1>5, <1>6

(* A larger ratio is never rounded to less.                                *)
LEMMA RoundMonotone ==
  ASSUME NEW n \in Int, NEW d \in Nat \ {0}, NEW m \in Int, NEW e \in Nat \ {0}, n * e <= m * d
  PROVE  RoundHalfEven(n, d) <= RoundHalfEven(m, e)
<1> DEFINE x == RoundHalfEven(n, d)
           y == RoundHalfEven(m, e)
<1>1. /\ x \in Int /\ 2 * (d * x - n) <= d /\ (2 * (d * x - n) = d => x % 2 = 0)
  BY RoundNearest
<1>2. /\ y \in Int /\ 2 * (m - e * y) <= e /\ (2 * (m - e * y) = e => y % 2 = 0)
  BY RoundNearest
<1> HIDE DEF x, y
<1> SUFFICES ASSUME x > y PROVE FALSE
  BY <1>1, <1>2 DEF x, y
<1>3. x >= y + 1
  BY <1>1, <1>2
<1> DEFINE a == d - 2 * (d * x - n)
           b == e - 2 * (m - e * y)
<1>4. a \in Nat /\ b \in Nat
  BY <1>1, <1>2
<1>5. a * e + b * d = 2 * (n * e - m * d) + 2 * ((d * e) * (y + 1 - x))
  BY <1>1, <1>2
<1>6. a * e >= 0 /\ b * d >= 0 /\ a * e \in Int /\ b * d \in Int
  BY <1>4
<1>7. (d * e) * (y + 1 - x) <= 0 /\ d * e \in Nat \ {0}
  BY <1>1, <1>2, <1>3
<1>8. a * e = 0 /\ b * d = 0 /\ (d * e) * (y + 1 - x) = 0
  BY <1>1, <1>2, <1>5, <1>6, <1>7
<1>9. a = 0 /\ b = 0 /\ x = y + 1
  BY <1>1, <1>2, <1>4, <1>7, <1>8
<1>10. x % 2 = 0 /\ y % 2 = 0
  BY <1>1, <1>2, <1>9
<1> QED BY <1>1, <1>2, <1>9, <1>10

(* compute_trust_score returns None or a score within 0..100 points.       *)
LEMMA ScoreType ==
  ASSUME NEW total \in Nat, NEW good \in Nat, NEW client \in Nat
  PROVE  Score(total, good, client) \in NoScore .. Perfect
<1>1. CASE total = 0
  BY <1>1 DEF Score, NoScore, Perfect
<1>2. CASE total # 0
  <2>1. RoundHalfEven(Perfect * good, total) \in Int
    BY <1>2, RoundNearest DEF Perfect
  <2>2. RoundHalfEven(Perfect * good, total) - ClientEventPenalty * client \in Int
    BY <2>1 DEF ClientEventPenalty
  <2>3. ASSUME NEW x \in Int PROVE Clamp(x) \in NoScore .. Perfect
    BY DEF Clamp, NoScore, Perfect
  <2> QED BY <1>2, <2>2, <2>3 DEF Score
<1> QED BY <1>1, <1>2

(* With total frames and client events, x tenths before the penalty        *)
LEMMA ScoreOf ==
  ASSUME NEW total \in Nat \ {0}, NEW good \in Nat, NEW client \in Nat
  PROVE  LET x == RoundHalfEven(Perfect * good, total)
         IN  x \in Int /\ Score(total, good, client) = Clamp(x - ClientEventPenalty * client)
<1>1. RoundHalfEven(Perfect * good, total) \in Int
  BY RoundNearest DEF Perfect
<1> QED BY <1>1 DEF Score

(* What is added to the evidence moves the score the way it should: a      *)
(* clean frame never lowers it, a frame with a violation and a client      *)
(* event never raise it, whatever the rounding to a tenth does.            *)
THEOREM EvidenceMovesScore ==
  ASSUME NEW total \in Nat \ {0}, NEW good \in 0 .. total, NEW client \in Nat
  PROVE  /\ Score(total, good, client) <= Score(total + 1, good + 1, client)
         /\ Score(total + 1, good, client) <= Score(total, good, client)
         /\ Score(total, good, client + 1) <= Score(total, good, client)
<1> DEFINE x == RoundHalfEven(Perfect * good, total)
           up == RoundHalfEven(Perfect * (good + 1), total + 1)
           down == RoundHalfEven(Perfect * good, total + 1)
<1>1. /\ x \in Int /\ up \in Int /\ down \in Int
      /\ Score(total, good, client) = Clamp(x - ClientEventPenalty * client)
      /\ Score(total, good, client + 1) = Clamp(x - ClientEventPenalty * (client + 1))
      /\ Score(total + 1, good + 1, client) = Clamp(up - ClientEventPenalty * client)
      /\ Score(total + 1, good, client) = Clamp(down - ClientEventPenalty * client)
  BY ScoreOf
<1>2. x <= up
  <2>1. (Perfect * good) * (total + 1) <= (Perfect * (good + 1)) * total
    BY DEF Perfect
  <2>2. Perfect * good \in Int /\ Perfect * (good + 1) \in Int
    BY DEF Perfect
  <2> QED BY <2>1, <2>2, RoundMonotone
<1>3. down <= x
  <2>1. (Perfect * good) * total <= (Perfect * good) * (total + 1)
    BY DEF Perfect
  <2>2. Perfect * good \in Int
    BY DEF Perfect
  <2> QED BY <2>1, <2>2, RoundMonotone
<1>4. ASSUME NEW i \in Int, NEW j \in Int, i <= j PROVE Clamp(i) <= Clamp(j)
  BY <1>4 DEF Clamp, Perfect
<1> HIDE DEF x, up, down
<1> QED BY <1>1, <1>2, <1>3, <1>4 DEF ClientEventPenalty

(* Up to 1999 frames a score of 100.0 points hides nothing: every frame    *)
(* was clean and there was no client event.                                *)
THEOREM PerfectHidesNothing ==
  ASSUME NEW total \in Nat \ {0}, total < 2000, NEW good \in Nat, good <= total, NEW client \in Nat
  PROVE  Score(total, good, client) = Perfect <=> good = total /\ client = 0
<1> DEFINE x == RoundHalfEven(Perfect * good, total)
<1>1. x \in Int /\ Score(total, good, client) = Clamp(x - ClientEventPenalty * client)
  BY ScoreOf
<1>2. 2 * (total * x - Perfect * good) <= total /\ 2 * (Perfect * good - total * x) <= total
  <2> DEFINE n == Perfect * good
  <2>1. n \in Int /\ total \in Nat \ {0}
    BY DEF Perfect
  <2> HIDE DEF n
  <2>2. LET y == RoundHalfEven(n, total)
        IN  2 * (total * y - n) <= total /\ 2 * (n - total * y) <= total
    BY <2>1, RoundNearest
  <2> QED BY <2>2 DEF n
<1> HIDE DEF x
<1>3. total * x \in Int
  BY <1>1
<1>4. ASSUME good < total PROVE x < Perfect
  <2> SUFFICES ASSUME x >= Perfect PROVE FALSE
    BY <1>1 DEF Perfect
  <2>1. total * x >= total * Perfect
    BY <1>1 DEF Perfect
  <2> QED BY <1>2, <1>3, <1>4, <2>1 DEF Perfect
<1>5. ASSUME good = total PROVE x = Perfect
  <2>1. ASSUME x > Perfect PROVE FALSE
    <3>1. total * x >= 1000 * total + total
      BY <1>1, <2>1 DEF Perfect
    <3> QED BY <1>1, <1>2, <1>5, <3>1 DEF Perfect
  <2>2. ASSUME x < Perfect PROVE FALSE
    <3>1. total * x <= 1000 * total - total
      BY <1>1, <2>2 DEF Perfect
    <3> QED BY <1>1, <1>2, <1>5, <3>1 DEF Perfect
  <2> QED BY <1>1, <2>1, <2>2 DEF Perfect
<1> QED BY <1>1, <1>4, <1>5 DEF Clamp, Perfect, ClientEventPenalty

-----------------------------------------------------------------------------
(* Types                                                                   *)

(* Rows, drafts and streaks keep their types, one field at a time.         *)
LEMMA RowDated ==
  ASSUME NEW r \in RowSet, NEW t \in -1 .. MaxTime
  PROVE  [r EXCEPT !.last = t] \in RowSet
BY DEF RowSet

LEMMA RowFields ==
  ASSUME NEW r \in RowSet
  PROVE  /\ r.frames \in Nat /\ r.clean \in Nat /\ r.flagged \in Nat /\ r.events \in Nat
         /\ r.last \in -1 .. MaxTime
BY DEF RowSet

LEMMA DraftFieldTypes ==
  ASSUME NEW d \in DraftSet
  PROVE  /\ d.frames \in Nat /\ d.total \in Nat /\ d.clean \in Nat
         /\ d.trust \in NoScore .. Perfect /\ d.endedAt \in -1 .. MaxTime
BY DEF DraftSet

LEMMA NoneTypes == NoDraft \in DraftSet /\ NoStreak \in StreakSet
BY DEF NoDraft, DraftSet, NoStreak, StreakSet, NoScore, Perfect

LEMMA BumpType ==
  ASSUME NEW k \in StreakSet, NEW t \in Types
  PROVE  Bumped(k, t) \in StreakSet
BY DEF Bumped, StreakSet

LEMMA RowGains ==
  ASSUME NEW q \in RowSet, NEW at \in -1 .. MaxTime, NEW c, NEW f
  PROVE  AddFrame(q, c, f, at) \in RowSet /\ AddEvent(q, at) \in RowSet
BY DEF RowSet, Later, AddFrame, AddEvent

LEMMA DraftDated ==
  ASSUME NEW d \in DraftSet, NEW t \in -1 .. MaxTime
  PROVE  [d EXCEPT !.endedAt = t] \in DraftSet
BY DEF DraftSet

LEMMA DraftCounted ==
  ASSUME NEW d \in DraftSet, NEW n \in Nat
  PROVE  [d EXCEPT !.frames = n] \in DraftSet
BY DEF DraftSet

LEMMA DraftTallied ==
  ASSUME NEW d \in DraftSet, NEW r \in RowSet
  PROVE  Tallied(d, r) \in DraftSet
BY DEF DraftSet, RowSet, Tallied

LEMMA DraftScored ==
  ASSUME NEW d \in DraftSet, NEW x \in NoScore .. Perfect
  PROVE  [d EXCEPT !.trust = x] \in DraftSet
BY DEF DraftSet

LEMMA TypeInit == Init => TypeOK
BY DEF Init, TypeOK, NoRows, NoResult, NoStreak, NoDraft, NoScore, Perfect, NoTx, Times,
       RowSet, ResultSet, EventSet, StreakSet, DraftSet, Phases, Steps, Holding, Outcomes
LEMMA TypeStep == TypeOK /\ [Next]_vars => TypeOK'
<1> SUFFICES ASSUME TypeOK, [Next]_vars PROVE TypeOK'
  OBVIOUS
<1> USE DEF TypeOK, Times, NoTx, database, serving, ending, vars
<1>1. CASE Tick
  BY <1>1 DEF Tick
<1>2. ASSUME NEW s \in Sessions, StreakExpires(s) PROVE TypeOK'
  BY <1>2, NoneTypes DEF StreakExpires
<1>3. ASSUME NEW s \in Sessions, CreateSession(s) PROVE TypeOK'
  <2>1. [rows[s] EXCEPT !.last = now] \in RowSet
    BY RowDated
  <2>2. rows' \in [Sessions -> RowSet]
    BY <1>3, <2>1 DEF CreateSession
  <2> QED BY <1>3, <2>2 DEF CreateSession
<1>4. ASSUME NEW h \in Handlers, Handle(h) PROVE TypeOK'
  <2>1. ASSUME NEW s \in Sessions, RestFrame(h, s) PROVE TypeOK'
    BY <2>1 DEF RestFrame, RestRequest, Start, Steps
  <2>2. ASSUME NEW s \in Sessions, ClientEvent(h, s) PROVE TypeOK'
    BY <2>2 DEF ClientEvent, RestRequest, Start, Steps
  <2>3. ASSUME NEW s \in Sessions, Connect(h, s) PROVE TypeOK'
    BY <2>3 DEF Connect, Start, Steps
  <2>4. CASE Receive(h)
    BY <2>4 DEF Receive, Steps
  <2>5. CASE Close(h)
    BY <2>5 DEF Close, Stop, Steps
  <2>6. ASSUME NEW t \in Types, EvaluateViolation(h, t) PROVE TypeOK'
    <3>1. serves[h] \in Sessions
      BY <2>6 DEF EvaluateViolation
    <3>2. Bumped(streak[serves[h]], t) \in StreakSet
      BY <3>1, BumpType
    <3>3. streak' \in [Sessions -> StreakSet]
      BY <2>6, <3>2 DEF EvaluateViolation
    <3>4. raise' \in [Handlers -> BOOLEAN]
      BY <2>6 DEF EvaluateViolation
    <3> QED BY <2>6, <3>3, <3>4 DEF EvaluateViolation, Steps
  <2>7. CASE EvaluateClean(h)
    BY <2>7, NoneTypes DEF EvaluateClean, Steps
  <2>8. CASE CommitFrame(h)
    <3>1. serves[h] \in Sessions
      BY <2>8 DEF CommitFrame
    <3>2. AddFrame(rows[serves[h]], clean[h], raise[h], txStart[h]) \in RowSet
      BY <3>1, RowGains
    <3>3. rows' \in [Sessions -> RowSet]
      BY <2>8, <3>2 DEF CommitFrame
    <3>4. CASE h \in Sockets
      <4>1. /\ step' = [step EXCEPT ![h] = "open"]
            /\ txStart' = [txStart EXCEPT ![h] = NoTx]
            /\ clean' = [clean EXCEPT ![h] = FALSE]
            /\ raise' = [raise EXCEPT ![h] = FALSE]
            /\ UNCHANGED <<serves, work>>
        BY <2>8, <3>4 DEF CommitFrame
      <4>2. UNCHANGED <<now, status, result, outbox, lock, streak, ending>>
        BY <2>8 DEF CommitFrame
      <4> QED BY <3>1, <3>3, <4>1, <4>2 DEF Steps
    <3>5. CASE h \notin Sockets
      <4>1. Stop(h)
        BY <2>8, <3>5 DEF CommitFrame
      <4>2. UNCHANGED <<now, status, result, outbox, lock, streak, ending>>
        BY <2>8 DEF CommitFrame
      <4> QED BY <3>3, <4>1, <4>2 DEF Stop, Steps
    <3> QED BY <3>4, <3>5
  <2>9. CASE CommitEvent(h)
    <3>1. serves[h] \in Sessions
      BY <2>9 DEF CommitEvent
    <3>2. AddEvent(rows[serves[h]], txStart[h]) \in RowSet
      BY <3>1, RowGains
    <3>3. rows' \in [Sessions -> RowSet]
      BY <2>9, <3>1, <3>2 DEF CommitEvent
    <3> QED BY <2>9, <3>3 DEF CommitEvent, Stop, Steps
  <2>10. CASE Fail(h)
    BY <2>10 DEF Fail, Stop, Steps
  <2> QED BY <1>4, <2>1, <2>2, <2>3, <2>4, <2>5, <2>6, <2>7, <2>8, <2>9, <2>10 DEF Handle
<1>5. ASSUME NEW e \in Enders, NEW s \in Sessions, Request(e, s) PROVE TypeOK'
  BY <1>5 DEF Request, Goto, Phases
<1>6. ASSUME NEW e \in Enders, Finalize(e) PROVE TypeOK'
  <2> USE DEF Goto, Phases, Holding
  <2> DEFINE r == rows[target[e]]
  <2>0. draft[e] \in DraftSet
    OBVIOUS
  <2>a. target[e] \in Sessions =>
          /\ r.frames \in Nat /\ r.clean \in Nat /\ r.flagged \in Nat /\ r.events \in Nat
    BY RowFields
  <2>1. CASE Acquire(e)
    <3>1. [draft[e] EXCEPT !.endedAt = IF e \in Sweepers THEN @ ELSE now] \in DraftSet
      BY <2>0, DraftDated, DraftFieldTypes
    <3>2. draft' \in [Enders -> DraftSet]
      BY <2>1, <3>1 DEF Acquire
    <3>3. lock' \in [Sessions -> Enders \cup {Nobody}]
      BY <2>1 DEF Acquire
    <3> QED BY <2>1, <3>2, <3>3 DEF Acquire
  <2>2. CASE TurnAway(e)
    BY <2>2, NoneTypes DEF TurnAway, Leave
  <2>3. CASE CountFrames(e)
    <3>1. [draft[e] EXCEPT !.frames = r.frames] \in DraftSet
      BY <2>0, <2>3, <2>a, DraftCounted DEF CountFrames
    <3>2. draft' \in [Enders -> DraftSet]
      BY <2>3, <3>1 DEF CountFrames
    <3> QED BY <2>3, <3>2 DEF CountFrames
  <2>4. CASE TallyFrames(e)
    <3>1. r \in RowSet
      BY <2>4 DEF TallyFrames
    <3>2. Tallied(draft[e], r) \in DraftSet
      BY <2>0, <3>1, DraftTallied
    <3>3. draft' \in [Enders -> DraftSet]
      BY <2>4, <3>2 DEF TallyFrames
    <3> QED BY <2>4, <3>3 DEF TallyFrames
  <2>5. CASE ScoreEvents(e)
    <3>1. Score(draft[e].total, draft[e].clean, r.events) \in NoScore .. Perfect
      BY <2>0, <2>5, <2>a, DraftFieldTypes, ScoreType DEF ScoreEvents
    <3>2. [draft[e] EXCEPT !.trust = Score(draft[e].total, draft[e].clean, r.events)] \in DraftSet
      BY <2>0, <3>1, DraftScored
    <3>3. draft' \in [Enders -> DraftSet]
      BY <2>5, <3>2 DEF ScoreEvents
    <3> QED BY <2>5, <3>3 DEF ScoreEvents
  <2>6. CASE CommitEnd(e)
    <3> DEFINE res == [frames |-> draft[e].frames, trust |-> draft[e].trust,
                       endedAt |-> draft[e].endedAt]
               ev  == [status |-> OutcomeOf(e), frames |-> draft[e].frames,
                       trust |-> draft[e].trust, endedAt |-> draft[e].endedAt,
                       listed |-> r.flagged + r.events]
    <3>1. target[e] \in Sessions /\ OutcomeOf(e) \in Outcomes
      BY <2>6 DEF CommitEnd, OutcomeOf, Outcomes
    <3>2. res \in ResultSet
      BY <2>0, DraftFieldTypes DEF ResultSet
    <3>3. ev \in EventSet
      BY <2>0, <2>a, <3>1, DraftFieldTypes DEF EventSet
    <3>4. result' \in [Sessions -> ResultSet]
      BY <2>6, <3>2 DEF CommitEnd
    <3>5. outbox' \in [Sessions -> Seq(EventSet)]
      <4>1. Append(outbox[target[e]], ev) \in Seq(EventSet)
        BY <3>1, <3>3
      <4> QED BY <2>6, <4>1 DEF CommitEnd
    <3>6. status' \in [Sessions -> {"absent", "active"} \cup Outcomes]
      BY <2>6, <3>1 DEF CommitEnd
    <3>7. lock' \in [Sessions -> Enders \cup {Nobody}] /\ draft' \in [Enders -> DraftSet]
      BY <2>6, NoneTypes DEF CommitEnd
    <3> QED BY <2>6, <3>1, <3>4, <3>5, <3>6, <3>7 DEF CommitEnd
  <2>7. CASE ResetStreak(e)
    BY <2>7, NoneTypes DEF ResetStreak, Leave
  <2> QED BY <1>6, <2>1, <2>2, <2>3, <2>4, <2>5, <2>6, <2>7 DEF Finalize
<1>7. ASSUME NEW e \in Enders, SweepStep(e) PROVE TypeOK'
  <2> USE DEF Goto, Phases
  <2>1. CASE Sweep(e)
    <3>1. \A s \in Sessions : rows[s].last \in -1 .. MaxTime
      BY RowFields
    <3>2. PICK page \in SUBSET Stale :
            todo' = [todo EXCEPT ![e] = {[session |-> s, seen |-> rows[s].last] : s \in page}]
      BY <2>1 DEF Sweep
    <3>3. {[session |-> s, seen |-> rows[s].last] : s \in page}
            \in SUBSET [session : Sessions, seen : -1 .. MaxTime]
      BY <3>1 DEF Stale
    <3>4. todo' \in [Sweepers -> SUBSET [session : Sessions, seen : -1 .. MaxTime]]
      BY <3>2, <3>3
    <3> QED BY <2>1, <3>4 DEF Sweep
  <2>2. CASE VisitRow(e)
    <3>1. PICK v \in todo[e] :
            /\ todo' = [todo EXCEPT ![e] = @ \ {v}]
            /\ target' = [target EXCEPT ![e] = v.session]
            /\ draft' = [draft EXCEPT ![e].endedAt = v.seen]
      BY <2>2 DEF VisitRow
    <3>2. e \in Sweepers /\ v \in [session : Sessions, seen : -1 .. MaxTime]
      BY <2>2, <3>1 DEF VisitRow
    <3>3. v.session \in Sessions /\ v.seen \in -1 .. MaxTime
      BY <3>2
    <3>4. [draft[e] EXCEPT !.endedAt = v.seen] \in DraftSet
      BY <3>3, DraftDated
    <3>5. draft' \in [Enders -> DraftSet]
      BY <3>1, <3>4
    <3>6. todo' \in [Sweepers -> SUBSET [session : Sessions, seen : -1 .. MaxTime]]
      BY <3>1, <3>2
    <3> QED BY <2>2, <3>1, <3>3, <3>5, <3>6 DEF VisitRow
  <2>3. CASE SweepDone(e)
    BY <2>3 DEF SweepDone
  <2> QED BY <1>7, <2>1, <2>2, <2>3 DEF SweepStep
<1>8. ASSUME NEW e \in Enders, Crash(e) PROVE TypeOK'
  BY <1>8, NoneTypes DEF Crash, Goto, Phases
<1>9. CASE UNCHANGED vars
  BY <1>9
<1> QED BY <1>1, <1>2, <1>3, <1>4, <1>5, <1>6, <1>7, <1>8, <1>9 DEF Next

(* The variables keep their types; in particular every stored or announced *)
(* trust score is None or within 0..100 points.                            *)
THEOREM Typing == Spec => []TypeOK
BY TypeInit, TypeStep, PTL DEF Spec

-----------------------------------------------------------------------------
(* The row lock                                                            *)

LEMMA LockInit == Init => RowLock
BY DEF Init, RowLock, Holding

LEMMA LockStep == TypeOK /\ RowLock /\ [Next]_vars => RowLock'
<1> SUFFICES ASSUME TypeOK, RowLock, [Next]_vars PROVE RowLock'
  OBVIOUS
<1> USE DEF database, serving, ending, vars, Holding
<1>0. /\ phase \in [Enders -> Phases]
      /\ target \in [Enders -> Sessions \cup {NoSession}]
      /\ lock \in [Sessions -> Enders \cup {Nobody}]
      /\ status \in [Sessions -> {"absent", "active"} \cup Outcomes]
      /\ \A e \in Enders : phase[e] \notin {"idle", "sweeping"} => target[e] \in Sessions
  BY DEF TypeOK
<1>1. CASE UNCHANGED <<status, lock, phase, target>>
  BY <1>1 DEF RowLock
<1>2. ASSUME NEW s \in Sessions, CreateSession(s) PROVE RowLock'
  BY <1>0, <1>2 DEF RowLock, CreateSession
<1>3. ASSUME NEW h \in Handlers, Handle(h) PROVE UNCHANGED <<status, lock, phase, target>>
  BY <1>3 DEF Handle, RestFrame, ClientEvent, RestRequest, Start, Stop, Connect, Receive, Close,
              EvaluateViolation, EvaluateClean, CommitFrame, CommitEvent, Fail
<1>4. ASSUME NEW e \in Enders, NEW s \in Sessions, Request(e, s) PROVE RowLock'
  BY <1>0, <1>4 DEF RowLock, Request, Goto
<1>5. ASSUME NEW e \in Enders, Finalize(e) PROVE RowLock'
  <2>1. CASE Acquire(e)
    BY <1>0, <2>1 DEF RowLock, Acquire, Goto, RowFree, StillActive
  <2>2. CASE TurnAway(e)
    BY <1>0, <2>2 DEF RowLock, TurnAway, Leave, Goto
  <2>3. CASE CountFrames(e)
    BY <1>0, <2>3 DEF RowLock, CountFrames, Goto
  <2>4. CASE TallyFrames(e)
    BY <1>0, <2>4 DEF RowLock, TallyFrames, Goto
  <2>5. CASE ScoreEvents(e)
    BY <1>0, <2>5 DEF RowLock, ScoreEvents, Goto
  <2>6. CASE CommitEnd(e)
    <3>1. /\ phase[e] = "scored"
          /\ status' = [status EXCEPT ![target[e]] = OutcomeOf(e)]
          /\ lock' = [lock EXCEPT ![target[e]] = Nobody]
          /\ phase' = [phase EXCEPT ![e] = "committed"]
          /\ target' = target
      BY <2>6 DEF CommitEnd, Goto
    <3> QED BY <1>0, <3>1 DEF RowLock
  <2>7. CASE ResetStreak(e)
    BY <1>0, <2>7 DEF RowLock, ResetStreak, Leave, Goto
  <2> QED BY <1>5, <2>1, <2>2, <2>3, <2>4, <2>5, <2>6, <2>7 DEF Finalize
<1>6. ASSUME NEW e \in Enders, SweepStep(e) PROVE RowLock'
  <2>1. CASE Sweep(e)
    BY <1>0, <2>1 DEF RowLock, Sweep, Goto
  <2>2. CASE VisitRow(e)
    BY <1>0, <2>2 DEF RowLock, VisitRow, Goto
  <2>3. CASE SweepDone(e)
    BY <1>0, <2>3 DEF RowLock, SweepDone, Goto
  <2> QED BY <1>6, <2>1, <2>2, <2>3 DEF SweepStep
<1>7. ASSUME NEW e \in Enders, Crash(e) PROVE RowLock'
  BY <1>0, <1>7 DEF RowLock, Crash, Goto
<1>8. CASE Tick
  BY <1>1, <1>8 DEF Tick
<1>9. ASSUME NEW s \in Sessions, StreakExpires(s) PROVE RowLock'
  BY <1>1, <1>9 DEF StreakExpires
<1> QED BY <1>1, <1>2, <1>3, <1>4, <1>5, <1>6, <1>7, <1>8, <1>9 DEF Next

(* Only one ender finalizes a session at a time, and only while it is      *)
(* active: SELECT ... FOR UPDATE with the status re-read.                  *)
THEOREM RowLockHeld == Spec => []RowLock
BY TypeInit, TypeStep, LockInit, LockStep, PTL DEF Spec

-----------------------------------------------------------------------------
(* What an ender has read stays true                                       *)

LEMMA ReadsInit == Init => ReadsStand
BY DEF Init, ReadsStand

(* No row of a session appears while an ender finalizes it.                *)
LEMMA RowsStand ==
  ASSUME TypeOK, RowLock, [Next]_vars, NEW e \in Enders, phase[e] \in Holding
  PROVE  rows'[target[e]] = rows[target[e]]
<1> USE DEF database, serving, ending, vars
<1>0. /\ target[e] \in Sessions /\ lock[target[e]] = e /\ status[target[e]] = "active"
      /\ rows \in [Sessions -> RowSet] /\ e # Nobody
  BY DEF TypeOK, RowLock, Holding
<1>1. CASE rows' = rows
  BY <1>1
<1>2. ASSUME NEW s \in Sessions, CreateSession(s) PROVE rows'[target[e]] = rows[target[e]]
  BY <1>0, <1>2 DEF CreateSession
<1>3. ASSUME NEW h \in Handlers, CommitFrame(h) PROVE rows'[target[e]] = rows[target[e]]
  BY <1>0, <1>3 DEF CommitFrame, RowFree
<1>4. ASSUME NEW h \in Handlers, CommitEvent(h) PROVE rows'[target[e]] = rows[target[e]]
  BY <1>0, <1>4 DEF CommitEvent, RowFree
<1>5. ASSUME NEW h \in Handlers, Handle(h) PROVE rows'[target[e]] = rows[target[e]]
  BY <1>3, <1>4, <1>5 DEF Handle, RestFrame, ClientEvent, RestRequest, Start, Connect,
     Receive, Close, EvaluateViolation, EvaluateClean, Fail
<1>6. ASSUME NEW f \in Enders, Finalize(f) PROVE rows' = rows
  BY <1>6 DEF Finalize, Acquire, TurnAway, CountFrames, TallyFrames, ScoreEvents, CommitEnd,
     ResetStreak
<1>7. ASSUME NEW f \in Enders, (\E s \in Sessions : Request(f, s)) \/ SweepStep(f) \/ Crash(f)
      PROVE  rows' = rows
  BY <1>7 DEF Request, SweepStep, Sweep, VisitRow, SweepDone, Crash
<1>8. Tick \/ (\E s \in Sessions : StreakExpires(s)) => rows' = rows
  BY DEF Tick, StreakExpires
<1> QED BY <1>1, <1>2, <1>5, <1>6, <1>7, <1>8 DEF Next

LEMMA ReadsStep == TypeOK /\ RowLock /\ ReadsStand /\ [Next]_vars => ReadsStand'
<1> SUFFICES ASSUME TypeOK, RowLock, ReadsStand, [Next]_vars PROVE ReadsStand'
  OBVIOUS
<1> USE DEF database, serving, ending, vars
<1> DEFINE Agrees(e, p, d, r) ==
      /\ p \in {"counted", "tallied", "scored"} => d.frames = r.frames
      /\ p = "tallied" => d.total = r.frames /\ d.clean = r.clean
      /\ p = "scored" => d.trust = Score(r.frames, r.clean, r.events)
<1> SUFFICES ASSUME NEW e \in Enders PROVE Agrees(e, phase'[e], draft'[e], rows'[target'[e]])
  BY DEF ReadsStand
<1>0. /\ phase \in [Enders -> Phases] /\ target \in [Enders -> Sessions \cup {NoSession}]
      /\ draft \in [Enders -> DraftSet]
  BY DEF TypeOK
<1>1. Agrees(e, phase[e], draft[e], rows[target[e]])
  BY DEF ReadsStand
<1>2. ASSUME phase'[e] = phase[e], phase[e] \in Holding, draft'[e] = draft[e],
             target'[e] = target[e]
      PROVE  Agrees(e, phase'[e], draft'[e], rows'[target'[e]])
  BY <1>1, <1>2, RowsStand
<1>3. ASSUME phase'[e] \notin {"counted", "tallied", "scored"}
      PROVE  Agrees(e, phase'[e], draft'[e], rows'[target'[e]])
  BY <1>3
<1>4. ASSUME UNCHANGED <<phase, draft, target>>
      PROVE  Agrees(e, phase'[e], draft'[e], rows'[target'[e]])
  BY <1>2, <1>3, <1>4 DEF Holding
<1>5. ASSUME NEW f \in Enders, Finalize(f)
      PROVE  Agrees(e, phase'[e], draft'[e], rows'[target'[e]])
  <2>1. CASE f # e
    <3>1. phase'[e] = phase[e] /\ draft'[e] = draft[e] /\ target'[e] = target[e]
      BY <1>0, <1>5, <2>1 DEF Finalize, Acquire, TurnAway, Leave, CountFrames, TallyFrames,
         ScoreEvents, CommitEnd, ResetStreak, Goto
    <3> QED BY <1>2, <1>3, <3>1 DEF Holding
  <2>2. CASE f = e /\ CountFrames(e)
    <3>1. /\ phase'[e] = "counted" /\ target' = target /\ rows' = rows
          /\ draft'[e] = [draft[e] EXCEPT !.frames = rows[target[e]].frames]
      BY <1>0, <2>2 DEF CountFrames, Goto
    <3>2. draft'[e].frames = rows[target[e]].frames
      BY <1>0, <3>1 DEF DraftSet
    <3> QED BY <3>1, <3>2
  <2>3. CASE f = e /\ TallyFrames(e)
    <3>1. /\ phase[e] = "counted" /\ phase'[e] = "tallied" /\ target' = target /\ rows' = rows
          /\ draft'[e] = Tallied(draft[e], rows[target[e]])
      BY <1>0, <2>3 DEF TallyFrames, Goto
    <3> QED BY <1>1, <3>1 DEF Tallied
  <2>4. CASE f = e /\ ScoreEvents(e)
    <3> DEFINE x == Score(draft[e].total, draft[e].clean, rows[target[e]].events)
    <3>1. /\ phase[e] = "tallied" /\ phase'[e] = "scored" /\ target' = target /\ rows' = rows
          /\ draft'[e] = [draft[e] EXCEPT !.trust = x]
      BY <1>0, <2>4 DEF ScoreEvents, Goto
    <3>2. draft'[e].trust = x /\ draft'[e].frames = draft[e].frames
      BY <1>0, <3>1 DEF DraftSet
    <3> QED BY <1>1, <3>1, <3>2
  <2>5. CASE f = e /\ (Acquire(e) \/ TurnAway(e) \/ CommitEnd(e) \/ ResetStreak(e))
    <3>1. phase'[e] \in {"locked", "idle", "sweeping", "committed"}
      BY <1>0, <2>5 DEF Acquire, TurnAway, CommitEnd, ResetStreak, Leave, Goto
    <3> QED BY <1>3, <3>1
  <2> QED BY <1>5, <2>1, <2>2, <2>3, <2>4, <2>5 DEF Finalize
<1>6. ASSUME NEW f \in Enders, (\E s \in Sessions : Request(f, s)) \/ SweepStep(f) \/ Crash(f)
      PROVE  Agrees(e, phase'[e], draft'[e], rows'[target'[e]])
  <2>1. CASE f # e
    <3>1. phase'[e] = phase[e] /\ draft'[e] = draft[e] /\ target'[e] = target[e]
      BY <1>0, <1>6, <2>1 DEF Request, SweepStep, Sweep, VisitRow, SweepDone, Crash, Goto
    <3> QED BY <1>2, <1>3, <3>1 DEF Holding
  <2>2. CASE f = e
    <3>1. phase'[e] \in {"waiting", "idle", "sweeping"}
      BY <1>0, <1>6, <2>2 DEF Request, SweepStep, Sweep, VisitRow, SweepDone, Crash, Goto
    <3> QED BY <1>3, <3>1
  <2> QED BY <2>1, <2>2
<1>7. ASSUME NEW h \in Handlers, Handle(h) PROVE UNCHANGED <<phase, draft, target>>
  BY <1>7 DEF Handle, RestFrame, ClientEvent, RestRequest, Start, Stop, Connect, Receive, Close,
              EvaluateViolation, EvaluateClean, CommitFrame, CommitEvent, Fail
<1>8. Tick \/ (\E s \in Sessions : CreateSession(s) \/ StreakExpires(s))
        => UNCHANGED <<phase, draft, target>>
  BY DEF Tick, CreateSession, StreakExpires
<1> QED BY <1>4, <1>5, <1>6, <1>7, <1>8 DEF Next

(* The frozen frame count, the score and the reported list are those of    *)
(* one moment, although finalize_session reads them in four statements.    *)
THEOREM ReadsAgree == Spec => []ReadsStand
BY TypeInit, TypeStep, LockInit, LockStep, ReadsInit, ReadsStep, PTL DEF Spec

-----------------------------------------------------------------------------
(* Dates                                                                   *)

LEMMA DatedInit == Init => Dated
BY DEF Init, Dated, Holding

LEMMA DatedStep == TypeOK /\ RowLock /\ Dated /\ [Next]_vars => Dated'
<1> SUFFICES ASSUME TypeOK, RowLock, Dated, [Next]_vars PROVE Dated'
  OBVIOUS
<1> USE DEF database, serving, ending, vars, Holding
<1>0. /\ now \in Times
      /\ status \in [Sessions -> {"absent", "active"} \cup Outcomes]
      /\ rows \in [Sessions -> RowSet]
      /\ phase \in [Enders -> Phases] /\ target \in [Enders -> Sessions \cup {NoSession}]
      /\ draft \in [Enders -> DraftSet]
      /\ todo \in [Sweepers -> SUBSET [session : Sessions, seen : -1 .. MaxTime]]
      /\ step \in [Handlers -> Steps] /\ serves \in [Handlers -> Sessions \cup {NoSession}]
      /\ txStart \in [Handlers -> -1 .. MaxTime]
      /\ \A h \in Handlers : step[h] # "idle" => serves[h] \in Sessions
      /\ \A e \in Enders : phase[e] \notin {"idle", "sweeping"} => target[e] \in Sessions
  BY DEF TypeOK
<1>1. ASSUME UNCHANGED <<status, rows, step, serves, phase, draft, todo>> PROVE Dated'
  BY <1>1 DEF Dated
<1>2. ASSUME NEW s \in Sessions, CreateSession(s) PROVE Dated'
  <2>1. /\ rows' = [rows EXCEPT ![s] = [rows[s] EXCEPT !.last = now]]
        /\ status' = [status EXCEPT ![s] = "active"]
        /\ UNCHANGED <<step, serves, phase, draft, todo>>
    BY <1>2 DEF CreateSession
  <2>2. rows'[s].last = now
    BY <1>0, <2>1 DEF RowSet
  <2> QED BY <1>0, <2>1, <2>2 DEF Dated
<1>3. ASSUME NEW h \in Handlers, Handle(h) PROVE Dated'
  <2>1. ASSUME NEW s \in Sessions, RestFrame(h, s) \/ ClientEvent(h, s) \/ Connect(h, s)
        PROVE  Dated'
    BY <1>0, <2>1 DEF Dated, RestFrame, ClientEvent, RestRequest, Connect, Start
  <2>2. CASE Receive(h)
    BY <1>0, <2>2 DEF Dated, Receive
  <2>3. CASE Close(h) \/ Fail(h)
    BY <1>0, <2>3 DEF Dated, Close, Fail, Stop
  <2>4. ASSUME NEW t \in Types, EvaluateViolation(h, t) PROVE Dated'
    BY <1>0, <2>4 DEF Dated, EvaluateViolation
  <2>5. CASE EvaluateClean(h)
    BY <1>0, <2>5 DEF Dated, EvaluateClean
  <2>6. ASSUME NEW r, r.last = Later(rows[serves[h]].last, txStart[h]), step[h] # "idle",
               rows' = [rows EXCEPT ![serves[h]] = r], UNCHANGED status
        PROVE  \A s \in Sessions : status'[s] # "absent" => rows'[s].last \in Times
    <3>1. serves[h] \in Sessions /\ rows[serves[h]].last \in Times
      BY <1>0, <2>6 DEF Dated
    <3>2. txStart[h] \in -1 .. MaxTime
      BY <1>0
    <3>3. r.last \in Times
      BY <2>6, <3>1, <3>2 DEF Later, Times
    <3> QED BY <1>0, <2>6, <3>1, <3>3 DEF Dated
  <2>7. CASE CommitFrame(h)
    <3> DEFINE r == AddFrame(rows[serves[h]], clean[h], raise[h], txStart[h])
    <3>1. r.last = Later(rows[serves[h]].last, txStart[h])
      BY DEF AddFrame
    <3>2. step[h] # "idle" /\ UNCHANGED <<status, phase, draft, todo>>
      BY <2>7 DEF CommitFrame
    <3>3. rows' = [rows EXCEPT ![serves[h]] = r]
      BY <1>0, <2>7 DEF CommitFrame
    <3>4. \A s \in Sessions : status'[s] # "absent" => rows'[s].last \in Times
      BY <2>6, <3>1, <3>2, <3>3
    <3>5. \/ step' = [step EXCEPT ![h] = "open"] /\ UNCHANGED serves
          \/ step' = [step EXCEPT ![h] = "idle"] /\ serves' = [serves EXCEPT ![h] = NoSession]
      BY <2>7 DEF CommitFrame, Stop
    <3> QED BY <1>0, <3>2, <3>4, <3>5 DEF Dated
  <2>8. CASE CommitEvent(h)
    <3> DEFINE r == AddEvent(rows[serves[h]], txStart[h])
    <3>1. r.last = Later(rows[serves[h]].last, txStart[h])
      BY DEF AddEvent
    <3>2. step[h] # "idle" /\ UNCHANGED <<status, phase, draft, todo>>
      BY <2>8 DEF CommitEvent
    <3>3. rows' = [rows EXCEPT ![serves[h]] = r]
      BY <1>0, <2>8 DEF CommitEvent
    <3>4. \A s \in Sessions : status'[s] # "absent" => rows'[s].last \in Times
      BY <2>6, <3>1, <3>2, <3>3
    <3>5. step' = [step EXCEPT ![h] = "idle"] /\ serves' = [serves EXCEPT ![h] = NoSession]
      BY <2>8 DEF CommitEvent, Stop
    <3> QED BY <1>0, <3>2, <3>4, <3>5 DEF Dated
  <2> QED BY <1>3, <2>1, <2>2, <2>3, <2>4, <2>5, <2>7, <2>8 DEF Handle
<1>4. ASSUME NEW e \in Enders, NEW s \in Sessions, Request(e, s) PROVE Dated'
  BY <1>0, <1>4 DEF Dated, Request, Goto
<1>5. ASSUME NEW e \in Enders, Finalize(e) PROVE Dated'
  <2>0. UNCHANGED <<rows, step, serves, todo>>
    BY <1>5 DEF Finalize, Acquire, TurnAway, CountFrames, TallyFrames, ScoreEvents, CommitEnd,
       ResetStreak
  <2>1. CASE Acquire(e)
    <3>1. /\ phase' = [phase EXCEPT ![e] = "locked"] /\ UNCHANGED status /\ phase[e] = "waiting"
          /\ draft' = [draft EXCEPT ![e] =
                         [draft[e] EXCEPT !.endedAt = IF e \in Sweepers THEN @ ELSE now]]
      BY <2>1 DEF Acquire, Goto
    <3>2. draft'[e].endedAt = IF e \in Sweepers THEN draft[e].endedAt ELSE now
      BY <1>0, <3>1 DEF DraftSet
    <3>3. draft'[e].endedAt \in Times
      BY <1>0, <3>1, <3>2 DEF Dated
    <3> QED BY <1>0, <2>0, <3>1, <3>3 DEF Dated
  <2>2. CASE TurnAway(e)
    BY <1>0, <2>0, <2>2 DEF Dated, TurnAway, Leave, Goto
  <2>3. ASSUME NEW f \in {"counted", "tallied", "scored"}, NEW d, d.endedAt = draft[e].endedAt,
               phase[e] \in Holding, UNCHANGED status,
               phase' = [phase EXCEPT ![e] = f], draft' = [draft EXCEPT ![e] = d]
        PROVE  Dated'
    BY <1>0, <2>0, <2>3 DEF Dated
  <2>4. CASE CountFrames(e)
    <3> DEFINE d == [draft[e] EXCEPT !.frames = rows[target[e]].frames]
    <3>1. d.endedAt = draft[e].endedAt
      BY <1>0 DEF DraftSet
    <3>2. /\ draft' = [draft EXCEPT ![e] = d] /\ phase' = [phase EXCEPT ![e] = "counted"]
          /\ phase[e] \in Holding /\ UNCHANGED status
      BY <2>4 DEF CountFrames, Goto
    <3> QED BY <2>3, <3>1, <3>2
  <2>5. CASE TallyFrames(e)
    <3>1. Tallied(draft[e], rows[target[e]]).endedAt = draft[e].endedAt
      BY DEF Tallied
    <3>2. /\ draft' = [draft EXCEPT ![e] = Tallied(draft[e], rows[target[e]])]
          /\ phase' = [phase EXCEPT ![e] = "tallied"]
          /\ phase[e] \in Holding /\ UNCHANGED status
      BY <2>5 DEF TallyFrames, Goto
    <3> QED BY <2>3, <3>1, <3>2
  <2>6. CASE ScoreEvents(e)
    <3> DEFINE d == [draft[e] EXCEPT !.trust =
                       Score(draft[e].total, draft[e].clean, rows[target[e]].events)]
    <3>1. d.endedAt = draft[e].endedAt
      BY <1>0 DEF DraftSet
    <3>2. /\ draft' = [draft EXCEPT ![e] = d] /\ phase' = [phase EXCEPT ![e] = "scored"]
          /\ phase[e] \in Holding /\ UNCHANGED status
      BY <2>6 DEF ScoreEvents, Goto
    <3> QED BY <2>3, <3>1, <3>2
  <2>7. CASE CommitEnd(e)
    <3>1. /\ phase[e] = "scored" /\ phase' = [phase EXCEPT ![e] = "committed"]
          /\ status' = [status EXCEPT ![target[e]] = OutcomeOf(e)]
          /\ draft' = [draft EXCEPT ![e] = NoDraft]
      BY <2>7 DEF CommitEnd, Goto
    <3>2. status[target[e]] = "active" /\ OutcomeOf(e) # "absent"
      BY <3>1 DEF RowLock, OutcomeOf
    <3> QED BY <1>0, <2>0, <3>1, <3>2 DEF Dated
  <2>8. CASE ResetStreak(e)
    BY <1>0, <2>0, <2>8 DEF Dated, ResetStreak, Leave, Goto
  <2> QED BY <1>5, <2>1, <2>2, <2>4, <2>5, <2>6, <2>7, <2>8 DEF Finalize
<1>6. ASSUME NEW e \in Enders, SweepStep(e) PROVE Dated'
  <2>1. CASE Sweep(e)
    <3>1. PICK page \in SUBSET Stale :
            todo' = [todo EXCEPT ![e] = {[session |-> s, seen |-> rows[s].last] : s \in page}]
      BY <2>1 DEF Sweep
    <3>2. \A v \in todo'[e] : v.seen \in Times
      <4>1. \A s \in page : rows[s].last \in Times
        BY DEF Stale, Dated
      <4> QED BY <1>0, <2>1, <3>1, <4>1 DEF Sweep
    <3>3. /\ e \in Sweepers /\ phase' = [phase EXCEPT ![e] = "sweeping"]
          /\ UNCHANGED <<status, rows, step, serves, draft>>
      BY <2>1 DEF Sweep, Goto
    <3> QED BY <1>0, <3>1, <3>2, <3>3 DEF Dated
  <2>2. CASE VisitRow(e)
    <3>1. PICK v \in todo[e] :
            /\ todo' = [todo EXCEPT ![e] = @ \ {v}]
            /\ draft' = [draft EXCEPT ![e] = [draft[e] EXCEPT !.endedAt = v.seen]]
      BY <2>2 DEF VisitRow
    <3>2. /\ e \in Sweepers /\ phase' = [phase EXCEPT ![e] = "waiting"]
          /\ UNCHANGED <<status, rows, step, serves>>
      BY <2>2 DEF VisitRow, Goto
    <3>3. v.seen \in Times
      BY <3>2 DEF Dated
    <3>4. draft'[e].endedAt = v.seen
      BY <1>0, <3>1 DEF DraftSet
    <3>5. \A f \in Enders : f # e => draft'[f] = draft[f]
      BY <1>0, <3>1
    <3>6. \A f \in Sweepers : \A w \in todo'[f] : w.seen \in Times
      BY <1>0, <3>1 DEF Dated
    <3>7. \A f \in Enders :
            phase'[f] \in Holding \/ (phase'[f] = "waiting" /\ f \in Sweepers)
              => draft'[f].endedAt \in Times
      BY <1>0, <3>2, <3>3, <3>4, <3>5 DEF Dated
    <3> QED BY <3>2, <3>6, <3>7 DEF Dated
  <2>3. CASE SweepDone(e)
    BY <1>0, <2>3 DEF Dated, SweepDone, Goto
  <2> QED BY <1>6, <2>1, <2>2, <2>3 DEF SweepStep
<1>7. ASSUME NEW e \in Enders, Crash(e) PROVE Dated'
  <2>1. /\ phase' = [phase EXCEPT ![e] = "idle"] /\ draft' = [draft EXCEPT ![e] = NoDraft]
        /\ todo' = todo \/ todo' = [todo EXCEPT ![e] = {}]
        /\ UNCHANGED <<status, rows, step, serves>>
    BY <1>7 DEF Crash, Goto
  <2> QED BY <1>0, <2>1 DEF Dated
<1>8. Tick \/ (\E s \in Sessions : StreakExpires(s))
        => UNCHANGED <<status, rows, step, serves, phase, draft, todo>>
  BY DEF Tick, StreakExpires
<1>9. CASE UNCHANGED vars
  BY <1>1, <1>9
<1> QED BY <1>1, <1>2, <1>3, <1>4, <1>5, <1>6, <1>7, <1>8, <1>9 DEF Next

-----------------------------------------------------------------------------
(* The inductive invariant                                                 *)

IInv == TypeOK /\ RowLock /\ ReadsStand /\ Dated

LEMMA IInvAlways == Spec => []IInv
<1>1. Init => IInv
  BY TypeInit, LockInit, ReadsInit, DatedInit DEF IInv
<1>2. IInv /\ [Next]_vars => IInv'
  BY TypeStep, LockStep, ReadsStep, DatedStep DEF IInv
<1> QED BY <1>1, <1>2, PTL DEF Spec

(* What CommitEnd writes, in terms of the rows of that moment.             *)
LEMMA CommitWrites ==
  ASSUME IInv, NEW e \in Enders, CommitEnd(e)
  PROVE  LET s == target[e]
             res == [frames |-> rows[s].frames,
                     trust |-> Score(rows[s].frames, rows[s].clean, rows[s].events),
                     endedAt |-> draft[e].endedAt]
         IN  /\ s \in Sessions /\ status[s] = "active" /\ OutcomeOf(e) \in Outcomes
             /\ draft[e].endedAt \in Times
             /\ status' = [status EXCEPT ![s] = OutcomeOf(e)]
             /\ rows' = rows
             /\ result' = [result EXCEPT ![s] = res]
             /\ outbox' = IF s \in Subscribed
                          THEN [outbox EXCEPT ![s] = Append(@,
                                 [status |-> OutcomeOf(e), frames |-> res.frames,
                                  trust |-> res.trust, endedAt |-> res.endedAt,
                                  listed |-> rows[s].flagged + rows[s].events])]
                          ELSE outbox
<1>1. phase[e] = "scored"
  BY DEF CommitEnd
<1>2. target[e] \in Sessions
  BY <1>1 DEF IInv, TypeOK
<1>3. status[target[e]] = "active"
  BY <1>1 DEF IInv, RowLock, Holding
<1>4. OutcomeOf(e) \in Outcomes
  BY DEF OutcomeOf, Outcomes
<1>5. /\ draft[e].frames = rows[target[e]].frames
      /\ draft[e].trust = Score(rows[target[e]].frames, rows[target[e]].clean,
                                rows[target[e]].events)
  BY <1>1 DEF IInv, ReadsStand
<1>6. draft[e].endedAt \in Times
  BY <1>1 DEF IInv, Dated, Holding
<1> QED BY <1>2, <1>3, <1>4, <1>5, <1>6 DEF CommitEnd

-----------------------------------------------------------------------------
(* One event per end                                                       *)

(* Every step other than CommitEnd leaves results and events alone, and    *)
(* never ends or revives a session.                                        *)
LEMMA OnlyCommitEnds ==
  ASSUME [Next]_vars, \A e \in Enders : ~CommitEnd(e)
  PROVE  /\ UNCHANGED <<result, outbox>>
         /\ \/ status' = status
            \/ \E s \in Sessions : CreateSession(s)
<1> USE DEF database, serving, ending, vars
<1>1. ASSUME NEW h \in Handlers, Handle(h) PROVE UNCHANGED <<status, result, outbox>>
  BY <1>1 DEF Handle, RestFrame, ClientEvent, RestRequest, Start, Connect, Receive, Close,
              EvaluateViolation, EvaluateClean, CommitFrame, CommitEvent, Fail
<1>2. ASSUME NEW e \in Enders, Finalize(e) PROVE UNCHANGED <<status, result, outbox>>
  BY <1>2 DEF Finalize, Acquire, TurnAway, CountFrames, TallyFrames, ScoreEvents, ResetStreak
<1>3. ASSUME NEW e \in Enders, (\E s \in Sessions : Request(e, s)) \/ SweepStep(e) \/ Crash(e)
      PROVE  UNCHANGED <<status, result, outbox>>
  BY <1>3 DEF Request, SweepStep, Sweep, VisitRow, SweepDone, Crash
<1>4. ASSUME NEW s \in Sessions, CreateSession(s) PROVE UNCHANGED <<result, outbox>>
  BY <1>4 DEF CreateSession
<1>5. Tick \/ (\E s \in Sessions : StreakExpires(s)) => UNCHANGED <<status, result, outbox>>
  BY DEF Tick, StreakExpires
<1> QED BY <1>1, <1>2, <1>3, <1>4, <1>5 DEF Next

LEMMA EventInit == Init => OneEventPerEnd
BY DEF Init, OneEventPerEnd, Ended, Outcomes

LEMMA EventStep == IInv /\ OneEventPerEnd /\ [Next]_vars => OneEventPerEnd'
<1> SUFFICES ASSUME IInv, OneEventPerEnd, [Next]_vars PROVE OneEventPerEnd'
  OBVIOUS
<1>0. /\ status \in [Sessions -> {"absent", "active"} \cup Outcomes]
      /\ result \in [Sessions -> ResultSet]
      /\ outbox \in [Sessions -> Seq(EventSet)]
  BY DEF IInv, TypeOK
<1>1. ASSUME NEW e \in Enders, CommitEnd(e) PROVE OneEventPerEnd'
  <2> DEFINE s == target[e]
             res == [frames |-> rows[s].frames,
                     trust |-> Score(rows[s].frames, rows[s].clean, rows[s].events),
                     endedAt |-> draft[e].endedAt]
             ev == [status |-> OutcomeOf(e), frames |-> res.frames, trust |-> res.trust,
                    endedAt |-> res.endedAt, listed |-> rows[s].flagged + rows[s].events]
  <2>1. /\ s \in Sessions /\ status[s] = "active" /\ OutcomeOf(e) \in Outcomes
        /\ status' = [status EXCEPT ![s] = OutcomeOf(e)]
        /\ result' = [result EXCEPT ![s] = res]
        /\ outbox' = IF s \in Subscribed THEN [outbox EXCEPT ![s] = Append(@, ev)] ELSE outbox
    BY <1>1, CommitWrites
  <2>2. outbox[s] = << >>
    BY <2>1 DEF OneEventPerEnd, Ended, Outcomes
  <2>3. status'[s] = OutcomeOf(e) /\ result'[s] = res
    BY <1>0, <2>1
  <2>4. outbox'[s] = IF s \in Subscribed THEN << ev >> ELSE << >>
    BY <1>0, <2>1, <2>2
  <2> HIDE DEF s, res, ev
  <2>5. ASSUME NEW t \in Sessions, t # s
        PROVE  status'[t] = status[t] /\ result'[t] = result[t] /\ outbox'[t] = outbox[t]
    BY <1>0, <2>1, <2>5
  <2>6. /\ ev.status = OutcomeOf(e) /\ ev.frames = res.frames /\ ev.trust = res.trust
        /\ ev.endedAt = res.endedAt
    BY DEF ev
  <2>7. Len(<< ev >>) = 1 /\ << ev >>[1] = ev
    OBVIOUS
  <2> DEFINE Tells(t, st, rt, ot) ==
        IF st \in Outcomes /\ t \in Subscribed
        THEN /\ Len(ot) = 1 /\ ot[1].status = st /\ ot[1].frames = rt.frames
             /\ ot[1].trust = rt.trust /\ ot[1].endedAt = rt.endedAt
        ELSE ot = << >>
  <2>8. Tells(s, OutcomeOf(e), res, IF s \in Subscribed THEN << ev >> ELSE << >>)
    BY <2>1, <2>6, <2>7
  <2>9. ASSUME NEW t \in Sessions PROVE Tells(t, status'[t], result'[t], outbox'[t])
    <3>1. CASE t = s
      BY <2>3, <2>4, <2>8, <3>1
    <3>2. CASE t # s
      <4>1. Tells(t, status[t], result[t], outbox[t])
        BY DEF OneEventPerEnd, Ended
      <4> QED BY <2>5, <3>2, <4>1
    <3> QED BY <3>1, <3>2
  <2> QED BY <2>9 DEF OneEventPerEnd, Ended
<1>2. ASSUME NEW s \in Sessions, CreateSession(s) PROVE OneEventPerEnd'
  <2>1. /\ status[s] = "absent" /\ status' = [status EXCEPT ![s] = "active"]
        /\ UNCHANGED <<result, outbox>>
    BY <1>2 DEF CreateSession
  <2> QED BY <1>0, <2>1 DEF OneEventPerEnd, Ended, Outcomes
<1>3. CASE UNCHANGED <<status, result, outbox>>
  BY <1>3 DEF OneEventPerEnd, Ended
<1> QED BY <1>1, <1>2, <1>3, OnlyCommitEnds

(* However many enders race, retry or crash: an ended session of an        *)
(* organization with a webhook has exactly one session.ended event, which  *)
(* says what the session row says; every other session has none.           *)
THEOREM OneEvent == Spec => []OneEventPerEnd
<1>1. IInv /\ OneEventPerEnd /\ [Next]_vars => OneEventPerEnd'
  BY EventStep
<1> QED BY <1>1, IInvAlways, EventInit, PTL DEF Spec

-----------------------------------------------------------------------------
(* What an end covers                                                      *)

(* Nothing is dated after now, and what a learner's or partner's request   *)
(* will give as the end is no earlier than any row of the session it locks.*)
Past ==
  /\ \A s \in Sessions : rows[s].last <= now
  /\ \A h \in Handlers : txStart[h] <= now
Covers ==
  \A e \in Enders \ Sweepers :
    phase[e] \in Holding => rows[target[e]].last <= draft[e].endedAt

LEMMA PastInit == Init => Past /\ Covers
BY DEF Init, Past, Covers, NoRows, NoTx, Holding

(* A row that is added is dated by its transaction, so not after now.      *)
LEMMA GainDated ==
  ASSUME NEW q \in RowSet, NEW at \in -1 .. MaxTime, NEW t \in Times, q.last <= t, at <= t,
         NEW c, NEW f
  PROVE  AddFrame(q, c, f, at).last <= t /\ AddEvent(q, at).last <= t
BY DEF AddFrame, AddEvent, Later, RowSet, Times

LEMMA PastStep == TypeOK /\ Past /\ [Next]_vars => Past'
<1> SUFFICES ASSUME TypeOK, Past, [Next]_vars PROVE Past'
  OBVIOUS
<1> USE DEF database, serving, ending, vars
<1>0. /\ now \in Times /\ rows \in [Sessions -> RowSet] /\ txStart \in [Handlers -> -1 .. MaxTime]
      /\ \A h \in Handlers : step[h] # "idle" => serves[h] \in Sessions
      /\ \A s \in Sessions : rows[s].last \in -1 .. MaxTime
  BY RowFields DEF TypeOK
<1>1. CASE UNCHANGED <<now, rows, txStart>>
  BY <1>1 DEF Past
<1>2. CASE Tick
  BY <1>0, <1>2 DEF Tick, Past, Times
<1>3. ASSUME NEW s \in Sessions, CreateSession(s) PROVE Past'
  <2>1. UNCHANGED <<now, txStart>> /\ rows' = [rows EXCEPT ![s].last = now]
    BY <1>3 DEF CreateSession
  <2>2. \A t \in Sessions : rows'[t].last \in {rows[t].last, now}
    BY <1>0, <2>1 DEF RowSet
  <2> QED BY <1>0, <2>1, <2>2 DEF Past, Times
<1>4. ASSUME NEW h \in Handlers, Handle(h) PROVE Past'
  <2>1. now' = now
    BY <1>4 DEF Handle, RestFrame, ClientEvent, RestRequest, Start, Connect, Receive, Close,
       EvaluateViolation, EvaluateClean, CommitFrame, CommitEvent, Fail
  <2>2. \A g \in Handlers : txStart'[g] \in {txStart[g], now, NoTx}
    BY <1>0, <1>4 DEF Handle, RestFrame, ClientEvent, RestRequest, Start, Connect, Receive, Close,
       Stop, EvaluateViolation, EvaluateClean, CommitFrame, CommitEvent, Fail
  <2>3. (\A g \in Handlers : txStart[g] <= now)'
    BY <1>0, <2>1, <2>2 DEF Past, NoTx, Times
  <2>4. CASE CommitFrame(h) \/ CommitEvent(h)
    <3> DEFINE s == serves[h]
               added == {AddFrame(rows[s], clean[h], raise[h], txStart[h]), AddEvent(rows[s], txStart[h])}
    <3>1. s \in Sessions
      BY <1>0, <2>4 DEF CommitFrame, CommitEvent
    <3>2. \A r \in added : r.last <= now
      BY <1>0, <3>1, GainDated DEF Past
    <3>3. \E r \in added : rows' = [rows EXCEPT ![s] = r]
      BY <1>0, <2>4, <3>1 DEF CommitFrame, CommitEvent
    <3> HIDE DEF added
    <3>4. \A t \in Sessions : rows'[t] = rows[t] \/ rows'[t] \in added
      BY <1>0, <3>1, <3>3
    <3> QED BY <2>1, <2>3, <3>2, <3>4 DEF Past
  <2>5. CASE ~CommitFrame(h) /\ ~CommitEvent(h)
    <3>1. rows' = rows
      BY <1>4, <2>5 DEF Handle, RestFrame, ClientEvent, RestRequest, Start, Connect, Receive,
         Close, EvaluateViolation, EvaluateClean, Fail
    <3> QED BY <2>1, <2>3, <3>1 DEF Past
  <2> QED BY <2>4, <2>5
<1>5. ASSUME NEW e \in Enders, Finalize(e) PROVE UNCHANGED <<now, rows, txStart>>
  BY <1>5 DEF Finalize, Acquire, TurnAway, CountFrames, TallyFrames, ScoreEvents, CommitEnd,
     ResetStreak
<1>6. ASSUME NEW e \in Enders, (\E s \in Sessions : Request(e, s)) \/ SweepStep(e) \/ Crash(e)
      PROVE  UNCHANGED <<now, rows, txStart>>
  BY <1>6 DEF Request, SweepStep, Sweep, VisitRow, SweepDone, Crash
<1>7. (\E s \in Sessions : StreakExpires(s)) => UNCHANGED <<now, rows, txStart>>
  BY DEF StreakExpires
<1> QED BY <1>1, <1>2, <1>3, <1>4, <1>5, <1>6, <1>7 DEF Next

LEMMA CoversStep == TypeOK /\ RowLock /\ Past /\ Covers /\ [Next]_vars => Covers'
<1> SUFFICES ASSUME TypeOK, RowLock, Past, Covers, [Next]_vars,
                    NEW e \in Enders \ Sweepers, phase'[e] \in Holding
             PROVE  rows'[target'[e]].last <= draft'[e].endedAt
  BY DEF Covers
<1> USE DEF database, serving, ending, vars
<1>0. /\ phase \in [Enders -> Phases] /\ target \in [Enders -> Sessions \cup {NoSession}]
      /\ draft \in [Enders -> DraftSet] /\ e \in Enders /\ e \notin Sweepers
  BY DEF TypeOK
<1>1. ASSUME phase[e] \in Holding, target'[e] = target[e], draft'[e].endedAt = draft[e].endedAt
      PROVE  rows'[target'[e]].last <= draft'[e].endedAt
  BY <1>0, <1>1, RowsStand DEF Covers
<1>2. CASE UNCHANGED <<phase, target, draft>>
  BY <1>1, <1>2
<1>3. ASSUME NEW f \in Enders, Finalize(f) PROVE rows'[target'[e]].last <= draft'[e].endedAt
  <2>1. CASE f # e
    <3>1. phase'[e] = phase[e] /\ draft'[e] = draft[e] /\ target'[e] = target[e]
      BY <1>0, <1>3, <2>1 DEF Finalize, Acquire, TurnAway, Leave, CountFrames, TallyFrames,
         ScoreEvents, CommitEnd, ResetStreak, Goto
    <3> QED BY <1>1, <3>1
  <2>2. CASE Acquire(e)
    <3>1. target[e] \in Sessions
      BY <2>2 DEF TypeOK, Acquire
    <3>2. draft' = [draft EXCEPT ![e].endedAt = now] /\ UNCHANGED <<rows, target>>
      BY <1>0, <2>2 DEF Acquire
    <3>3. draft'[e].endedAt = now
      BY <1>0, <3>2 DEF DraftSet
    <3> QED BY <3>1, <3>2, <3>3 DEF Past
  <2>3. CASE f = e /\ (CountFrames(e) \/ TallyFrames(e) \/ ScoreEvents(e))
    <3>1. phase[e] \in Holding /\ target' = target
      BY <2>3 DEF CountFrames, TallyFrames, ScoreEvents, Holding
    <3>2. draft'[e].endedAt = draft[e].endedAt
      BY <1>0, <2>3 DEF CountFrames, TallyFrames, Tallied, ScoreEvents, DraftSet
    <3> QED BY <1>1, <3>1, <3>2
  <2>4. CASE TurnAway(e) \/ CommitEnd(e) \/ ResetStreak(e)
    BY <1>0, <2>4 DEF TurnAway, Leave, CommitEnd, ResetStreak, Goto, Holding
  <2> QED BY <1>3, <2>1, <2>2, <2>3, <2>4 DEF Finalize
<1>4. ASSUME NEW f \in Enders, (\E s \in Sessions : Request(f, s)) \/ SweepStep(f) \/ Crash(f)
      PROVE  rows'[target'[e]].last <= draft'[e].endedAt
  <2>1. f # e
    BY <1>0, <1>4 DEF Request, SweepStep, Sweep, VisitRow, SweepDone, Crash, Goto, Holding
  <2>2. phase'[e] = phase[e] /\ draft'[e] = draft[e] /\ target'[e] = target[e]
    BY <1>0, <1>4, <2>1 DEF Request, SweepStep, Sweep, VisitRow, SweepDone, Crash, Goto
  <2> QED BY <1>1, <2>2
<1>5. ASSUME NEW h \in Handlers, Handle(h) PROVE UNCHANGED <<phase, target, draft>>
  BY <1>5 DEF Handle, RestFrame, ClientEvent, RestRequest, Start, Connect, Receive, Close,
     EvaluateViolation, EvaluateClean, CommitFrame, CommitEvent, Fail
<1>6. Tick \/ (\E s \in Sessions : CreateSession(s) \/ StreakExpires(s))
        => UNCHANGED <<phase, target, draft>>
  BY DEF Tick, CreateSession, StreakExpires
<1> QED BY <1>2, <1>3, <1>4, <1>5, <1>6 DEF Next

(* No frame or event that a learner's or partner's end counts is dated     *)
(* after the end, although ended_at is taken before the counting.          *)
LEMMA EndCovers ==
  ASSUME IInv, Covers, [Next]_vars, NEW s \in Sessions,
         status[s] = "active", status'[s] \in {"completed", "terminated"}
  PROVE  rows[s].last <= result'[s].endedAt
<1>0. status \in [Sessions -> {"absent", "active"} \cup Outcomes] /\ result \in [Sessions -> ResultSet]
  BY DEF IInv, TypeOK
<1>1. \E e \in Enders : CommitEnd(e)
  BY <1>0, OnlyCommitEnds DEF CreateSession
<1>2. PICK e \in Enders : CommitEnd(e)
  BY <1>1
<1>3. phase[e] = "scored" /\ target[e] = s /\ OutcomeOf(e) \in {"completed", "terminated"}
  BY <1>0, <1>2 DEF CommitEnd
<1>4. e \notin Sweepers
  BY <1>3 DEF OutcomeOf
<1>5. rows[s].last <= draft[e].endedAt
  BY <1>3, <1>4 DEF Covers, Holding
<1>6. result'[s].endedAt = draft[e].endedAt
  BY <1>0, <1>2, <1>3 DEF CommitEnd
<1> QED BY <1>5, <1>6

(* No frame or client event that an end by the learner or the partner      *)
(* counts is dated after that end.                                         *)
THEOREM EvidenceCovered == Spec => EndCoversEvidence
<1>1. Spec => [](IInv /\ Covers)
  <2>1. Spec => [](Past /\ Covers)
    <3>1. IInv /\ Past /\ Covers /\ [Next]_vars => (Past /\ Covers)'
      BY PastStep, CoversStep DEF IInv
    <3> QED BY <3>1, PastInit, IInvAlways, PTL DEF Spec
  <2> QED BY <2>1, IInvAlways, PTL
<1>2. IInv /\ Covers /\ [Next]_vars =>
        [\A s \in Sessions :
           status[s] = "active" /\ status'[s] \in {"completed", "terminated"}
             => rows[s].last <= result'[s].endedAt]_vars
  BY EndCovers
<1> QED BY <1>1, <1>2, PTL DEF Spec, EndCoversEvidence

-----------------------------------------------------------------------------
(* What comes after an end                                                 *)

LEMMA InFlightFinite ==
  ASSUME NEW s \in Sessions
  PROVE  /\ InFlight(s) \subseteq Handlers /\ IsFiniteSet(InFlight(s))
         /\ Cardinality(InFlight(s)) \in Nat /\ Cardinality(Handlers) \in Nat
         /\ Cardinality(InFlight(s)) <= Cardinality(Handlers)
<1>1. InFlight(s) \subseteq Handlers
  BY DEF InFlight
<1> QED BY <1>1, FewHandlers, FS_Subset, FS_CardinalityType

LEMMA LateInit == Init => LateFramesBounded
BY DEF Init, LateFramesBounded, Ended, Outcomes

(* A handler that commits a frame to an ended session leaves its flight;   *)
(* nobody takes off for a session that has ended.                          *)
LEMMA FlightsLand ==
  ASSUME TypeOK, [Next]_vars, NEW s \in Sessions, Ended(s)
  PROVE  /\ \/ rows'[s].frames = rows[s].frames /\ InFlight(s)' \subseteq InFlight(s)
            \/ \E h \in InFlight(s) : /\ rows'[s].frames = rows[s].frames + 1
                                      /\ InFlight(s)' = InFlight(s) \ {h}
<1> USE DEF database, serving, ending, vars
<1>0. /\ status[s] \notin {"absent", "active"} /\ rows \in [Sessions -> RowSet]
      /\ step \in [Handlers -> Steps] /\ serves \in [Handlers -> Sessions \cup {NoSession}]
      /\ \A h \in Handlers : step[h] # "idle" => serves[h] \in Sessions
  BY DEF TypeOK, Ended, Outcomes
<1>1. CASE UNCHANGED <<rows, step, serves>>
  BY <1>1 DEF InFlight
<1>2. ASSUME NEW t \in Sessions, CreateSession(t)
      PROVE  rows'[s] = rows[s] /\ UNCHANGED <<step, serves>>
  BY <1>0, <1>2 DEF CreateSession
<1>3. ASSUME NEW h \in Handlers, CommitFrame(h), serves[h] = s
      PROVE  h \in InFlight(s) /\ rows'[s].frames = rows[s].frames + 1
             /\ InFlight(s)' = InFlight(s) \ {h}
  <2>1. step[h] = "commit" /\ rows'[s].frames = rows[s].frames + 1
    BY <1>0, <1>3 DEF CommitFrame, AddFrame
  <2>2. \A g \in Handlers : g # h => step'[g] = step[g] /\ serves'[g] = serves[g]
    BY <1>0, <1>3 DEF CommitFrame, Stop
  <2>3. step'[h] \in {"open", "idle"}
    BY <1>0, <1>3 DEF CommitFrame, Stop
  <2> QED BY <1>3, <2>1, <2>2, <2>3 DEF InFlight
<1>4. ASSUME NEW h \in Handlers, Handle(h), ~(CommitFrame(h) /\ serves[h] = s)
      PROVE  rows'[s].frames = rows[s].frames /\ InFlight(s)' \subseteq InFlight(s)
  <2>1. \A g \in Handlers : g # h => step'[g] = step[g] /\ serves'[g] = serves[g]
    BY <1>0, <1>4 DEF Handle, RestFrame, ClientEvent, RestRequest, Start, Connect, Receive, Close,
       Stop, EvaluateViolation, EvaluateClean, CommitFrame, CommitEvent, Fail
  <2>2. rows'[s].frames = rows[s].frames
    <3>1. CASE CommitFrame(h)
      BY <1>0, <1>4, <3>1 DEF CommitFrame
    <3>2. CASE CommitEvent(h)
      BY <1>0, <3>2 DEF CommitEvent, AddEvent
    <3>3. CASE ~CommitFrame(h) /\ ~CommitEvent(h)
      BY <1>4, <3>3 DEF Handle, RestFrame, ClientEvent, RestRequest, Start, Connect, Receive,
         Close, EvaluateViolation, EvaluateClean, Fail
    <3> QED BY <3>1, <3>2, <3>3
  <2>3. step'[h] \in {"infer", "commit"} /\ serves'[h] = s
          => step[h] \in {"infer", "commit"} /\ serves[h] = s
    <3>1. CASE \E t \in Sessions : RestFrame(h, t) \/ ClientEvent(h, t) \/ Connect(h, t)
      BY <1>0, <3>1 DEF RestFrame, ClientEvent, RestRequest, Start, Connect
    <3>2. CASE Receive(h)
      BY <1>0, <3>2 DEF Receive, RefreshedActive
    <3>3. CASE Close(h) \/ CommitFrame(h) \/ CommitEvent(h) \/ Fail(h)
      BY <1>0, <3>3 DEF Close, CommitFrame, CommitEvent, Fail, Stop
    <3>4. CASE EvaluateClean(h) \/ \E t \in Types : EvaluateViolation(h, t)
      BY <1>0, <3>4 DEF EvaluateClean, EvaluateViolation
    <3> QED BY <1>4, <3>1, <3>2, <3>3, <3>4 DEF Handle
  <2> QED BY <2>1, <2>2, <2>3 DEF InFlight
<1>5. ASSUME NEW e \in Enders, Finalize(e) PROVE UNCHANGED <<rows, step, serves>>
  BY <1>5 DEF Finalize, Acquire, TurnAway, CountFrames, TallyFrames, ScoreEvents, CommitEnd,
     ResetStreak
<1>6. ASSUME NEW e \in Enders, (\E t \in Sessions : Request(e, t)) \/ SweepStep(e) \/ Crash(e)
      PROVE  UNCHANGED <<rows, step, serves>>
  BY <1>6 DEF Request, SweepStep, Sweep, VisitRow, SweepDone, Crash
<1>7. Tick \/ (\E t \in Sessions : StreakExpires(t)) => UNCHANGED <<rows, step, serves>>
  BY DEF Tick, StreakExpires
<1>8. ASSUME NEW t \in Sessions, CreateSession(t)
      PROVE  rows'[s].frames = rows[s].frames /\ InFlight(s)' \subseteq InFlight(s)
  BY <1>2, <1>8 DEF InFlight
<1> QED BY <1>1, <1>3, <1>4, <1>5, <1>6, <1>7, <1>8 DEF Next

LEMMA LateStep == IInv /\ LateFramesBounded /\ [Next]_vars => LateFramesBounded'
<1> DEFINE Late(n, m, F) == n - m + Cardinality(F) <= Cardinality(Handlers)
<1> SUFFICES ASSUME IInv, LateFramesBounded, [Next]_vars, NEW s \in Sessions, Ended(s)'
             PROVE  Late(rows'[s].frames, result'[s].frames, InFlight(s)')
  BY DEF LateFramesBounded
<1>0. /\ status \in [Sessions -> {"absent", "active"} \cup Outcomes]
      /\ rows \in [Sessions -> RowSet] /\ result \in [Sessions -> ResultSet]
      /\ rows[s].frames \in Nat /\ TypeOK
  BY RowFields DEF IInv, TypeOK
<1>1. InFlight(s)' \subseteq Handlers
  BY DEF InFlight
<1>2. /\ IsFiniteSet(InFlight(s)') /\ Cardinality(InFlight(s)') \in Nat
      /\ Cardinality(InFlight(s)') <= Cardinality(Handlers) /\ Cardinality(Handlers) \in Nat
  BY <1>1, FewHandlers, FS_Subset, FS_CardinalityType
<1>3. ASSUME NEW e \in Enders, CommitEnd(e), target[e] = s
      PROVE  Late(rows'[s].frames, result'[s].frames, InFlight(s)')
  <2> DEFINE res == [frames |-> rows[s].frames,
                     trust |-> Score(rows[s].frames, rows[s].clean, rows[s].events),
                     endedAt |-> draft[e].endedAt]
  <2>1. rows' = rows /\ result' = [result EXCEPT ![s] = res]
    BY <1>3, CommitWrites
  <2>2. res.frames = rows[s].frames
    OBVIOUS
  <2> HIDE DEF res
  <2>3. result'[s].frames = rows[s].frames
    BY <1>0, <2>1, <2>2
  <2> QED BY <1>0, <1>2, <2>1, <2>3
<1>4. ASSUME Ended(s), result'[s] = result[s]
      PROVE  Late(rows'[s].frames, result'[s].frames, InFlight(s)')
  <2>1. Late(rows[s].frames, result[s].frames, InFlight(s)) /\ result[s].frames \in Nat
    BY <1>0, <1>4 DEF LateFramesBounded, ResultSet
  <2>2. IsFiniteSet(InFlight(s)) /\ Cardinality(InFlight(s)) \in Nat
    BY InFlightFinite
  <2>3. CASE rows'[s].frames = rows[s].frames /\ InFlight(s)' \subseteq InFlight(s)
    <3>1. Cardinality(InFlight(s)') <= Cardinality(InFlight(s))
      BY <2>2, <2>3, FS_Subset
    <3> QED BY <1>0, <1>2, <1>4, <2>1, <2>2, <2>3, <3>1
  <2>4. ASSUME NEW h \in InFlight(s), rows'[s].frames = rows[s].frames + 1,
               InFlight(s)' = InFlight(s) \ {h}
        PROVE  Late(rows'[s].frames, result'[s].frames, InFlight(s)')
    <3>1. Cardinality(InFlight(s) \ {h}) = Cardinality(InFlight(s)) - 1
      BY <2>2, FS_RemoveElement
    <3> QED BY <1>0, <1>2, <1>4, <2>1, <2>2, <2>4, <3>1
  <2> QED BY <1>0, <1>4, <2>3, <2>4, FlightsLand
<1>5. ASSUME NEW e \in Enders, CommitEnd(e), target[e] # s
      PROVE  Ended(s) /\ result'[s] = result[s]
  <2>1. status' = [status EXCEPT ![target[e]] = OutcomeOf(e)] /\ target[e] \in Sessions
    BY <1>5, CommitWrites
  <2>2. status'[s] = status[s]
    BY <1>0, <1>5, <2>1
  <2>3. result'[s] = result[s]
    BY <1>0, <1>5 DEF CommitEnd
  <2> QED BY <2>2, <2>3 DEF Ended
<1>6. ASSUME \A e \in Enders : ~CommitEnd(e) PROVE Ended(s) /\ result'[s] = result[s]
  BY <1>0, <1>6, OnlyCommitEnds DEF Ended, CreateSession, Outcomes
<1> QED BY <1>3, <1>4, <1>5, <1>6

(* After its end a session gets at most one frame from each handler, and   *)
(* only from those that were evaluating one.                               *)
THEOREM LateFrames == Spec => []LateFramesBounded
<1>1. IInv /\ LateFramesBounded /\ [Next]_vars => LateFramesBounded'
  BY LateStep
<1> QED BY <1>1, IInvAlways, LateInit, PTL DEF Spec

-----------------------------------------------------------------------------
(* What the score tells                                                    *)

(* A session's rows change by its creation, one frame or one client event. *)
LEMMA RowGrowth ==
  ASSUME TypeOK, [Next]_vars, NEW s \in Sessions
  PROVE  \/ rows'[s] = rows[s]
         \/ status[s] = "absent" /\ rows'[s] = [rows[s] EXCEPT !.last = now]
         \/ \E h \in Handlers : rows'[s] = AddFrame(rows[s], clean[h], raise[h], txStart[h])
         \/ \E h \in Handlers : rows'[s] = AddEvent(rows[s], txStart[h])
<1> USE DEF database, serving, ending, vars
<1>0. /\ rows \in [Sessions -> RowSet]
      /\ \A h \in Handlers : step[h] # "idle" => serves[h] \in Sessions
  BY DEF TypeOK
<1>1. CASE rows' = rows
  BY <1>1
<1>2. ASSUME NEW t \in Sessions, CreateSession(t)
      PROVE  \/ rows'[s] = rows[s]
             \/ status[s] = "absent" /\ rows'[s] = [rows[s] EXCEPT !.last = now]
  <2>1. status[t] = "absent" /\ rows' = [rows EXCEPT ![t] = [rows[t] EXCEPT !.last = now]]
    BY <1>2 DEF CreateSession
  <2> QED BY <1>0, <2>1
<1>3. ASSUME NEW h \in Handlers, CommitFrame(h)
      PROVE  rows'[s] = rows[s] \/ rows'[s] = AddFrame(rows[s], clean[h], raise[h], txStart[h])
  BY <1>0, <1>3 DEF CommitFrame
<1>4. ASSUME NEW h \in Handlers, CommitEvent(h)
      PROVE  rows'[s] = rows[s] \/ rows'[s] = AddEvent(rows[s], txStart[h])
  BY <1>0, <1>4 DEF CommitEvent
<1>5. ASSUME NEW h \in Handlers, Handle(h), ~CommitFrame(h), ~CommitEvent(h) PROVE rows' = rows
  BY <1>5 DEF Handle, RestFrame, ClientEvent, RestRequest, Start, Connect, Receive, Close,
     EvaluateViolation, EvaluateClean, Fail
<1>6. ASSUME NEW e \in Enders, Finalize(e) PROVE rows' = rows
  BY <1>6 DEF Finalize, Acquire, TurnAway, CountFrames, TallyFrames, ScoreEvents, CommitEnd,
     ResetStreak
<1>7. ASSUME NEW e \in Enders, (\E t \in Sessions : Request(e, t)) \/ SweepStep(e) \/ Crash(e)
      PROVE  rows' = rows
  BY <1>7 DEF Request, SweepStep, Sweep, VisitRow, SweepDone, Crash
<1>8. Tick \/ (\E t \in Sessions : StreakExpires(t)) => rows' = rows
  BY DEF Tick, StreakExpires
<1> QED BY <1>1, <1>2, <1>3, <1>4, <1>5, <1>6, <1>7, <1>8 DEF Next

(* No frame is both clean and a violation: the tallies of the two tables   *)
(* never add up to more than the frames.                                   *)
Tallies ==
  /\ \A s \in Sessions : rows[s].clean + rows[s].flagged <= rows[s].frames
  /\ \A h \in Handlers : raise[h] => ~clean[h]

LEMMA TalliesInit == Init => Tallies
BY DEF Init, Tallies, NoRows

LEMMA TalliesStep == TypeOK /\ Tallies /\ [Next]_vars => Tallies'
<1> SUFFICES ASSUME TypeOK, Tallies, [Next]_vars PROVE Tallies'
  OBVIOUS
<1>0. /\ rows \in [Sessions -> RowSet]
      /\ clean \in [Handlers -> BOOLEAN] /\ raise \in [Handlers -> BOOLEAN]
  BY DEF TypeOK
<1>1. ASSUME NEW s \in Sessions PROVE rows'[s].clean + rows'[s].flagged <= rows'[s].frames
  <2>1. /\ rows[s].clean + rows[s].flagged <= rows[s].frames
        /\ rows[s].clean \in Nat /\ rows[s].flagged \in Nat /\ rows[s].frames \in Nat
    BY <1>0, RowFields DEF Tallies
  <2>2. CASE rows'[s] = rows[s]
    BY <2>1, <2>2
  <2>3. CASE rows'[s] = [rows[s] EXCEPT !.last = now]
    BY <1>0, <2>1, <2>3 DEF RowSet
  <2>4. ASSUME NEW h \in Handlers, rows'[s] = AddFrame(rows[s], clean[h], raise[h], txStart[h])
        PROVE  rows'[s].clean + rows'[s].flagged <= rows'[s].frames
    <3>1. raise[h] => ~clean[h]
      BY DEF Tallies
    <3> QED BY <2>1, <2>4, <3>1 DEF AddFrame
  <2>5. ASSUME NEW h \in Handlers, rows'[s] = AddEvent(rows[s], txStart[h])
        PROVE  rows'[s].clean + rows'[s].flagged <= rows'[s].frames
    BY <2>1, <2>5 DEF AddEvent
  <2> QED BY <2>2, <2>3, <2>4, <2>5, RowGrowth
<1>2. ASSUME NEW h \in Handlers PROVE raise'[h] => ~clean'[h]
  <2> USE DEF database, serving, ending, vars, Tallies
  <2>1. CASE UNCHANGED <<clean, raise>>
    BY <2>1
  <2>2. ASSUME NEW g \in Handlers, Handle(g) PROVE raise'[h] => ~clean'[h]
    BY <1>0, <2>2 DEF Handle, RestFrame, ClientEvent, RestRequest, Start, Connect, Receive, Close,
       Stop, EvaluateViolation, EvaluateClean, CommitFrame, CommitEvent, Fail
  <2>3. ASSUME NEW e \in Enders, Finalize(e) PROVE UNCHANGED <<clean, raise>>
    BY <2>3 DEF Finalize, Acquire, TurnAway, CountFrames, TallyFrames, ScoreEvents, CommitEnd,
       ResetStreak
  <2>4. ASSUME NEW e \in Enders, (\E t \in Sessions : Request(e, t)) \/ SweepStep(e) \/ Crash(e)
        PROVE  UNCHANGED <<clean, raise>>
    BY <2>4 DEF Request, SweepStep, Sweep, VisitRow, SweepDone, Crash
  <2>5. Tick \/ (\E t \in Sessions : CreateSession(t) \/ StreakExpires(t))
          => UNCHANGED <<clean, raise>>
    BY DEF Tick, CreateSession, StreakExpires
  <2> QED BY <2>1, <2>2, <2>3, <2>4, <2>5 DEF Next
<1> QED BY <1>1, <1>2 DEF Tallies

LEMMA TalliesAlways == Spec => [](IInv /\ Tallies)
<1>1. IInv /\ Tallies /\ [Next]_vars => Tallies'
  BY TalliesStep DEF IInv
<1> QED BY <1>1, TalliesInit, IInvAlways, PTL DEF Spec

(* When no frame is both clean and flagged, a perfect score leaves nothing *)
(* to list.                                                                *)
LEMMA PerfectTallies ==
  ASSUME NEW t \in Nat, NEW g \in Nat, NEW f \in Nat, NEW c \in Nat, g + f <= t, t < 2000,
         Score(t, g, c) = Perfect
  PROVE  f + c = 0
<1>1. t # 0
  BY DEF Score, NoScore, Perfect
<1>2. t \in Nat \ {0} /\ g <= t
  BY <1>1
<1>3. g = t /\ c = 0
  BY <1>2, PerfectHidesNothing
<1> QED BY <1>3

LEMMA PerfectInit == Init => PerfectListsNothing
BY DEF Init, PerfectListsNothing

LEMMA PerfectStep == IInv /\ Tallies /\ PerfectListsNothing /\ [Next]_vars => PerfectListsNothing'
<1> DEFINE Honest(v) == v.trust = Perfect /\ v.frames < 2000 => v.listed = 0
<1> SUFFICES ASSUME IInv, Tallies, PerfectListsNothing, [Next]_vars,
                    NEW s \in Sessions, NEW i \in DOMAIN outbox'[s]
             PROVE  Honest(outbox'[s][i])
  BY DEF PerfectListsNothing
<1>0. outbox \in [Sessions -> Seq(EventSet)]
  BY DEF IInv, TypeOK
<1>1. ASSUME NEW k \in DOMAIN outbox[s] PROVE Honest(outbox[s][k])
  BY DEF PerfectListsNothing
<1>2. CASE outbox'[s] = outbox[s]
  BY <1>1, <1>2
<1>3. ASSUME NEW e \in Enders, CommitEnd(e) PROVE Honest(outbox'[s][i])
  <2> DEFINE r == rows[target[e]]
             ev == [status |-> OutcomeOf(e), frames |-> r.frames,
                    trust |-> Score(r.frames, r.clean, r.events),
                    endedAt |-> draft[e].endedAt, listed |-> r.flagged + r.events]
  <2>1. Honest(ev)
    <3>1. target[e] \in Sessions
      BY <1>3, CommitWrites
    <3>2. /\ r.frames \in Nat /\ r.clean \in Nat /\ r.flagged \in Nat /\ r.events \in Nat
          /\ r.clean + r.flagged <= r.frames
      BY <3>1, RowFields DEF IInv, TypeOK, Tallies
    <3> HIDE DEF r
    <3>3. Score(r.frames, r.clean, r.events) = Perfect /\ r.frames < 2000
            => r.flagged + r.events = 0
      <4> DEFINE t == r.frames  g == r.clean  f == r.flagged  c == r.events
      <4>1. /\ t \in Nat /\ g \in Nat /\ f \in Nat /\ c \in Nat /\ g + f <= t
        BY <3>2
      <4> HIDE DEF t, g, f, c
      <4>2. Score(t, g, c) = Perfect /\ t < 2000 => f + c = 0
        BY <4>1, PerfectTallies
      <4> QED BY <4>2 DEF t, g, f, c
    <3> QED BY <3>3
  <2>2. /\ target[e] \in Sessions
        /\ outbox' = IF target[e] \in Subscribed
                     THEN [outbox EXCEPT ![target[e]] = Append(@, ev)] ELSE outbox
    BY <1>3, CommitWrites
  <2> HIDE DEF ev, Honest
  <2>3. CASE outbox'[s] = Append(outbox[s], ev)
    <3>1. outbox[s] \in Seq(EventSet)
      BY <1>0
    <3>2. outbox'[s][i] = ev \/ (i \in DOMAIN outbox[s] /\ outbox'[s][i] = outbox[s][i])
      BY <2>3, <3>1
    <3> QED BY <1>1, <2>1, <3>2
  <2>4. outbox'[s] = Append(outbox[s], ev) \/ outbox'[s] = outbox[s]
    BY <1>0, <2>2
  <2> QED BY <1>2, <2>3, <2>4
<1>4. ASSUME \A e \in Enders : ~CommitEnd(e) PROVE outbox'[s] = outbox[s]
  BY <1>4, OnlyCommitEnds
<1> QED BY <1>2, <1>3, <1>4

(* A session announced with 100.0 points lists no violation, for up to     *)
(* 1999 frames.                                                            *)
THEOREM PerfectReport == Spec => []PerfectListsNothing
<1>1. IInv /\ Tallies /\ PerfectListsNothing /\ [Next]_vars => PerfectListsNothing'
  BY PerfectStep
<1> QED BY <1>1, PerfectInit, TalliesAlways, PTL DEF Spec

(* The score the session would have if it ended now                        *)
Standing(s) == Score(rows[s].frames, rows[s].clean, rows[s].events)

LEMMA ViolationStep ==
  ASSUME IInv, Tallies, [Next]_vars, NEW s \in Sessions, rows[s].frames > 0,
         rows'[s].flagged > rows[s].flagged \/ rows'[s].events > rows[s].events
  PROVE  Standing(s)' <= Standing(s)
<1>0. TypeOK /\ rows \in [Sessions -> RowSet] /\ rows[s] \in RowSet
  BY DEF IInv, TypeOK
<1>1. /\ rows[s].frames \in Nat \ {0} /\ rows[s].clean \in 0 .. rows[s].frames
      /\ rows[s].flagged \in Nat /\ rows[s].events \in Nat
  BY <1>0, RowFields DEF Tallies
<1>2. CASE rows'[s] = rows[s] \/ rows'[s] = [rows[s] EXCEPT !.last = now]
  BY <1>0, <1>1, <1>2 DEF RowSet
<1>3. ASSUME NEW h \in Handlers, rows'[s] = AddFrame(rows[s], clean[h], raise[h], txStart[h])
      PROVE  Standing(s)' <= Standing(s)
  <2>1. raise[h]
    BY <1>1, <1>3 DEF AddFrame
  <2>2. ~clean[h]
    BY <2>1 DEF Tallies
  <2>3. /\ rows'[s].frames = rows[s].frames + 1 /\ rows'[s].clean = rows[s].clean
        /\ rows'[s].events = rows[s].events
    BY <1>1, <1>3, <2>2 DEF AddFrame
  <2> QED BY <1>1, <2>3, EvidenceMovesScore DEF Standing
<1>4. ASSUME NEW h \in Handlers, rows'[s] = AddEvent(rows[s], txStart[h])
      PROVE  Standing(s)' <= Standing(s)
  <2>1. /\ rows'[s].frames = rows[s].frames /\ rows'[s].clean = rows[s].clean
        /\ rows'[s].events = rows[s].events + 1
    BY <1>4 DEF AddEvent
  <2> QED BY <1>1, <2>1, EvidenceMovesScore DEF Standing
<1> QED BY <1>0, <1>2, <1>3, <1>4, RowGrowth

(* A violation or a client event that is recorded never raises the score   *)
(* the session is heading for, in any interleaving of handlers and enders. *)
THEOREM ViolationsNeverHelp ==
  Spec => [][\A s \in Sessions :
               rows[s].frames > 0
                 /\ (rows'[s].flagged > rows[s].flagged \/ rows'[s].events > rows[s].events)
                 => Standing(s)' <= Standing(s)]_vars
<1>1. IInv /\ Tallies /\ [Next]_vars =>
        [\A s \in Sessions :
           rows[s].frames > 0
             /\ (rows'[s].flagged > rows[s].flagged \/ rows'[s].events > rows[s].events)
             => Standing(s)' <= Standing(s)]_vars
  BY ViolationStep
<1> QED BY <1>1, TalliesAlways, PTL DEF Spec

-----------------------------------------------------------------------------
(* What an end fixes                                                       *)

LEMMA EndedStays ==
  ASSUME IInv, [Next]_vars, NEW s \in Sessions, Ended(s)
  PROVE  status'[s] = status[s] /\ result'[s] = result[s] /\ outbox'[s] = outbox[s]
<1>0. /\ status \in [Sessions -> {"absent", "active"} \cup Outcomes]
      /\ result \in [Sessions -> ResultSet] /\ outbox \in [Sessions -> Seq(EventSet)]
      /\ status[s] \notin {"absent", "active"}
  BY DEF IInv, TypeOK, Ended, Outcomes
<1>1. ASSUME NEW e \in Enders, CommitEnd(e)
      PROVE  status'[s] = status[s] /\ result'[s] = result[s] /\ outbox'[s] = outbox[s]
  <2>1. target[e] # s
    BY <1>0, <1>1, CommitWrites
  <2>2. /\ \E o : status' = [status EXCEPT ![target[e]] = o]
        /\ \E r : result' = [result EXCEPT ![target[e]] = r]
        /\ outbox' = outbox \/ \E q : outbox' = [outbox EXCEPT ![target[e]] = q]
    BY <1>1 DEF CommitEnd
  <2> QED BY <1>0, <2>1, <2>2
<1>2. ASSUME NEW t \in Sessions, CreateSession(t)
      PROVE  status'[s] = status[s]
  BY <1>0, <1>2 DEF CreateSession
<1> QED BY <1>1, <1>2, OnlyCommitEnds

(* The first ender to commit decides: no later ender, frame, client event, *)
(* retry or crash changes the status, the outcome or the queued event.     *)
THEOREM EndIsFinal ==
  Spec => [][\A s \in Sessions :
               Ended(s) => /\ status'[s] = status[s]
                           /\ result'[s] = result[s]
                           /\ outbox'[s] = outbox[s]]_vars
<1>1. IInv /\ [Next]_vars =>
        [\A s \in Sessions :
           Ended(s) => /\ status'[s] = status[s]
                       /\ result'[s] = result[s]
                       /\ outbox'[s] = outbox[s]]_vars
  BY EndedStays
<1> QED BY <1>1, IInvAlways, PTL DEF Spec

(* What the sweeper saw of a session it is about to abandon was idle then  *)
(* and still is no newer than the session's rows.                          *)
Idle(n, last, t) == t < n - IdleTimeout /\ t <= last
SweptIdle ==
  \A e \in Sweepers :
    /\ \A v \in todo[e] : Idle(now, rows[v.session].last, v.seen)
    /\ phase[e] \in Holding \cup {"waiting"} => Idle(now, rows[target[e]].last, draft[e].endedAt)

LEMMA SweptInit == Init => SweptIdle
BY DEF Init, SweptIdle, Holding, Enders

(* Time passes and rows are added: neither makes the past less idle.       *)
LEMMA IdleStays ==
  ASSUME TypeOK, Past, [Next]_vars, NEW s \in Sessions, NEW t \in -1 .. MaxTime, Idle(now, rows[s].last, t)
  PROVE  Idle(now', rows'[s].last, t)
<1>0. /\ now \in Int /\ rows \in [Sessions -> RowSet] /\ rows[s].last \in Int /\ IdleTimeout \in Nat
      /\ \A h \in Handlers : txStart[h] \in Int
  BY RowFields DEF TypeOK, Times
<1>1. now' \in {now, now + 1}
  BY DEF Next, vars, Tick, CreateSession, StreakExpires, Handle, RestFrame, ClientEvent, RestRequest,
     Start, Connect, Receive, Close, EvaluateViolation, EvaluateClean, CommitFrame, CommitEvent, Fail,
     Request, Finalize, Acquire, TurnAway, CountFrames, TallyFrames, ScoreEvents, CommitEnd,
     ResetStreak, SweepStep, Sweep, VisitRow, SweepDone, Crash
<1>2. rows[s].last <= rows'[s].last /\ rows'[s].last \in Int
  <2>1. CASE rows'[s] = rows[s]
    BY <1>0, <2>1
  <2>2. CASE rows'[s] = [rows[s] EXCEPT !.last = now]
    BY <1>0, <2>2 DEF RowSet, Past
  <2>3. ASSUME NEW h \in Handlers,
               rows'[s] = AddFrame(rows[s], clean[h], raise[h], txStart[h])
                 \/ rows'[s] = AddEvent(rows[s], txStart[h])
        PROVE  rows[s].last <= rows'[s].last /\ rows'[s].last \in Int
    BY <1>0, <2>3 DEF AddFrame, AddEvent, Later
  <2> QED BY <2>1, <2>2, <2>3, RowGrowth
<1> QED BY <1>0, <1>1, <1>2 DEF Idle

LEMMA SweptStep == TypeOK /\ Past /\ SweptIdle /\ [Next]_vars => SweptIdle'
<1> SUFFICES ASSUME TypeOK, Past, SweptIdle, [Next]_vars, NEW e \in Sweepers
             PROVE  /\ \A v \in todo'[e] : Idle(now', rows'[v.session].last, v.seen)
                    /\ phase'[e] \in Holding \cup {"waiting"}
                         => Idle(now', rows'[target'[e]].last, draft'[e].endedAt)
  BY DEF SweptIdle
<1> USE DEF database, serving, ending, vars
<1>0. /\ e \in Enders /\ phase \in [Enders -> Phases]
      /\ target \in [Enders -> Sessions \cup {NoSession}] /\ draft \in [Enders -> DraftSet]
      /\ todo \in [Sweepers -> SUBSET [session : Sessions, seen : -1 .. MaxTime]]
      /\ \A f \in Enders : draft[f].endedAt \in -1 .. MaxTime
      /\ \A s \in Sessions : rows[s].last \in -1 .. MaxTime
      /\ phase[e] \in Holding \cup {"waiting"} => target[e] \in Sessions
  BY DraftFieldTypes, RowFields DEF TypeOK, Enders, Holding
<1>1. \A v \in todo[e] : v.session \in Sessions /\ v.seen \in -1 .. MaxTime
                         /\ Idle(now, rows[v.session].last, v.seen) /\ Idle(now', rows'[v.session].last, v.seen)
  <2>1. \A v \in todo[e] : v.session \in Sessions /\ v.seen \in -1 .. MaxTime
                           /\ Idle(now, rows[v.session].last, v.seen)
    BY <1>0 DEF SweptIdle
  <2> QED BY <2>1, IdleStays
<1>2. phase[e] \in Holding \cup {"waiting"} => Idle(now', rows'[target[e]].last, draft[e].endedAt)
  <2>1. phase[e] \in Holding \cup {"waiting"} => Idle(now, rows[target[e]].last, draft[e].endedAt)
    BY DEF SweptIdle
  <2> QED BY <1>0, <2>1, IdleStays
<1>3. CASE todo'[e] \subseteq todo[e] /\ phase'[e] \notin Holding \cup {"waiting"}
  BY <1>1, <1>3
<1>4. CASE /\ todo'[e] = todo[e] /\ phase[e] \in Holding \cup {"waiting"}
           /\ target'[e] = target[e] /\ draft'[e].endedAt = draft[e].endedAt
  BY <1>1, <1>2, <1>4
<1>5. CASE UNCHANGED <<todo, phase, target, draft>>
  BY <1>3, <1>4, <1>5
<1>6. ASSUME NEW f \in Enders, Finalize(f) \/ SweepStep(f) \/ Crash(f) \/ \E s \in Sessions : Request(f, s),
             f # e
      PROVE  /\ todo'[e] = todo[e] /\ phase'[e] = phase[e]
             /\ target'[e] = target[e] /\ draft'[e] = draft[e]
  <2>1. CASE Finalize(f)
    BY <1>0, <1>6, <2>1 DEF Finalize, Acquire, TurnAway, Leave, CountFrames, TallyFrames, ScoreEvents,
       CommitEnd, ResetStreak, Goto
  <2>2. CASE ~Finalize(f)
    BY <1>0, <1>6, <2>2 DEF Request, SweepStep, Sweep, VisitRow, SweepDone, Crash, Goto
  <2> QED BY <2>1, <2>2
<1>7. CASE Finalize(e)
  <2>1. CASE Acquire(e)
    BY <1>0, <1>4, <2>1 DEF Acquire, Goto
  <2>2. CASE CountFrames(e) \/ TallyFrames(e) \/ ScoreEvents(e)
    <3>1. phase[e] \in Holding /\ UNCHANGED <<todo, target>>
      BY <2>2 DEF CountFrames, TallyFrames, ScoreEvents, Holding
    <3>2. draft'[e].endedAt = draft[e].endedAt
      BY <1>0, <2>2 DEF CountFrames, TallyFrames, Tallied, ScoreEvents, DraftSet
    <3> QED BY <1>4, <3>1, <3>2
  <2>3. CASE TurnAway(e) \/ CommitEnd(e) \/ ResetStreak(e)
    BY <1>0, <1>3, <2>3 DEF TurnAway, Leave, CommitEnd, ResetStreak, Goto, Holding
  <2> QED BY <1>7, <2>1, <2>2, <2>3 DEF Finalize
<1>8. CASE SweepStep(e)
  <2>1. CASE Sweep(e)
    <3>1. PICK page \in SUBSET Stale :
            todo' = [todo EXCEPT ![e] = {[session |-> s, seen |-> rows[s].last] : s \in page}]
      BY <2>1 DEF Sweep
    <3>2. /\ todo'[e] = {[session |-> s, seen |-> rows[s].last] : s \in page}
          /\ phase'[e] = "sweeping" /\ UNCHANGED <<now, rows>>
      BY <1>0, <2>1, <3>1 DEF Sweep, Goto
    <3>3. \A s \in page : rows[s].last < now - IdleTimeout /\ rows[s].last \in Int
      BY <1>0 DEF Stale
    <3> QED BY <3>2, <3>3 DEF Idle, Holding
  <2>2. CASE VisitRow(e)
    <3>1. PICK v \in todo[e] :
            /\ todo' = [todo EXCEPT ![e] = @ \ {v}]
            /\ target' = [target EXCEPT ![e] = v.session]
            /\ draft' = [draft EXCEPT ![e] = [draft[e] EXCEPT !.endedAt = v.seen]]
      BY <2>2 DEF VisitRow
    <3>2. target'[e] = v.session /\ draft'[e].endedAt = v.seen /\ todo'[e] \subseteq todo[e]
      BY <1>0, <3>1 DEF DraftSet
    <3> QED BY <1>1, <3>1, <3>2
  <2>3. CASE SweepDone(e)
    BY <1>0, <1>3, <2>3 DEF SweepDone, Goto, Holding
  <2> QED BY <1>8, <2>1, <2>2, <2>3 DEF SweepStep
<1>9. CASE Crash(e) \/ \E s \in Sessions : Request(e, s)
  BY <1>0, <1>3, <1>9 DEF Crash, Request, Goto, Holding, Enders, Disjoint
<1>10. ASSUME NEW h \in Handlers, Handle(h) PROVE UNCHANGED <<todo, phase, target, draft>>
  BY <1>10 DEF Handle, RestFrame, ClientEvent, RestRequest, Start, Connect, Receive, Close,
     EvaluateViolation, EvaluateClean, CommitFrame, CommitEvent, Fail
<1>11. Tick \/ (\E s \in Sessions : CreateSession(s) \/ StreakExpires(s))
         => UNCHANGED <<todo, phase, target, draft>>
  BY DEF Tick, CreateSession, StreakExpires
<1>12. ASSUME NEW f \in Enders, Finalize(f) \/ SweepStep(f) \/ Crash(f) \/ \E s \in Sessions : Request(f, s),
              f # e
       PROVE  /\ \A v \in todo'[e] : Idle(now', rows'[v.session].last, v.seen)
              /\ phase'[e] \in Holding \cup {"waiting"}
                   => Idle(now', rows'[target'[e]].last, draft'[e].endedAt)
  BY <1>1, <1>2, <1>6, <1>12
<1> QED BY <1>0, <1>5, <1>7, <1>8, <1>9, <1>10, <1>11, <1>12 DEF Next

LEMMA AbandonStep ==
  ASSUME IInv, SweptIdle, [Next]_vars, NEW s \in Sessions,
         status[s] = "active", status'[s] = "abandoned"
  PROVE  result'[s].endedAt < now - IdleTimeout /\ result'[s].endedAt <= rows[s].last
<1>0. status \in [Sessions -> {"absent", "active"} \cup Outcomes] /\ result \in [Sessions -> ResultSet]
  BY DEF IInv, TypeOK
<1>1. PICK e \in Enders : CommitEnd(e)
  BY <1>0, OnlyCommitEnds DEF CreateSession
<1>2. phase[e] = "scored" /\ target[e] = s /\ OutcomeOf(e) = "abandoned"
  BY <1>0, <1>1 DEF CommitEnd
<1>3. e \in Sweepers
  BY <1>2 DEF OutcomeOf, Enders
<1>4. Idle(now, rows[s].last, draft[e].endedAt)
  BY <1>2, <1>3 DEF SweptIdle, Holding
<1>5. result'[s].endedAt = draft[e].endedAt
  BY <1>0, <1>1, <1>2 DEF CommitEnd
<1> QED BY <1>4, <1>5 DEF Idle

(* An abandoned session is dated by activity it really had, more than the  *)
(* timeout ago.  This is what remains of "no frame/event for the idle      *)
(* timeout": newer activity may exist (AbandonedOnlyIfIdle is violated),   *)
(* but ended_at never lies in the timeout or after the last row.           *)
THEOREM AbandonedDated ==
  Spec => [][\A s \in Sessions :
               status[s] = "active" /\ status'[s] = "abandoned"
                 => /\ result'[s].endedAt < now - IdleTimeout
                    /\ result'[s].endedAt <= rows[s].last]_vars
<1>1. IInv /\ Past /\ SweptIdle /\ [Next]_vars => SweptIdle'
  BY SweptStep DEF IInv
<1>2. IInv /\ Past /\ [Next]_vars => Past'
  BY PastStep DEF IInv
<1>3. Spec => [](IInv /\ SweptIdle)
  BY <1>1, <1>2, PastInit, SweptInit, IInvAlways, PTL DEF Spec
<1>4. IInv /\ SweptIdle /\ [Next]_vars =>
        [\A s \in Sessions :
           status[s] = "active" /\ status'[s] = "abandoned"
             => /\ result'[s].endedAt < now - IdleTimeout
                /\ result'[s].endedAt <= rows[s].last]_vars
  BY AbandonStep
<1> QED BY <1>3, <1>4, PTL DEF Spec

-----------------------------------------------------------------------------
(* ProctoringSession implements SessionOutcome                             *)

LEMMA RefineInit == Init => Outcome!Init
BY DEF Init, Outcome!Init, NoRows, NoResult, Outcome!NoRows, Outcome!NoResult,
   NoScore, Outcome!NoScore

LEMMA RefineStep == IInv /\ [Next]_vars => [Outcome!Next]_(Outcome!vars)
<1> SUFFICES ASSUME IInv, [Next]_vars PROVE [Outcome!Next]_(Outcome!vars)
  OBVIOUS
<1> USE DEF database, serving, ending, vars
<1>0. /\ rows \in [Sessions -> RowSet] /\ now \in Times
      /\ \A h \in Handlers : step[h] # "idle" => serves[h] \in Sessions
      /\ clean \in [Handlers -> BOOLEAN] /\ raise \in [Handlers -> BOOLEAN]
      /\ \A h \in Handlers : step[h] # "idle" => status[serves[h]] # "absent"
  BY DEF IInv, TypeOK, Dated
<1>1. ASSUME NEW s \in Sessions, CreateSession(s) PROVE Outcome!Open(s)
  BY <1>0, <1>1 DEF CreateSession, Outcome!Open
<1>2. ASSUME NEW h \in Handlers, CommitFrame(h) PROVE Outcome!Record(serves[h])
  <2> DEFINE s == serves[h]
             r == AddFrame(rows[s], clean[h], raise[h], txStart[h])
  <2>1. step[h] # "idle" /\ UNCHANGED <<status, result, outbox>>
    BY <1>2 DEF CommitFrame
  <2>2. s \in Sessions /\ status[s] # "absent" /\ rows[s] \in RowSet
    BY <1>0, <2>1
  <2>3. rows' = [rows EXCEPT ![s] = r]
    BY <1>0, <1>2 DEF CommitFrame
  <2>4. /\ r.frames = rows[s].frames + 1 /\ r.events = rows[s].events
        /\ r.clean - rows[s].clean \in {0, 1} /\ r.flagged - rows[s].flagged \in {0, 1}
    BY <2>2, RowFields DEF AddFrame
  <2> HIDE DEF r
  <2>5. rows'[s] = r
    BY <1>0, <2>2, <2>3
  <2> QED BY <2>1, <2>2, <2>3, <2>4, <2>5 DEF Outcome!Record
<1>3. ASSUME NEW h \in Handlers, CommitEvent(h) PROVE Outcome!Record(serves[h])
  <2> DEFINE s == serves[h]
             r == AddEvent(rows[s], txStart[h])
  <2>1. step[h] # "idle" /\ UNCHANGED <<status, result, outbox>>
    BY <1>3 DEF CommitEvent
  <2>2. s \in Sessions /\ status[s] # "absent"
    BY <1>0, <2>1
  <2>3. rows' = [rows EXCEPT ![s] = r]
    BY <1>0, <1>3 DEF CommitEvent
  <2>4. /\ r.frames = rows[s].frames /\ r.events = rows[s].events + 1
        /\ r.clean = rows[s].clean /\ r.flagged = rows[s].flagged
    BY DEF AddEvent
  <2> HIDE DEF r
  <2>5. rows'[s] = r
    BY <1>0, <2>2, <2>3
  <2> QED BY <2>1, <2>2, <2>3, <2>4, <2>5 DEF Outcome!Record
<1>4. ASSUME NEW h \in Handlers, Handle(h)
      PROVE  UNCHANGED Outcome!vars \/ \E s \in Sessions : Outcome!Record(s)
  <2>1. CASE CommitFrame(h) \/ CommitEvent(h)
    <3>1. serves[h] \in Sessions
      BY <1>0, <2>1 DEF CommitFrame, CommitEvent
    <3> QED BY <1>2, <1>3, <2>1, <3>1
  <2>2. CASE ~CommitFrame(h) /\ ~CommitEvent(h)
    BY <1>4, <2>2 DEF Outcome!vars, Handle, RestFrame, ClientEvent, RestRequest, Start, Connect,
       Receive, Close, EvaluateViolation, EvaluateClean, Fail
  <2> QED BY <2>1, <2>2
<1>5. ASSUME NEW e \in Enders, CommitEnd(e)
      PROVE  \E s \in Sessions : \E o \in Outcome!Outcomes : Outcome!End(s, o)
  <2> DEFINE s == target[e]
             res == [frames |-> rows[s].frames,
                     trust |-> Score(rows[s].frames, rows[s].clean, rows[s].events),
                     endedAt |-> draft[e].endedAt]
  <2>1. /\ s \in Sessions /\ status[s] = "active" /\ OutcomeOf(e) \in Outcomes
        /\ draft[e].endedAt \in Times
        /\ status' = [status EXCEPT ![s] = OutcomeOf(e)]
        /\ rows' = rows
        /\ result' = [result EXCEPT ![s] = res]
        /\ outbox' = IF s \in Subscribed
                     THEN [outbox EXCEPT ![s] = Append(@,
                            [status |-> OutcomeOf(e), frames |-> res.frames,
                             trust |-> res.trust, endedAt |-> res.endedAt,
                             listed |-> rows[s].flagged + rows[s].events])]
                     ELSE outbox
    BY <1>5, CommitWrites
  <2>2. res = Outcome!Frozen(rows[s], draft[e].endedAt)
    BY DEF Outcome!Frozen, Outcome!Score, Score, Outcome!NoScore, NoScore, Outcome!Clamp, Clamp,
       Outcome!RoundHalfEven, RoundHalfEven, Outcome!Perfect, Perfect,
       Outcome!ClientEventPenalty, ClientEventPenalty
  <2>3. result'[s] = res
    BY <2>1 DEF IInv, TypeOK
  <2> HIDE DEF res
  <2>4. [status |-> OutcomeOf(e), frames |-> res.frames, trust |-> res.trust,
         endedAt |-> res.endedAt, listed |-> rows[s].flagged + rows[s].events]
          = Outcome!Event(OutcomeOf(e), result'[s], rows[s])
    BY <2>3 DEF Outcome!Event
  <2>5. Outcome!End(s, OutcomeOf(e))
    BY <2>1, <2>2, <2>4 DEF Outcome!End
  <2> QED BY <2>1, <2>5 DEF Outcomes, Outcome!Outcomes
<1>6. ASSUME NEW e \in Enders, Finalize(e), ~CommitEnd(e) PROVE UNCHANGED Outcome!vars
  BY <1>6 DEF Outcome!vars, Finalize, Acquire, TurnAway, CountFrames, TallyFrames, ScoreEvents,
     ResetStreak
<1>7. ASSUME NEW e \in Enders, (\E s \in Sessions : Request(e, s)) \/ SweepStep(e) \/ Crash(e)
      PROVE  UNCHANGED Outcome!vars
  BY <1>7 DEF Outcome!vars, Request, SweepStep, Sweep, VisitRow, SweepDone, Crash
<1>8. Tick \/ (\E s \in Sessions : StreakExpires(s)) => UNCHANGED Outcome!vars
  BY DEF Outcome!vars, Tick, StreakExpires
<1>9. CASE UNCHANGED vars
  BY <1>9 DEF Outcome!vars
<1> QED BY <1>1, <1>4, <1>5, <1>6, <1>7, <1>8, <1>9 DEF Next, Outcome!Next

(* Ending a session is atomic: the code's statements, locks and races      *)
(* implement SessionOutcome, where an end is a single step.                *)
THEOREM Implementation == Spec => EndsAtomically
BY RefineInit, RefineStep, IInvAlways, PTL DEF Spec, EndsAtomically, Outcome!Spec
=============================================================================
