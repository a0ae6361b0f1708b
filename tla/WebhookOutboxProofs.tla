------------------------- MODULE WebhookOutboxProofs -------------------------
(***************************************************************************)
(* Theorems about WebhookOutbox, for every number of deliveries, workers   *)
(* and organizations and every value of the bounds.                        *)
(***************************************************************************)
EXTENDS WebhookOutbox, TLAPS

USE Names, Numbers DEF partner

-----------------------------------------------------------------------------
(* The inductive invariant                                                 *)

(* A worker holds the rows of its batch, and they are pending.             *)
Locked == \A w \in Workers : \A d \in batch[w] : held[d] = w /\ status[d] = "pending"

(* Answers are of rows of the batch; an accepted one was received.         *)
Answered ==
  \A w \in Workers, d \in Deliveries :
    /\ result[w][d] # "none" => d \in batch[w]
    /\ result[w][d] = "accepted" => received[d] > 0

IInv == TypeOK /\ Locked /\ Answered /\ AttemptsAccounted /\ DuplicatesExplained

(* The backoff is a number of seconds.                                     *)
LEMMA BackoffType == ASSUME NEW n \in Nat \ {0} PROVE Backoff(n) \in Int
<1>1. 4 ^ (n - 1) \in Int
  BY SMT
<1> QED BY <1>1, SMT DEF Backoff

(* A row is in one batch only.                                             *)
LEMMA OneBatch ==
  ASSUME Locked, NEW v \in Workers, NEW w \in Workers, NEW d \in batch[v], d \in batch[w]
  PROVE  v = w
BY DEF Locked

(* A row that was answered is pending, and only its holder has the answer. *)
LEMMA OneAnswer ==
  ASSUME TypeOK, Locked, Answered,
         NEW w \in Workers, NEW d \in Deliveries, d \in batch[w]
  PROVE  /\ status[d] = "pending"
         /\ \A v \in Workers \ {w} : result[v][d] = "none"
BY DEF Locked, Answered

LEMMA InitIInv == Init => IInv
BY DEF Init, IInv, TypeOK, Statuses, Results, Posted, Locked, Answered, AttemptsAccounted,
   DuplicatesExplained, UnderWay

-----------------------------------------------------------------------------
(* Types                                                                   *)

(* Post: the request was processed, or may be.                             *)
LEMMA PostSends ==
  ASSUME TypeOK, NEW w \in Workers, NEW d \in Deliveries, Post(w, d)
  PROVE  /\ received' \in [Deliveries -> Nat] /\ astray' \in [Deliveries -> Nat]
         /\ received'[d] + astray'[d] = received[d] + astray[d] + 1
         /\ \A e \in Deliveries \ {d} : received'[e] = received[e] /\ astray'[e] = astray[e]
<1>1. /\ received \in [Deliveries -> Nat] /\ astray \in [Deliveries -> Nat]
      /\ received[d] \in Nat /\ astray[d] \in Nat
  BY DEF TypeOK
<1>2. CASE received' = [received EXCEPT ![d] = @ + 1] /\ astray' = astray
  BY <1>1, <1>2
<1>3. CASE astray' = [astray EXCEPT ![d] = @ + 1] /\ received' = received
  BY <1>1, <1>3
<1> QED BY <1>2, <1>3 DEF Post

(* A worker that forgets its batch keeps the types of its memory.          *)
LEMMA ForgetType ==
  ASSUME TypeOK, NEW w \in Workers, Forget(w)
  PROVE  /\ batch' \in [Workers -> SUBSET Deliveries]
         /\ loaded' \in [Workers -> [Orgs -> Urls \cup {"none"}]]
         /\ takenAt' \in [Workers -> Nat]
         /\ result' \in [Workers -> [Deliveries -> Results]]
BY DEF TypeOK, Forget, Results, Posted

(* What the parts of an action leave has its type.                         *)
LEMMA AnswerType ==
  ASSUME TypeOK, NEW w \in Workers, NEW d \in Deliveries, NEW r \in Results, Answer(w, d, r)
  PROVE  result' \in [Workers -> [Deliveries -> Results]]
BY DEF TypeOK, Answer

LEMMA ReleaseType ==
  ASSUME TypeOK, NEW w \in Workers
  PROVE  ReleasedBy(w) \in [Deliveries -> Workers \cup {Nobody}]
BY DEF TypeOK, ReleasedBy

LEMMA RollbackType ==
  ASSUME TypeOK, NEW w \in Workers, Rollback(w)
  PROVE  rollbacks' \in [Deliveries -> Nat] /\ astray' \in [Deliveries -> Nat]
BY DEF TypeOK, Rollback

LEMMA CommitType ==
  ASSUME TypeOK, Locked, AttemptsAccounted, NEW w \in Workers, Commit(w)
  PROVE  /\ status' \in [Deliveries -> Statuses]
         /\ attempts' \in [Deliveries -> 0 .. MaxAttempts]
         /\ due' \in [Deliveries -> Int]
<1>1. \A d \in Deliveries : Settled(w, d) \in Statuses
  BY DEF Settled, Statuses
<1>2. \A d \in batch[w] : attempts[d] < MaxAttempts
  BY DEF Locked, AttemptsAccounted, TypeOK
<1>3. \A d \in batch[w] : takenAt[w] + Backoff(Counted(w, d)) \in Int
  <2> TAKE d \in batch[w]
  <2>1. d \in Deliveries /\ attempts[d] \in Nat /\ takenAt[w] \in Nat
    BY DEF TypeOK
  <2>2. Counted(w, d) \in Nat \ {0}
    BY <2>1 DEF Counted
  <2>3. Backoff(Counted(w, d)) \in Int
    BY <2>2, BackoffType
  <2> QED BY <2>1, <2>3
<1>4. status' \in [Deliveries -> Statuses]
  BY <1>1 DEF Commit, TypeOK
<1>5. attempts' \in [Deliveries -> 0 .. MaxAttempts]
  BY <1>2 DEF Commit, TypeOK, Counted
<1>6. due' \in [Deliveries -> Int]
  BY <1>3 DEF Commit, TypeOK
<1> QED BY <1>4, <1>5, <1>6

(* Every step keeps the types.                                             *)
LEMMA TypeStep == IInv /\ [Next]_vars => TypeOK'
<1> SUFFICES ASSUME IInv, [Next]_vars PROVE TypeOK'
  OBVIOUS
<1>0. TypeOK /\ Locked /\ AttemptsAccounted
  BY DEF IInv
<1>1. CASE Tick
  BY <1>0, <1>1 DEF Tick, TypeOK, table, memory, history
<1>2. ASSUME NEW o \in Orgs, NEW u \in Urls, Configure(o, u) PROVE TypeOK'
  BY <1>0, <1>2 DEF Configure, TypeOK, table, memory
<1>3. ASSUME NEW d \in Deliveries, NEW o \in Orgs, Enqueue(d, o) PROVE TypeOK'
  BY <1>0, <1>3 DEF Enqueue, TypeOK, Statuses, memory, history
<1>4. ASSUME NEW w \in Workers, Take(w) PROVE TypeOK'
  BY <1>0, <1>4 DEF Take, Available, TypeOK, table, history
<1>5. ASSUME NEW w \in Workers, NEW d \in Deliveries, Post(w, d) PROVE TypeOK'
  <2>1. result' \in [Workers -> [Deliveries -> Results]]
    BY <1>0, <1>5, AnswerType DEF Post, Results, Posted
  <2>2. received' \in [Deliveries -> Nat] /\ astray' \in [Deliveries -> Nat]
    BY <1>0, <1>5, PostSends
  <2> QED BY <1>0, <1>5, <2>1, <2>2 DEF Post, TypeOK, table, history
<1>6. ASSUME NEW w \in Workers, NEW d \in Deliveries, Unconfigured(w, d) PROVE TypeOK'
  BY <1>0, <1>6 DEF Unconfigured, Answer, TypeOK, Results, Posted, table, history
<1>7. ASSUME NEW w \in Workers, Rollback(w), crashes' \in Nat PROVE TypeOK'
  <2>1. Forget(w) /\ held' = ReleasedBy(w) /\ UNCHANGED <<now, url, table, received, changes>>
    BY <1>7 DEF Rollback
  <2> QED BY <1>0, <1>7, <2>1, ForgetType, ReleaseType, RollbackType DEF TypeOK, table
<1>8. ASSUME NEW w \in Workers, Raise(w) PROVE TypeOK'
  BY <1>0, <1>7, <1>8 DEF Raise, TypeOK
<1>9. ASSUME NEW w \in Workers, Crash(w) PROVE TypeOK'
  BY <1>0, <1>7, <1>9 DEF Crash, TypeOK
<1>10. ASSUME NEW w \in Workers, Commit(w) PROVE TypeOK'
  <2>1. Forget(w) /\ held' = ReleasedBy(w) /\ UNCHANGED <<now, url, owner, received, astray, history>>
    BY <1>10 DEF Commit
  <2> QED BY <1>0, <1>10, <2>1, ForgetType, ReleaseType, CommitType DEF TypeOK, history
<1>11. CASE UNCHANGED vars
  BY <1>0, <1>11 DEF vars, TypeOK, table, memory, history
<1>12. ASSUME NEW d \in Deliveries, Arrive(d) PROVE TypeOK'
  BY <1>0, <1>12 DEF Arrive, TypeOK, table, memory, history
<1> QED BY <1>1, <1>2, <1>3, <1>4, <1>5, <1>6, <1>8, <1>9, <1>10, <1>11, <1>12 DEF Next, Work, Sleep

-----------------------------------------------------------------------------
(* Locks and answers                                                       *)

(* What a worker that forgets its batch leaves of the others' memory.      *)
LEMMA OthersKeep ==
  ASSUME TypeOK, NEW w \in Workers, Forget(w)
  PROVE  /\ batch'[w] = {} /\ \A d \in Deliveries : result'[w][d] = "none"
         /\ \A v \in Workers \ {w} : batch'[v] = batch[v] /\ result'[v] = result[v]
BY DEF TypeOK, Forget

(* Locks stay with their batches, and settled rows stay out of them.       *)
LEMMA LockStep == IInv /\ [Next]_vars => Locked'
<1> SUFFICES ASSUME IInv, [Next]_vars PROVE Locked'
  OBVIOUS
<1>0. TypeOK /\ Locked
  BY DEF IInv
<1>1. ASSUME NEW d \in Deliveries, NEW o \in Orgs, Enqueue(d, o) PROVE Locked'
  <2>1. \A v \in Workers : d \notin batch[v]
    BY <1>0, <1>1 DEF Locked, Enqueue
  <2> QED BY <1>0, <1>1, <2>1 DEF Locked, TypeOK, Enqueue, memory
<1>2. ASSUME NEW w \in Workers, Take(w) PROVE Locked'
  <2>1. PICK B \in SUBSET Available :
          /\ batch' = [batch EXCEPT ![w] = B]
          /\ held' = [d \in Deliveries |-> IF d \in B THEN w ELSE held[d]]
    BY <1>2 DEF Take
  <2>2. \A d \in B : d \in Deliveries /\ status[d] = "pending" /\ held[d] = Nobody
    BY <2>1 DEF Available, Pending, Unlocked
  <2>3. \A v \in Workers : \A d \in batch[v] : d \in Deliveries /\ d \notin B
    BY <1>0, <2>2 DEF Locked, TypeOK
  <2>4. status' = status
    BY <1>2 DEF Take, table
  <2> QED BY <1>0, <2>1, <2>2, <2>3, <2>4 DEF Locked, TypeOK
<1>3. ASSUME NEW w \in Workers, Forget(w), held' = ReleasedBy(w),
             \A d \in Deliveries \ batch[w] : status'[d] = status[d]
      PROVE  Locked'
  <2>1. \A v \in Workers \ {w} : \A d \in batch[v] : d \in Deliveries /\ d \notin batch[w]
    BY <1>0 DEF Locked, TypeOK
  <2>2. \A v \in Workers \ {w} : \A d \in batch[v] : held'[d] = v
    BY <1>0, <1>3, <2>1 DEF Locked, ReleasedBy
  <2> QED BY <1>0, <1>3, <2>1, <2>2, OthersKeep DEF Locked
<1>4. ASSUME NEW w \in Workers, Rollback(w) PROVE Locked'
  BY <1>3, <1>4 DEF Rollback, table
<1>5. ASSUME NEW w \in Workers, Commit(w) PROVE Locked'
  <2>1. \A d \in Deliveries \ batch[w] : status'[d] = status[d]
    BY <1>5 DEF Commit
  <2> QED BY <1>3, <1>5, <2>1 DEF Commit
<1>6. ASSUME UNCHANGED <<batch, held, status>> PROVE Locked'
  BY <1>0, <1>6 DEF Locked
<1>7. ASSUME NEW w \in Workers, NEW d \in Deliveries, Post(w, d) \/ Unconfigured(w, d) PROVE Locked'
  BY <1>6, <1>7 DEF Post, Unconfigured, table
<1>8. CASE \/ Tick \/ \E o \in Orgs, u \in Urls : Configure(o, u)
           \/ \E d \in Deliveries : Arrive(d)
  BY <1>6, <1>8 DEF Tick, Configure, Arrive, table, memory
<1>9. CASE UNCHANGED vars
  BY <1>6, <1>9 DEF vars, table, memory
<1> QED BY <1>1, <1>2, <1>4, <1>5, <1>7, <1>8, <1>9 DEF Next, Work, Sleep, Raise, Crash

(* Answers belong to rows under way, and accepted means received.          *)
LEMMA AnswerStep == IInv /\ [Next]_vars => Answered'
<1> SUFFICES ASSUME IInv, [Next]_vars PROVE Answered'
  OBVIOUS
<1>0. TypeOK /\ Answered
  BY DEF IInv
<1>1. ASSUME NEW w \in Workers, Forget(w), received' = received PROVE Answered'
  BY <1>0, <1>1, OthersKeep DEF Answered
<1>2. ASSUME NEW w \in Workers, Rollback(w) \/ Commit(w) PROVE Answered'
  BY <1>1, <1>2 DEF Rollback, Commit
<1>3. ASSUME NEW w \in Workers, NEW d \in Deliveries, Post(w, d) \/ Unconfigured(w, d) PROVE Answered'
  <2>1. PICK r \in Results : Answer(w, d, r) /\ (r = "accepted" => received'[d] = received[d] + 1)
    BY <1>0, <1>3 DEF Post, Unconfigured, Results, Posted, TypeOK
  <2>2. /\ d \in batch[w] /\ batch' = batch
        /\ \A e \in Deliveries : received'[e] \in Nat /\ received'[e] >= received[e]
    BY <1>0, <1>3 DEF Post, Unconfigured, TypeOK
  <2>3. \A v \in Workers, e \in Deliveries :
          result'[v][e] = IF v = w /\ e = d THEN r ELSE result[v][e]
    BY <1>0, <2>1 DEF Answer, TypeOK
  <2>4. \A e \in Deliveries : received[e] \in Nat
    BY <1>0 DEF TypeOK
  <2>5. ASSUME NEW v \in Workers, NEW e \in Deliveries
        PROVE  /\ result'[v][e] # "none" => e \in batch[v]
               /\ result'[v][e] = "accepted" => received'[e] > 0
    BY <1>0, <2>1, <2>2, <2>3, <2>4 DEF Answered
  <2> QED BY <2>2, <2>5 DEF Answered
<1>4. ASSUME NEW w \in Workers, Take(w) PROVE Answered'
  <2>1. batch[w] = {} /\ \A v \in Workers \ {w} : batch'[v] = batch[v]
    BY <1>0, <1>4 DEF Take, TypeOK
  <2> QED BY <1>0, <1>4, <2>1 DEF Answered, Take
<1>5. CASE UNCHANGED <<batch, result, received>>
  BY <1>0, <1>5 DEF Answered
<1>6. CASE \/ Tick \/ UNCHANGED vars
           \/ \E o \in Orgs, u \in Urls : Configure(o, u)
           \/ \E d \in Deliveries, o \in Orgs : Enqueue(d, o)
  BY <1>5, <1>6 DEF Tick, Configure, Enqueue, memory, vars
<1>7. ASSUME NEW d \in Deliveries, Arrive(d) PROVE Answered'
  <2>1. \A e \in Deliveries : received[e] \in Nat /\ received'[e] \in Nat /\ received'[e] >= received[e]
    BY <1>0, <1>7 DEF Arrive, TypeOK
  <2> QED BY <1>0, <1>7, <2>1 DEF Arrive, Answered, memory
<1> QED BY <1>2, <1>3, <1>4, <1>6, <1>7 DEF Next, Work, Sleep, Raise, Crash

-----------------------------------------------------------------------------
(* Attempts                                                                *)

(* A commit counts one attempt of each row of the batch, all of them       *)
(* pending, and settles them by that count.                                *)
LEMMA CommitCounts ==
  ASSUME TypeOK, Locked, NEW w \in Workers, Commit(w), NEW d \in Deliveries
  PROVE  /\ d \in batch[w] => /\ status[d] = "pending"
                              /\ result[w][d] # "none"
                              /\ attempts'[d] = attempts[d] + 1
                              /\ status'[d] = Settled(w, d)
         /\ d \notin batch[w] => attempts'[d] = attempts[d] /\ status'[d] = status[d]
BY DEF TypeOK, Locked, Commit, Counted

(* The number of attempts and the status keep telling one story.           *)
LEMMA AccountStep == IInv /\ [Next]_vars => AttemptsAccounted'
<1> SUFFICES ASSUME IInv, [Next]_vars PROVE AttemptsAccounted'
  OBVIOUS
<1>0. TypeOK /\ Locked /\ AttemptsAccounted
  BY DEF IInv
<1>1. ASSUME NEW d \in Deliveries, NEW o \in Orgs, Enqueue(d, o) PROVE AttemptsAccounted'
  BY <1>0, <1>1 DEF Enqueue, AttemptsAccounted, TypeOK
<1>2. ASSUME NEW w \in Workers, Commit(w) PROVE AttemptsAccounted'
  <2> SUFFICES ASSUME NEW d \in Deliveries
               PROVE  /\ status'[d] = "pending" => attempts'[d] < MaxAttempts
                      /\ status'[d] = "failed" => attempts'[d] = MaxAttempts
                      /\ status'[d] = "absent" => attempts'[d] = 0
    BY DEF AttemptsAccounted
  <2>1. attempts[d] \in 0 .. MaxAttempts
    BY <1>0 DEF TypeOK
  <2>2. CASE d \in batch[w]
    BY <1>0, <1>2, <2>1, <2>2, CommitCounts DEF AttemptsAccounted, Settled, Counted, Exhausted
  <2>3. CASE d \notin batch[w]
    BY <1>0, <1>2, <2>3, CommitCounts DEF AttemptsAccounted
  <2> QED BY <2>2, <2>3
<1>3. ASSUME UNCHANGED <<status, attempts>> PROVE AttemptsAccounted'
  BY <1>0, <1>3 DEF AttemptsAccounted
<1>4. ASSUME NEW w \in Workers, Take(w) \/ Rollback(w) PROVE AttemptsAccounted'
  BY <1>3, <1>4 DEF Take, Rollback, table
<1>5. ASSUME NEW w \in Workers, NEW d \in Deliveries, Post(w, d) \/ Unconfigured(w, d)
      PROVE  AttemptsAccounted'
  BY <1>3, <1>5 DEF Post, Unconfigured, table
<1>6. CASE \/ Tick \/ UNCHANGED vars \/ \E d \in Deliveries : Arrive(d)
           \/ \E o \in Orgs, u \in Urls : Configure(o, u)
  BY <1>3, <1>6 DEF Tick, Configure, Arrive, vars, table
<1> QED BY <1>1, <1>2, <1>4, <1>5, <1>6 DEF Next, Work, Sleep, Raise, Crash

-----------------------------------------------------------------------------
(* Duplicates                                                              *)

(* When a worker forgets its batch, the rows it had answered are no longer *)
(* under way, the others are as before.                                    *)
LEMMA ForgetUnderWay ==
  ASSUME TypeOK, Locked, Answered, NEW w \in Workers, Forget(w), NEW d \in Deliveries
  PROVE  /\ result[w][d] \in Posted => UnderWay(d) = 1
         /\ result[w][d] \notin Posted => UnderWay(d)' = UnderWay(d)
         /\ UnderWay(d)' \in {0, 1} /\ UnderWay(d) \in {0, 1}
<1>1. /\ \A v \in Workers \ {w} : result'[v] = result[v]
      /\ result'[w][d] = "none"
  BY OthersKeep
<1> QED BY <1>1 DEF UnderWay, Posted

(* An attempt that nobody has answered yet has no other under way.         *)
LEMMA NoneUnderWay ==
  ASSUME TypeOK, Locked, Answered, NEW w \in Workers, NEW d \in Deliveries,
         d \in batch[w], result[w][d] = "none"
  PROVE  UnderWay(d) = 0
BY OneAnswer DEF UnderWay, Posted

(* Every step keeps the bound on duplicates.                               *)
LEMMA DuplicateStep == IInv /\ [Next]_vars => DuplicatesExplained'
<1> SUFFICES ASSUME IInv, [Next]_vars PROVE DuplicatesExplained'
  OBVIOUS
<1>0. TypeOK /\ Locked /\ Answered /\ DuplicatesExplained
  BY DEF IInv
<1>n. \A d \in Deliveries : /\ received[d] \in Nat /\ astray[d] \in Nat
                             /\ attempts[d] \in Nat /\ rollbacks[d] \in Nat
  BY <1>0 DEF TypeOK
<1>b. \A d \in Deliveries : received[d] + astray[d] <= attempts[d] + rollbacks[d] + UnderWay(d)
  BY <1>0 DEF DuplicatesExplained
<1>1. ASSUME NEW w \in Workers, Rollback(w) PROVE DuplicatesExplained'
  <2> SUFFICES ASSUME NEW d \in Deliveries
               PROVE  received'[d] + astray'[d] <= attempts'[d] + rollbacks'[d] + UnderWay(d)'
    BY DEF DuplicatesExplained
  <2>1. received' = received /\ attempts' = attempts /\ Forget(w)
    BY <1>1 DEF Rollback, table
  <2>2. PICK S \in SUBSET Unanswered(w) :
          /\ astray'[d] = IF d \in S THEN astray[d] + 1 ELSE astray[d]
          /\ rollbacks'[d] = rollbacks[d] + (IF d \in S \/ result[w][d] \in Posted THEN 1 ELSE 0)
    BY <1>1 DEF Rollback
  <2>3. d \in S => d \in batch[w] /\ result[w][d] = "none"
    BY <2>2 DEF Unanswered
  <2>4. CASE d \in S
    <3>1. UnderWay(d) = 0 /\ astray'[d] = astray[d] + 1 /\ rollbacks'[d] = rollbacks[d] + 1
      BY <1>0, <2>2, <2>3, <2>4, NoneUnderWay
    <3>2. UnderWay(d)' \in {0, 1}
      BY <1>0, <2>1, ForgetUnderWay
    <3> QED BY <1>n, <1>b, <2>1, <3>1, <3>2
  <2>5. CASE d \notin S /\ result[w][d] \in Posted
    <3>1. UnderWay(d) = 1 /\ astray'[d] = astray[d] /\ rollbacks'[d] = rollbacks[d] + 1
      BY <1>0, <1>n, <2>1, <2>2, <2>5, ForgetUnderWay
    <3>2. UnderWay(d)' \in {0, 1}
      BY <1>0, <2>1, ForgetUnderWay
    <3> QED BY <1>n, <1>b, <2>1, <3>1, <3>2
  <2>6. CASE d \notin S /\ result[w][d] \notin Posted
    <3>1. UnderWay(d)' = UnderWay(d) /\ astray'[d] = astray[d] /\ rollbacks'[d] = rollbacks[d]
      BY <1>0, <1>n, <2>1, <2>2, <2>6, ForgetUnderWay
    <3> QED BY <1>b, <2>1, <3>1
  <2> QED BY <2>4, <2>5, <2>6
<1>2. ASSUME NEW w \in Workers, Commit(w) PROVE DuplicatesExplained'
  <2> SUFFICES ASSUME NEW d \in Deliveries
               PROVE  received'[d] + astray'[d] <= attempts'[d] + rollbacks'[d] + UnderWay(d)'
    BY DEF DuplicatesExplained
  <2>1. received' = received /\ astray' = astray /\ rollbacks' = rollbacks /\ Forget(w)
    BY <1>2 DEF Commit, history
  <2>2. /\ result[w][d] \in Posted => UnderWay(d) = 1
        /\ result[w][d] \notin Posted => UnderWay(d)' = UnderWay(d)
        /\ UnderWay(d)' \in {0, 1} /\ UnderWay(d) \in {0, 1}
    BY <1>0, <2>1, ForgetUnderWay
  <2>3. CASE d \in batch[w]
    <3>1. attempts'[d] = attempts[d] + 1
      BY <1>0, <1>2, <2>3, CommitCounts
    <3> QED BY <1>n, <1>b, <2>1, <2>2, <3>1
  <2>4. CASE d \notin batch[w]
    <3>1. attempts'[d] = attempts[d] /\ result[w][d] = "none"
      BY <1>0, <1>2, <2>4, CommitCounts DEF Answered
    <3> QED BY <1>b, <2>1, <2>2, <3>1 DEF Posted
  <2> QED BY <2>3, <2>4
<1>3. ASSUME NEW w \in Workers, NEW d \in Deliveries, Post(w, d) PROVE DuplicatesExplained'
  <2>1. PICK r \in Posted : Answer(w, d, r)
    BY <1>3 DEF Post, Posted
  <2>2. /\ d \in batch[w] /\ result[w][d] = "none"
        /\ attempts' = attempts /\ rollbacks' = rollbacks
        /\ received'[d] + astray'[d] = received[d] + astray[d] + 1
        /\ \A e \in Deliveries \ {d} : received'[e] = received[e] /\ astray'[e] = astray[e]
    BY <1>0, <1>3, PostSends DEF Post, table, history
  <2>3. \A v \in Workers, e \in Deliveries :
          result'[v][e] = IF v = w /\ e = d THEN r ELSE result[v][e]
    BY <1>0, <2>1 DEF Answer, TypeOK
  <2>4. UnderWay(d) = 0
    BY <1>0, <2>2, NoneUnderWay
  <2>5. UnderWay(d)' = 1
    BY <2>1, <2>3 DEF UnderWay
  <2>6. ASSUME NEW e \in Deliveries \ {d} PROVE UnderWay(e)' = UnderWay(e)
    BY <2>3 DEF UnderWay
  <2>7. received'[d] + astray'[d] <= attempts'[d] + rollbacks'[d] + UnderWay(d)'
    BY <1>n, <1>b, <2>2, <2>4, <2>5
  <2>8. ASSUME NEW e \in Deliveries \ {d}
        PROVE  received'[e] + astray'[e] <= attempts'[e] + rollbacks'[e] + UnderWay(e)'
    BY <1>b, <2>2, <2>6
  <2> QED BY <2>7, <2>8 DEF DuplicatesExplained
<1>4. ASSUME UNCHANGED <<received, astray, attempts, rollbacks>>,
             \A e \in Deliveries : UnderWay(e)' = UnderWay(e)
      PROVE  DuplicatesExplained'
  BY <1>b, <1>4 DEF DuplicatesExplained
<1>5. ASSUME NEW w \in Workers, NEW d \in Deliveries, Unconfigured(w, d) PROVE DuplicatesExplained'
  <2>1. \A v \in Workers, e \in Deliveries : result'[v][e] \in Posted <=> result[v][e] \in Posted
    BY <1>0, <1>5 DEF Unconfigured, Answer, TypeOK, Posted
  <2>2. \A e \in Deliveries : UnderWay(e)' = UnderWay(e)
    BY <2>1 DEF UnderWay
  <2> QED BY <1>4, <1>5, <2>2 DEF Unconfigured, table, history
<1>6. ASSUME UNCHANGED <<received, astray, attempts, rollbacks, result>> PROVE DuplicatesExplained'
  BY <1>4, <1>6 DEF UnderWay
<1>7. CASE \/ Tick \/ UNCHANGED vars \/ \E w \in Workers : Take(w)
           \/ \E o \in Orgs, u \in Urls : Configure(o, u)
           \/ \E d \in Deliveries, o \in Orgs : Enqueue(d, o)
  BY <1>6, <1>7 DEF Tick, Take, Configure, Enqueue, memory, table, history, vars
<1>8. ASSUME NEW d \in Deliveries, Arrive(d) PROVE DuplicatesExplained'
  <2>1. /\ UNCHANGED <<attempts, rollbacks, result>>
        /\ \A e \in Deliveries : received'[e] + astray'[e] = received[e] + astray[e]
    BY <1>n, <1>8 DEF Arrive, TypeOK, table, history, memory, IInv
  <2>2. \A e \in Deliveries : UnderWay(e)' = UnderWay(e)
    BY <2>1 DEF UnderWay
  <2> QED BY <1>b, <2>1, <2>2 DEF DuplicatesExplained
<1> QED BY <1>1, <1>2, <1>3, <1>5, <1>7, <1>8 DEF Next, Work, Sleep, Raise, Crash

-----------------------------------------------------------------------------
(* The invariants                                                          *)

LEMMA IInvStep == IInv /\ [Next]_vars => IInv'
BY TypeStep, LockStep, AnswerStep, AccountStep, DuplicateStep DEF IInv

LEMMA IInvAlways == Spec => []IInv
BY InitIInv, IInvStep, PTL DEF Spec

(* Every variable keeps its type, and no row has more than MaxAttempts     *)
(* attempts.                                                               *)
THEOREM OutboxTyping == Spec => []TypeOK
<1>1. IInv => TypeOK
  BY DEF IInv
<1> QED BY <1>1, IInvAlways, PTL

(* No two workers work on one row: SKIP LOCKED prevents double-sending.    *)
THEOREM Disjoint == Spec => []DisjointBatches
<1>1. IInv => DisjointBatches
  BY DEF IInv, Locked, DisjointBatches
<1> QED BY <1>1, IInvAlways, PTL

(* Pending rows have attempts left, failed rows have used all of them.     *)
THEOREM Accounted == Spec => []AttemptsAccounted
<1>1. IInv => AttemptsAccounted
  BY DEF IInv
<1> QED BY <1>1, IInvAlways, PTL

(* The partner receives an event once per recorded attempt, plus once for  *)
(* every record that was lost, plus once for the attempt under way.        *)
THEOREM Explained == Spec => []DuplicatesExplained
<1>1. IInv => DuplicatesExplained
  BY DEF IInv
<1> QED BY <1>1, IInvAlways, PTL

-----------------------------------------------------------------------------
(* EventDelivery                                                           *)

LEMMA RefineInit == Init => Promise!Init
BY DEF Init, Promise!Init

(* A step of the outbox is a step of EventDelivery, or none.               *)
LEMMA RefineStep == IInv /\ [Next]_vars => [Promise!Next]_(Promise!vars)
<1> SUFFICES ASSUME IInv, [Next]_vars PROVE [Promise!Next]_(Promise!vars)
  OBVIOUS
<1>0. TypeOK /\ Locked /\ Answered
  BY DEF IInv
<1>1. ASSUME NEW d \in Deliveries, NEW o \in Orgs, Enqueue(d, o) PROVE Promise!Next
  BY <1>1 DEF Enqueue, Promise!Queue, Promise!Next
<1>2. ASSUME NEW w \in Workers, NEW d \in Deliveries, Post(w, d)
      PROVE  Promise!Next
  <2>1. status[d] = "pending"
    BY <1>0, <1>2 DEF Post, Locked
  <2>2. CASE received' = [received EXCEPT ![d] = @ + 1] /\ UNCHANGED astray
    BY <1>2, <2>1, <2>2 DEF Post, Promise!Receive, Promise!Next, table
  <2>3. CASE astray' = [astray EXCEPT ![d] = @ + 1] /\ UNCHANGED received
    <3>1. astray' = [e \in Deliveries |-> IF e \in {d} THEN astray[e] + 1 ELSE astray[e]]
      BY <1>0, <2>3 DEF TypeOK
    <3>2. Promise!GiveUp({d})
      BY <1>2, <2>1, <2>3, <3>1 DEF Post, Promise!GiveUp, table
    <3> QED BY <3>2 DEF Promise!Next
  <2> QED BY <1>2, <2>2, <2>3 DEF Post
<1>3. ASSUME NEW w \in Workers, Commit(w) PROVE Promise!Next
  <2> DEFINE A == {d \in batch[w] : Settled(w, d) = "delivered"}
             D == {d \in batch[w] : Settled(w, d) = "failed"}
  <2>1. batch[w] \subseteq Deliveries
    BY <1>0 DEF TypeOK
  <2>2. A \in SUBSET Deliveries /\ D \in SUBSET Deliveries
    BY <2>1
  <2>3. \A d \in A : status[d] = "pending" /\ received[d] > 0
    <3> TAKE d \in A
    <3>1. d \in Deliveries /\ d \in batch[w] /\ Settled(w, d) = "delivered"
      BY <2>1
    <3>2. result[w][d] = "accepted"
      BY <3>1 DEF Settled, Succeeded
    <3> HIDE DEF A
    <3> QED BY <1>0, <3>1, <3>2 DEF Locked, Answered
  <2>4. \A d \in D : status[d] = "pending"
    BY <1>0 DEF Locked
  <2>5. \A d \in batch[w] : Settled(w, d) \in {"delivered", "failed", "pending"}
    BY DEF Settled
  <2>6. status' = [d \in Deliveries |-> IF d \in batch[w] THEN Settled(w, d) ELSE status[d]]
    BY <1>3 DEF Commit
  <2>7. \A d \in Deliveries : (IF d \in batch[w] THEN Settled(w, d) ELSE status[d])
                            = (IF d \in A THEN "delivered" ELSE IF d \in D THEN "failed" ELSE status[d])
    BY <1>0, <2>5 DEF Locked
  <2>8. status' = [d \in Deliveries |-> IF d \in A THEN "delivered"
                                        ELSE IF d \in D THEN "failed" ELSE status[d]]
    BY <2>6, <2>7
  <2>9. received' = received /\ astray' = astray
    BY <1>3 DEF Commit
  <2> HIDE DEF A, D
  <2> QED BY <2>2, <2>3, <2>4, <2>8, <2>9 DEF Promise!Settle, Promise!Next
<1>4. ASSUME NEW w \in Workers, Rollback(w) PROVE Promise!Next
  <2>1. PICK S \in SUBSET Unanswered(w) :
          astray' = [d \in Deliveries |-> IF d \in S THEN astray[d] + 1 ELSE astray[d]]
    BY <1>4 DEF Rollback
  <2>2. S \in SUBSET Deliveries /\ \A d \in S : status[d] = "pending"
    BY <1>0, <2>1 DEF Unanswered, Locked, TypeOK
  <2>3. Promise!GiveUp(S)
    BY <1>4, <2>1, <2>2 DEF Rollback, Promise!GiveUp, table
  <2> QED BY <2>2, <2>3 DEF Promise!Next
<1>5. ASSUME NEW w \in Workers, NEW d \in Deliveries, Unconfigured(w, d)
      PROVE  UNCHANGED Promise!vars
  BY <1>5 DEF Unconfigured, table, Promise!vars
<1>6. CASE \/ Tick \/ UNCHANGED vars \/ \E w \in Workers : Take(w)
           \/ \E o \in Orgs, u \in Urls : Configure(o, u)
  BY <1>6 DEF Tick, Take, Configure, vars, table, Promise!vars
<1>7. ASSUME NEW d \in Deliveries, Arrive(d) PROVE Promise!Next
  BY <1>7 DEF Arrive, table, Promise!Arrive, Promise!Next
<1> QED BY <1>1, <1>2, <1>3, <1>4, <1>5, <1>6, <1>7 DEF Next, Work, Sleep, Raise, Crash, Promise!Next

(* The outbox implements EventDelivery: settled once, delivered only if    *)
(* received.                                                               *)
THEOREM Delivery == Spec => KeepsPromise
BY RefineInit, RefineStep, IInvAlways, PTL DEF Spec, KeepsPromise, Promise!Spec

-----------------------------------------------------------------------------
(* Settled rows                                                            *)

SettledStays(d) ==
  /\ status'[d] = status[d] /\ attempts'[d] = attempts[d]
  /\ received'[d] + astray'[d] = received[d] + astray[d]

(* No step touches a settled row, which is in no batch: what arrives was   *)
(* on its way.                                                             *)
LEMMA SettledStep ==
  ASSUME IInv, [Next]_vars, NEW d \in Deliveries, status[d] \in {"delivered", "failed"}
  PROVE  SettledStays(d)
<1>0. TypeOK /\ Locked
  BY DEF IInv
<1>1. \A w \in Workers : d \notin batch[w]
  BY <1>0 DEF Locked
<1>2. ASSUME NEW e \in Deliveries, NEW o \in Orgs, Enqueue(e, o) PROVE SettledStays(d)
  BY <1>0, <1>2 DEF Enqueue, TypeOK, SettledStays
<1>3. ASSUME NEW w \in Workers, Commit(w) PROVE SettledStays(d)
  BY <1>0, <1>1, <1>3, CommitCounts DEF Commit, SettledStays
<1>4. ASSUME NEW w \in Workers, NEW e \in Deliveries, Post(w, e) \/ Unconfigured(w, e)
      PROVE  SettledStays(d)
  <2>1. e # d
    BY <1>1, <1>4 DEF Post, Unconfigured
  <2> QED BY <1>0, <1>4, <2>1 DEF Post, Unconfigured, TypeOK, table, SettledStays
<1>5. ASSUME NEW w \in Workers, Rollback(w) PROVE SettledStays(d)
  <2>1. d \notin Unanswered(w)
    BY <1>1 DEF Unanswered
  <2> QED BY <1>0, <1>5, <2>1 DEF Rollback, TypeOK, table, SettledStays
<1>6. ASSUME NEW e \in Deliveries, Arrive(e) PROVE SettledStays(d)
  BY <1>0, <1>6 DEF Arrive, TypeOK, table, SettledStays
<1>7. CASE \/ Tick \/ UNCHANGED vars \/ \E w \in Workers : Take(w)
           \/ \E o \in Orgs, u \in Urls : Configure(o, u)
  BY <1>7 DEF Tick, Take, Configure, vars, table, SettledStays
<1> QED BY <1>2, <1>3, <1>4, <1>5, <1>6, <1>7 DEF Next, Work, Sleep, Raise, Crash

(* A settled row is never sent, counted or settled again: what the partner *)
(* still receives was sent before.                                         *)
THEOREM Settlement == Spec => SettledForGood
<1>1. IInv /\ [Next]_vars =>
        [\A d \in Deliveries : status[d] \in {"delivered", "failed"} =>
           /\ status'[d] = status[d] /\ attempts'[d] = attempts[d]
           /\ received'[d] + astray'[d] = received[d] + astray[d]]_vars
  BY SettledStep DEF SettledStays
<1> QED BY <1>1, IInvAlways, PTL DEF Spec, SettledForGood

-----------------------------------------------------------------------------
(* Claims: who may still settle a pending row                              *)

Claimed == \A d \in Deliveries : held[d] # Nobody => held[d] \in Workers /\ d \in batch[held[d]]

LEMMA ClaimedStep == IInv /\ Claimed /\ [Next]_vars => Claimed'
<1> SUFFICES ASSUME IInv, Claimed, [Next]_vars PROVE Claimed'
  OBVIOUS
<1>0. TypeOK /\ Locked
  BY DEF IInv
<1>1. ASSUME NEW w \in Workers, Take(w) PROVE Claimed'
  <2>1. PICK B \in SUBSET Available :
          /\ batch' = [batch EXCEPT ![w] = B]
          /\ held' = [d \in Deliveries |-> IF d \in B THEN w ELSE held[d]]
    BY <1>1 DEF Take
  <2>2. batch[w] = {}
    BY <1>1 DEF Take
  <2> QED BY <1>0, <2>1, <2>2 DEF Claimed, TypeOK
<1>2. ASSUME NEW w \in Workers, Forget(w), held' = ReleasedBy(w) PROVE Claimed'
  <2>1. ASSUME NEW d \in Deliveries, held'[d] # Nobody
        PROVE  held'[d] \in Workers /\ d \in batch'[held'[d]]
    <3>1. held'[d] = held[d] /\ held[d] \in Workers \ {w} /\ d \in batch[held[d]]
      BY <1>2, <2>1 DEF Claimed, ReleasedBy
    <3> QED BY <1>0, <1>2, <3>1, OthersKeep
  <2> QED BY <2>1 DEF Claimed
<1>3. ASSUME NEW w \in Workers, Rollback(w) \/ Commit(w) PROVE Claimed'
  BY <1>2, <1>3 DEF Rollback, Commit
<1>4. ASSUME UNCHANGED <<held, batch>> PROVE Claimed'
  BY <1>4 DEF Claimed
<1>5. ASSUME NEW w \in Workers, NEW d \in Deliveries, Post(w, d) \/ Unconfigured(w, d) PROVE Claimed'
  BY <1>4, <1>5 DEF Post, Unconfigured
<1>6. CASE \/ Tick \/ UNCHANGED vars
           \/ \E o \in Orgs, u \in Urls : Configure(o, u)
           \/ \E d \in Deliveries : Arrive(d) \/ \E o \in Orgs : Enqueue(d, o)
  BY <1>4, <1>6 DEF Tick, Configure, Arrive, Enqueue, memory, vars
<1> QED BY <1>1, <1>3, <1>5, <1>6 DEF Next, Work, Sleep, Raise, Crash

LEMMA ClaimedAlways == Spec => []Claimed
<1>1. Init => Claimed
  BY DEF Init, Claimed
<1> QED BY <1>1, ClaimedStep, IInvAlways, PTL DEF Spec

(* A row is locked exactly as long as the batch of its holder has it: a    *)
(* rollback, whatever caused it, leaves no row that no worker would take   *)
(* again, and the claim of one worker never covers for another's.          *)
THEOREM NoStrandedClaim ==
  Spec => [](\A d \in Deliveries, w \in Workers : held[d] = w <=> d \in batch[w])
<1>1. IInv /\ Claimed => \A d \in Deliveries, w \in Workers : held[d] = w <=> d \in batch[w]
  BY DEF IInv, Locked, Claimed
<1> QED BY <1>1, IInvAlways, ClaimedAlways, PTL

-----------------------------------------------------------------------------
(* Duplicates: how often a partner may receive one event                   *)

Owned  == \A d \in Deliveries : status[d] # "absent" => owner[d] \in Orgs
Losses == "invalid" \notin Urls => \A d \in Deliveries : rollbacks[d] <= crashes

(* Every row belongs to an organization.                                   *)
LEMMA OwnedStep == IInv /\ Owned /\ [Next]_vars => Owned'
<1> SUFFICES ASSUME IInv, Owned, [Next]_vars PROVE Owned'
  OBVIOUS
<1>0. TypeOK /\ Locked
  BY DEF IInv
<1>1. ASSUME NEW d \in Deliveries, NEW o \in Orgs, Enqueue(d, o) PROVE Owned'
  BY <1>0, <1>1 DEF Enqueue, Owned, TypeOK
<1>2. ASSUME NEW w \in Workers, Commit(w) PROVE Owned'
  <2>1. \A d \in Deliveries : d \in batch[w] => status[d] = "pending"
    BY <1>0 DEF Locked
  <2> QED BY <1>0, <1>2, <2>1, CommitCounts DEF Commit, Owned
<1>3. ASSUME UNCHANGED <<status, owner>> PROVE Owned'
  BY <1>3 DEF Owned
<1>4. ASSUME NEW w \in Workers, Take(w) \/ Rollback(w) PROVE Owned'
  BY <1>3, <1>4 DEF Take, Rollback, table
<1>5. ASSUME NEW w \in Workers, NEW d \in Deliveries, Post(w, d) \/ Unconfigured(w, d) PROVE Owned'
  BY <1>3, <1>5 DEF Post, Unconfigured, table
<1>6. CASE \/ Tick \/ UNCHANGED vars \/ \E d \in Deliveries : Arrive(d)
           \/ \E o \in Orgs, u \in Urls : Configure(o, u)
  BY <1>3, <1>6 DEF Tick, Configure, Arrive, vars, table
<1> QED BY <1>1, <1>2, <1>4, <1>5, <1>6 DEF Next, Work, Sleep, Raise, Crash

(* Where every webhook_url parses, only the end of a worker loses records, *)
(* and it loses at most one of each row.                                   *)
LEMMA LossStep == IInv /\ Owned /\ Losses /\ [Next]_vars => Losses'
<1> SUFFICES ASSUME IInv, Owned, Losses, [Next]_vars, "invalid" \notin Urls,
                    NEW d \in Deliveries
             PROVE  rollbacks'[d] <= crashes'
  BY DEF Losses
<1>0. TypeOK
  BY DEF IInv
<1>n. rollbacks[d] \in Nat /\ crashes \in Nat /\ rollbacks[d] <= crashes
  BY <1>0 DEF TypeOK, Losses
<1>1. ASSUME NEW w \in Workers, Raise(w) PROVE FALSE
  <2>1. PICK e \in batch[w] : loaded[w][owner[e]] = "invalid"
    BY <1>1 DEF Raise, Poisoned
  <2>2. owner[e] \in Orgs
    <3>1. e \in Deliveries /\ loaded[w] \in [Orgs -> Urls \cup {"none"}]
      BY <1>0 DEF TypeOK
    <3>2. status[e] = "pending"
      BY DEF IInv, Locked
    <3> QED BY <3>1, <3>2 DEF Owned
  <2> QED BY <1>0, <2>1, <2>2 DEF TypeOK
<1>2. ASSUME NEW w \in Workers, Crash(w) PROVE rollbacks'[d] <= crashes'
  BY <1>n, <1>2 DEF Crash, Rollback
<1>3. ASSUME UNCHANGED <<rollbacks, crashes>> PROVE rollbacks'[d] <= crashes'
  BY <1>n, <1>3
<1>4. ASSUME NEW w \in Workers, Take(w) \/ Commit(w) PROVE rollbacks'[d] <= crashes'
  BY <1>3, <1>4 DEF Take, Commit, history
<1>5. ASSUME NEW w \in Workers, NEW e \in Deliveries, Post(w, e) \/ Unconfigured(w, e)
      PROVE  rollbacks'[d] <= crashes'
  BY <1>3, <1>5 DEF Post, Unconfigured, history
<1>6. CASE \/ Tick \/ UNCHANGED vars
           \/ \E o \in Orgs, u \in Urls : Configure(o, u)
           \/ \E e \in Deliveries : Arrive(e) \/ \E o \in Orgs : Enqueue(e, o)
  BY <1>3, <1>6 DEF Tick, Configure, Arrive, Enqueue, history, vars
<1> QED BY <1>1, <1>2, <1>4, <1>5, <1>6 DEF Next, Work, Sleep

LEMMA LossesAlways == Spec => [](Owned /\ Losses)
<1>1. Init => Owned /\ Losses
  BY DEF Init, Owned, Losses
<1> QED BY <1>1, OwnedStep, LossStep, IInvAlways, PTL DEF Spec

(* A partner has got one event, or may still get it, at most MaxAttempts   *)
(* times plus once for every record of a request that was lost; where every*)
(* webhook_url parses, that is at most once for every worker that died,    *)
(* however many workers and events there are, and so never more than       *)
(* MaxAttempts times while none dies.                                      *)
THEOREM DuplicatesBounded ==
  Spec => [](\A d \in Deliveries :
               /\ received[d] + astray[d] <= MaxAttempts + rollbacks[d]
               /\ "invalid" \notin Urls => received[d] + astray[d] <= MaxAttempts + crashes)
<1>1. IInv /\ Owned /\ Losses =>
        \A d \in Deliveries :
          /\ received[d] + astray[d] <= MaxAttempts + rollbacks[d]
          /\ "invalid" \notin Urls => received[d] + astray[d] <= MaxAttempts + crashes
  <2> SUFFICES ASSUME IInv, Losses, NEW d \in Deliveries
               PROVE  /\ received[d] + astray[d] <= MaxAttempts + rollbacks[d]
                      /\ "invalid" \notin Urls => received[d] + astray[d] <= MaxAttempts + crashes
    OBVIOUS
  <2>1. /\ received[d] \in Nat /\ astray[d] \in Nat /\ rollbacks[d] \in Nat /\ crashes \in Nat
        /\ attempts[d] \in 0 .. MaxAttempts
    BY DEF IInv, TypeOK
  <2>2. received[d] + astray[d] <= attempts[d] + rollbacks[d] + UnderWay(d)
    BY DEF IInv, DuplicatesExplained
  <2>3. attempts[d] + UnderWay(d) <= MaxAttempts
    <3>1. CASE UnderWay(d) = 0
      BY <2>1, <3>1
    <3>2. CASE UnderWay(d) # 0
      <4>1. PICK w \in Workers : result[w][d] # "none"
        BY <3>2 DEF UnderWay, Posted
      <4>2. status[d] = "pending"
        BY <4>1 DEF IInv, Answered, Locked
      <4>3. attempts[d] < MaxAttempts /\ UnderWay(d) = 1
        BY <3>2, <4>2 DEF IInv, AttemptsAccounted, UnderWay
      <4> QED BY <2>1, <4>3
    <3> QED BY <3>1, <3>2
  <2>4. UnderWay(d) \in {0, 1}
    BY DEF UnderWay
  <2>5. received[d] + astray[d] <= MaxAttempts + rollbacks[d]
    <3> DEFINE u == UnderWay(d)
    <3>1. /\ u \in {0, 1} /\ attempts[d] + u <= MaxAttempts
          /\ received[d] + astray[d] <= attempts[d] + rollbacks[d] + u
      BY <2>2, <2>3, <2>4
    <3> HIDE DEF u
    <3> QED BY <2>1, <3>1
  <2> QED BY <2>1, <2>5 DEF Losses
<1> QED BY <1>1, IInvAlways, LossesAlways, PTL

-----------------------------------------------------------------------------
(* Time: when a row is tried again                                         *)

(* The clock of a worker is never ahead of the database's, and no row is   *)
(* postponed beyond the longest backoff.                                   *)
Timed ==
  /\ \A w \in Workers : takenAt[w] <= now
  /\ \A d \in Deliveries : status[d] = "pending" => due[d] <= now + MaxBackoff

LEMMA BackoffBounded == ASSUME NEW n \in Nat \ {0} PROVE Backoff(n) <= MaxBackoff
<1>1. 4 ^ (n - 1) \in Int
  BY SMT
<1> QED BY <1>1, SMT DEF Backoff

LEMMA TimedStep == IInv /\ Timed /\ [Next]_vars => Timed'
<1> SUFFICES ASSUME IInv, Timed, [Next]_vars PROVE Timed'
  OBVIOUS
<1>0. TypeOK /\ Locked
  BY DEF IInv
<1>n. now \in Nat /\ (\A d \in Deliveries : due[d] \in Int) /\ \A w \in Workers : takenAt[w] \in Nat
  BY <1>0 DEF TypeOK
<1>1. CASE Tick
  <2>1. now' \in Int /\ now' > now /\ UNCHANGED <<takenAt, status, due>>
    BY <1>n, <1>1 DEF Tick, memory, table
  <2> QED BY <1>n, <2>1 DEF Timed
<1>2. ASSUME NEW d \in Deliveries, NEW o \in Orgs, Enqueue(d, o) PROVE Timed'
  BY <1>0, <1>n, <1>2 DEF Enqueue, Timed, TypeOK, memory
<1>3. ASSUME NEW w \in Workers, Take(w) PROVE Timed'
  BY <1>0, <1>n, <1>3 DEF Take, Timed, TypeOK, table
<1>4. ASSUME NEW w \in Workers, Forget(w), now' = now
      PROVE  \A v \in Workers : takenAt'[v] <= now'
  BY <1>0, <1>n, <1>4 DEF Forget, Timed, TypeOK
<1>5. ASSUME NEW w \in Workers, Rollback(w) PROVE Timed'
  BY <1>4, <1>5 DEF Rollback, Timed, table
<1>6. ASSUME NEW w \in Workers, Commit(w) PROVE Timed'
  <2>1. \A v \in Workers : takenAt'[v] <= now'
    BY <1>4, <1>6 DEF Commit
  <2>2. ASSUME NEW d \in Deliveries, status'[d] = "pending" PROVE due'[d] <= now' + MaxBackoff
    <3>1. now' = now
      BY <1>6 DEF Commit
    <3>2. CASE d \in batch[w]
      <4> DEFINE b == Backoff(Counted(w, d))
      <4>1. Counted(w, d) \in Nat \ {0}
        BY <1>0 DEF Counted, TypeOK
      <4>2. b \in Int /\ b <= MaxBackoff
        BY <4>1, BackoffType, BackoffBounded
      <4>3. due'[d] = takenAt[w] + b
        BY <1>0, <1>6, <2>2, <3>2, CommitCounts DEF Commit
      <4> HIDE DEF b
      <4> QED BY <1>n, <3>1, <4>2, <4>3 DEF Timed
    <3>3. CASE d \notin batch[w]
      <4>1. due'[d] = due[d] /\ status[d] = "pending"
        BY <1>6, <2>2, <3>3 DEF Commit
      <4> QED BY <3>1, <4>1 DEF Timed
    <3> QED BY <3>2, <3>3
  <2> QED BY <2>1, <2>2 DEF Timed
<1>7. ASSUME UNCHANGED <<now, takenAt, status, due>> PROVE Timed'
  BY <1>7 DEF Timed
<1>8. ASSUME NEW w \in Workers, NEW d \in Deliveries, Post(w, d) \/ Unconfigured(w, d) PROVE Timed'
  BY <1>7, <1>8 DEF Post, Unconfigured, table
<1>9. CASE \/ UNCHANGED vars \/ \E d \in Deliveries : Arrive(d)
           \/ \E o \in Orgs, u \in Urls : Configure(o, u)
  BY <1>7, <1>9 DEF Configure, Arrive, memory, table, vars
<1> QED BY <1>1, <1>2, <1>3, <1>5, <1>6, <1>8, <1>9 DEF Next, Work, Sleep, Raise, Crash

(* Until it is settled, a row is due again within the longest backoff,     *)
(* whoever took it and for however long: the next attempt is timed from    *)
(* the start of the pass, which is never later than now.                   *)
THEOREM DueSoon == Spec => [](\A d \in Deliveries : status[d] = "pending" => due[d] <= now + MaxBackoff)
<1>1. Init => Timed
  BY DEF Init, Timed
<1>2. Timed => \A d \in Deliveries : status[d] = "pending" => due[d] <= now + MaxBackoff
  BY DEF Timed
<1> QED BY <1>1, <1>2, TimedStep, IInvAlways, PTL DEF Spec
=============================================================================
