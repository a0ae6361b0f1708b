---------------------------- MODULE WebhookOutbox ----------------------------
(***************************************************************************)
(* The webhook outbox of services/webhooks.py: rows of webhook_deliveries  *)
(* written by enqueue() in a caller's transaction and sent by              *)
(* deliver_due(), which the background loop of every API worker runs.      *)
(*                                                                         *)
(* A worker takes a batch of due rows with SELECT ... FOR UPDATE SKIP      *)
(* LOCKED, together with their organizations as they are at that moment;   *)
(* posts them concurrently; and records all results in one commit.  An     *)
(* exception or the end of the process rolls everything back: the rows are *)
(* free and look untouched, whatever the partner received.  A request      *)
(* nobody waits for any more may still reach the partner, whatever became  *)
(* of its row.                                                             *)
(*                                                                         *)
(* The clock jumps from one due time to the next: nothing else compares    *)
(* with it.                                                                *)
(***************************************************************************)
EXTENDS Integers, FiniteSets

CONSTANTS
  Deliveries,    \* webhook_deliveries rows
  Orgs,          \* organizations
  Workers,       \* background loops
  Nobody,        \* the holder of an unlocked row, the owner of an absent one
  Urls,          \* what webhook_url can be: "none", "good", "invalid"
  BatchSize,     \* _BATCH_SIZE
  MaxAttempts,   \* settings.webhook_max_attempts
  BaseBackoff,   \* the first backoff, 30 s
  MaxBackoff,    \* _MAX_BACKOFF_S
  MaxChanges,    \* bound: changes of a webhook_url
  MaxCrashes,    \* bound: workers killed while they hold a batch
  MaxStrays      \* bound: a row's requests that outlive their worker's batch

ASSUME Names == Nobody \notin Workers \cup Orgs /\ Urls \subseteq {"none", "good", "invalid"}
ASSUME Numbers ==
  /\ BatchSize \in Nat \ {0} /\ MaxAttempts \in Nat \ {0} /\ BaseBackoff \in Nat
  /\ MaxBackoff \in Nat /\ MaxChanges \in Nat /\ MaxCrashes \in Nat /\ MaxStrays \in Nat

VARIABLES
  now,        \* the clock
  \* the database
  url,        \* organizations.webhook_url ("none" also without a secret)
  status, owner, attempts, due,   \* webhook_deliveries; due is next_attempt_at
  held,       \* which worker has locked the row
  \* workers
  batch,      \* the rows it works on
  loaded,     \* webhook_url of the organizations when it took them
  takenAt,    \* when it took them
  result,     \* what came of each attempt: "none" yet, or one of Results
  \* partners
  received,   \* how often a row's POST was processed
  astray,     \* a row's POSTs that may still be, though nobody waits for them
  \* bounds and history
  changes, crashes,
  rollbacks   \* how often a row was released with a POST and no record of it

table   == <<status, owner, attempts, due>>
memory  == <<batch, loaded, takenAt, result>>
partner == <<received, astray>>
history == <<changes, crashes, rollbacks>>
vars    == <<now, url, table, held, memory, partner, history>>

Init ==
  /\ now = 0
  /\ url \in [Orgs -> Urls]
  /\ status = [d \in Deliveries |-> "absent"]
  /\ owner = [d \in Deliveries |-> Nobody]
  /\ attempts = [d \in Deliveries |-> 0]
  /\ due = [d \in Deliveries |-> 0]
  /\ held = [d \in Deliveries |-> Nobody]
  /\ batch = [w \in Workers |-> {}]
  /\ loaded = [w \in Workers |-> [o \in Orgs |-> "none"]]
  /\ takenAt = [w \in Workers |-> 0]
  /\ result = [w \in Workers |-> [d \in Deliveries |-> "none"]]
  /\ received = [d \in Deliveries |-> 0]
  /\ astray = [d \in Deliveries |-> 0]
  /\ changes = 0 /\ crashes = 0
  /\ rollbacks = [d \in Deliveries |-> 0]

(* min(30 * 4 ** (attempts - 1), _MAX_BACKOFF_S)                           *)
Backoff(n) == IF BaseBackoff * 4 ^ (n - 1) < MaxBackoff THEN BaseBackoff * 4 ^ (n - 1) ELSE MaxBackoff

-----------------------------------------------------------------------------
(* Mutations of the operators below: SKIP LOCKED forgotten, one attempt too*)
(* many, every answer taken for a success, settled rows taken again, a     *)
(* claim that outlives its worker, successful attempts not counted.        *)
AnyRow(d) == TRUE
ExhaustedLate(n) == n > MaxAttempts
AnyAnswer(w, d) == result[w][d] # "none"
InAnyStatus(d) == status[d] # "absent"
KeepClaim(w) == held
Uncounted(w, d) == IF result[w][d] = "accepted" THEN attempts[d] ELSE attempts[d] + 1

Unlocked(d) == held[d] = Nobody
Pending(d) == status[d] = "pending"
Exhausted(n) == n >= MaxAttempts
Succeeded(w, d) == result[w][d] = "accepted"
Counted(w, d) == attempts[d] + 1
ReleasedBy(w) == [d \in Deliveries |-> IF held[d] = w THEN Nobody ELSE held[d]]

-----------------------------------------------------------------------------
(* The clock reaches the next due time.                                    *)
Tick ==
  /\ \E d \in Deliveries :
       /\ Pending(d) /\ due[d] > now
       /\ \A e \in Deliveries : Pending(e) /\ due[e] > now => due[d] <= due[e]
       /\ now' = due[d]
  /\ UNCHANGED <<url, table, held, memory, partner, history>>

(* update_organization sets or clears webhook_url, unchecked.              *)
Configure(o, u) ==
  /\ changes < MaxChanges /\ u # url[o]
  /\ url' = [url EXCEPT ![o] = u]
  /\ changes' = changes + 1
  /\ UNCHANGED <<now, table, held, memory, partner, crashes, rollbacks>>

(* enqueue and the caller's commit; a no-op without a webhook              *)
Enqueue(d, o) ==
  /\ status[d] = "absent" /\ url[o] # "none"
  /\ status' = [status EXCEPT ![d] = "pending"]
  /\ owner' = [owner EXCEPT ![d] = o]
  /\ due' = [due EXCEPT ![d] = now]
  /\ UNCHANGED <<now, url, attempts, held, memory, partner, history>>

Available == {d \in Deliveries : Pending(d) /\ due[d] <= now /\ Unlocked(d)}

(* deliver_due: the query, the rows due longest first                      *)
Take(w) ==
  /\ batch[w] = {} /\ Available # {}
  /\ \E B \in SUBSET Available :
       /\ B # {}
       /\ Cardinality(B) = BatchSize \/ (B = Available /\ Cardinality(B) < BatchSize)
       /\ \A d \in B, e \in Available \ B : due[d] <= due[e]
       /\ batch' = [batch EXCEPT ![w] = B]
       /\ held' = [d \in Deliveries |-> IF d \in B THEN w ELSE held[d]]
  /\ loaded' = [loaded EXCEPT ![w] = url]
  /\ takenAt' = [takenAt EXCEPT ![w] = now]
  /\ UNCHANGED <<now, url, table, result, partner, history>>

(* Nothing due: the loop sleeps.                                           *)
Sleep(w) ==
  /\ batch[w] = {} /\ Available = {}
  /\ UNCHANGED vars

Posted  == {"accepted", "refused"}
Results == {"none", "skipped"} \cup Posted

Answer(w, d, r) == result' = [result EXCEPT ![w][d] = r]

(* gather starts every attempt before any of them waits, and httpx raises  *)
(* InvalidURL at once.                                                     *)
Poisoned(w) == \E d \in batch[w] : loaded[w][owner[d]] = "invalid"

(* _attempt: the partner processes the request and its 2xx answer arrives; *)
(* or another answer, an error or the timeout, and the request may have    *)
(* been processed, may yet be, or never.                                   *)
Post(w, d) ==
  /\ d \in batch[w] /\ result[w][d] = "none" /\ loaded[w][owner[d]] = "good" /\ ~Poisoned(w)
  /\ \/ /\ Answer(w, d, "accepted")
        /\ received' = [received EXCEPT ![d] = @ + 1] /\ UNCHANGED astray
     \/ /\ Answer(w, d, "refused")
        /\ astray' = [astray EXCEPT ![d] = @ + 1] /\ UNCHANGED received
  /\ UNCHANGED <<now, url, table, held, batch, loaded, takenAt, history>>

(* The partner processes a request whose sender has given up or is gone.   *)
Arrive(d) ==
  /\ astray[d] > 0
  /\ astray' = [astray EXCEPT ![d] = @ - 1]
  /\ received' = [received EXCEPT ![d] = @ + 1]
  /\ UNCHANGED <<now, url, table, held, memory, history>>

(* _attempt: the webhook is no longer configured                           *)
Unconfigured(w, d) ==
  /\ d \in batch[w] /\ result[w][d] = "none" /\ loaded[w][owner[d]] = "none"
  /\ Answer(w, d, "skipped")
  /\ UNCHANGED <<now, url, table, held, batch, loaded, takenAt, partner, history>>

Forget(w) ==
  /\ batch' = [batch EXCEPT ![w] = {}]
  /\ loaded' = [loaded EXCEPT ![w] = [o \in Orgs |-> "none"]]
  /\ takenAt' = [takenAt EXCEPT ![w] = 0]
  /\ result' = [result EXCEPT ![w] = [d \in Deliveries |-> "none"]]

(* What was sent and not answered may go on without its worker: its        *)
(* connection is still open in the process, or read by the partner.        *)
Unanswered(w) ==
  {d \in batch[w] : result[w][d] = "none" /\ loaded[w][owner[d]] = "good" /\ rollbacks[d] < MaxStrays}

Rollback(w) ==
  /\ \E S \in SUBSET Unanswered(w) :
       /\ astray' = [d \in Deliveries |-> IF d \in S THEN astray[d] + 1 ELSE astray[d]]
       /\ rollbacks' = [d \in Deliveries |->
                          rollbacks[d] + (IF d \in S \/ result[w][d] \in Posted THEN 1 ELSE 0)]
  /\ held' = ReleasedBy(w)
  /\ Forget(w)
  /\ UNCHANGED <<now, url, table, received, changes>>

(* _attempt: a URL httpx cannot parse raises InvalidURL, which is not an   *)
(* HTTPError; gather raises it, without cancelling the other attempts, and *)
(* the session closes without a commit.                                    *)
Raise(w) ==
  /\ Poisoned(w)
  /\ Rollback(w)
  /\ UNCHANGED crashes

Crash(w) ==
  /\ batch[w] # {} /\ crashes < MaxCrashes
  /\ crashes' = crashes + 1
  /\ Rollback(w)

(* The status of d, which was answered, when w commits                     *)
Settled(w, d) ==
  IF Succeeded(w, d) THEN "delivered"
  ELSE IF Exhausted(Counted(w, d)) THEN "failed" ELSE "pending"

(* All attempts returned: one commit records them.                         *)
Commit(w) ==
  LET B == batch[w] IN
  /\ B # {} /\ \A d \in B : result[w][d] # "none"
  /\ attempts' = [d \in Deliveries |-> IF d \in B THEN Counted(w, d) ELSE attempts[d]]
  /\ status' = [d \in Deliveries |-> IF d \in B THEN Settled(w, d) ELSE status[d]]
  /\ due' = [d \in Deliveries |->
               IF d \in B /\ Settled(w, d) = "pending"
               THEN takenAt[w] + Backoff(Counted(w, d)) ELSE due[d]]
  /\ held' = ReleasedBy(w)
  /\ Forget(w)
  /\ UNCHANGED <<now, url, owner, partner, history>>

Work(w) ==
  \/ Take(w) \/ Commit(w) \/ Raise(w)
  \/ \E d \in Deliveries : Post(w, d) \/ Unconfigured(w, d)

Next ==
  \/ Tick
  \/ \E o \in Orgs : \E u \in Urls : Configure(o, u)
  \/ \E d \in Deliveries : Arrive(d) \/ \E o \in Orgs : Enqueue(d, o)
  \/ \E w \in Workers : Work(w) \/ Sleep(w) \/ Crash(w)

Spec == Init /\ [][Next]_vars

(* Time passes and every loop goes on; a POST returns because of the       *)
(* client's timeout.  Nothing is assumed of partners.                      *)
Fairness == WF_vars(Tick) /\ \A w \in Workers : WF_vars(Work(w))

FairSpec == Spec /\ Fairness

-----------------------------------------------------------------------------
(* Properties                                                              *)

Statuses == {"absent", "pending", "delivered", "failed"}

(* Types; nobody works on a row that is not there                          *)
TypeOK ==
  /\ now \in Nat
  /\ url \in [Orgs -> Urls]
  /\ status \in [Deliveries -> Statuses]
  /\ owner \in [Deliveries -> Orgs \cup {Nobody}]
  /\ attempts \in [Deliveries -> 0 .. MaxAttempts]
  /\ due \in [Deliveries -> Int]
  /\ held \in [Deliveries -> Workers \cup {Nobody}]
  /\ batch \in [Workers -> SUBSET Deliveries]
  /\ loaded \in [Workers -> [Orgs -> Urls \cup {"none"}]]
  /\ takenAt \in [Workers -> Nat]
  /\ result \in [Workers -> [Deliveries -> Results]]
  /\ received \in [Deliveries -> Nat] /\ astray \in [Deliveries -> Nat]
  /\ changes \in Nat /\ crashes \in Nat
  /\ rollbacks \in [Deliveries -> Nat]

(* "SKIP LOCKED lets many workers share the queue without double-sending": *)
(* two workers never work on one row, and only on pending rows they hold.  *)
DisjointBatches ==
  \A w \in Workers : \A d \in batch[w] :
    /\ held[d] = w /\ status[d] = "pending"
    /\ \A v \in Workers \ {w} : d \notin batch[v]

(* The number of attempts and the status tell one story: pending rows have *)
(* attempts left, failed rows have used all of them.                       *)
AttemptsAccounted ==
  \A d \in Deliveries :
    /\ status[d] = "pending" => attempts[d] < MaxAttempts
    /\ status[d] = "failed" => attempts[d] = MaxAttempts
    /\ status[d] = "absent" => attempts[d] = 0

(* At-least-once, but not more often than explained: the partner has got   *)
(* an event, or may still get it, at most once per recorded attempt, once  *)
(* for the one under way, and once for each time a worker lost its record  *)
(* of a request that was sent.                                             *)
UnderWay(d) == IF \E w \in Workers : result[w][d] \in Posted THEN 1 ELSE 0
DuplicatesExplained ==
  \A d \in Deliveries : received[d] + astray[d] <= attempts[d] + rollbacks[d] + UnderWay(d)

(* A settled row is never sent, counted or settled again: what its partner *)
(* still receives was sent before.                                         *)
SettledForGood ==
  [][\A d \in Deliveries : status[d] \in {"delivered", "failed"} =>
       /\ status'[d] = status[d] /\ attempts'[d] = attempts[d]
       /\ received'[d] + astray'[d] = received[d] + astray[d]]_vars

(* Delivered means received, settled means once: the outbox implements     *)
(* EventDelivery.                                                          *)
Promise == INSTANCE EventDelivery
KeepsPromise == Promise!Spec

(* Every queued event is delivered or, after the last attempt, failed,     *)
(* whatever its partner does and whoever crashes, unless some organization *)
(* has a webhook_url that cannot be parsed.                                *)
Closed(d) == status[d] \in {"delivered", "failed"}
SettlesUnlessPoisoned ==
  \A d \in Deliveries :
    status[d] = "pending" ~> Closed(d) \/ \E o \in Orgs : url[o] = "invalid"

(* README: events are "delivered with retries (30 s -> 6 h backoff, 8      *)
(* attempts, ~17 h).  Failed rows stay in the table": no exception.        *)
EverySettles == \A d \in Deliveries : status[d] = "pending" ~> Closed(d)

(* config.py: "Backoff between attempts: 30s, 2m, 8m, 32m, ~2h, then every *)
(* 6h (~17h total)": a row is not given up before 16 and a half hours.     *)
RetriesLastSeventeenHours ==
  \A d \in Deliveries : status[d] = "failed" => now >= 33 * 1800
=============================================================================
