--------------------------- MODULE LoginThrottle ---------------------------
(***************************************************************************)
(* The throttle of failed sign-ins, for the admin panel (routers/auth.py,  *)
(* counters per client address and per e-mail) and for the docs (docs.py,  *)
(* per address).  An attempt reads its counters, then checks the password, *)
(* then counts or clears: other attempts come in between.                  *)
(*                                                                         *)
(* Time is counted in steps of a few minutes.                              *)
(***************************************************************************)
EXTENDS Integers, FiniteSets

CONSTANTS
  Clients,       \* attempts at a time
  Counters,      \* Redis keys
  Logins,        \* the sets of counters one attempt has
  MaxFailures,   \* _LOGIN_MAX_FAILURES, _MAX_FAILED_ATTEMPTS
  FailWindow,    \* _LOGIN_WINDOW_S, _FAILED_WINDOW_S
  MaxWait,       \* bound: how long an attempt may take
  MaxClock, MaxAttempts   \* bounds

ASSUME LoginNumbers ==
  /\ IsFiniteSet(Clients) /\ Logins \subseteq SUBSET Counters
  /\ MaxFailures \in Nat \ {0} /\ FailWindow \in Nat \ {0} /\ MaxWait \in Nat
  /\ MaxClock \in Nat /\ MaxAttempts \in Nat

VARIABLES
  clock,
  fails, until,   \* a counter and when it expires
  checking,       \* the counters of an attempt past the check; {}: none
  start,          \* when it passed
  attempts,       \* bound: attempts so far
  full            \* history: when a counter last reached MaxFailures

loginVars == <<clock, fails, until, checking, start, attempts, full>>

LoginInit ==
  /\ clock = 0 /\ attempts = 0
  /\ fails = [k \in Counters |-> 0] /\ until = [k \in Counters |-> 0]
  /\ full = [k \in Counters |-> 0]
  /\ checking = [c \in Clients |-> {}] /\ start = [c \in Clients |-> 0]

Failed(k) == IF clock < until[k] THEN fails[k] ELSE 0

Blocked(k) == Failed(k) >= MaxFailures

(* Mutations: one failure too many, all counters must block, two failures  *)
(* counted for one.                                                        *)
TooLate(K) == \E k \in K : Failed(k) > MaxFailures
AllBlock(K) == \A k \in K : Blocked(k)
Twice(n) == n + 2

Refused(K) == \E k \in K : Blocked(k)
Incr(n) == n + 1

LoginTick ==
  /\ clock < MaxClock
  /\ \A c \in Clients : checking[c] # {} => clock < start[c] + MaxWait
  /\ clock' = clock + 1
  /\ UNCHANGED <<fails, until, checking, start, attempts, full>>

(* MGET; with a blocked counter the answer is 429 and nothing changes.     *)
Try(c, K) ==
  /\ checking[c] = {} /\ attempts < MaxAttempts
  /\ ~Refused(K)
  /\ checking' = [checking EXCEPT ![c] = K] /\ start' = [start EXCEPT ![c] = clock]
  /\ attempts' = attempts + 1
  /\ UNCHANGED <<clock, fails, until, full>>

Done(c) ==
  /\ checking[c] # {}
  /\ checking' = [checking EXCEPT ![c] = {}] /\ start' = [start EXCEPT ![c] = 0]

(* 401: INCR and EXPIRE of all counters in one transaction                 *)
WrongPassword(c) ==
  /\ Done(c)
  /\ fails' = [k \in Counters |-> IF k \in checking[c] THEN Incr(Failed(k)) ELSE fails[k]]
  /\ until' = [k \in Counters |-> IF k \in checking[c] THEN clock + FailWindow ELSE until[k]]
  /\ full' = [k \in Counters |-> IF k \in checking[c] /\ Failed(k) < MaxFailures
                                    /\ Incr(Failed(k)) >= MaxFailures THEN clock ELSE full[k]]
  /\ UNCHANGED <<clock, attempts>>

(* DEL of all counters                                                     *)
RightPassword(c) ==
  /\ Done(c)
  /\ fails' = [k \in Counters |-> IF k \in checking[c] THEN 0 ELSE fails[k]]
  /\ until' = [k \in Counters |-> IF k \in checking[c] THEN 0 ELSE until[k]]
  /\ UNCHANGED <<clock, attempts, full>>

(* The worker stops, or the database does not answer.                      *)
LoseAttempt(c) ==
  /\ Done(c)
  /\ UNCHANGED <<clock, fails, until, attempts, full>>

LoginNext ==
  \/ LoginTick
  \/ \E c \in Clients :
       \/ WrongPassword(c) \/ RightPassword(c) \/ LoseAttempt(c)
       \/ \E K \in Logins : Try(c, K)

LoginSpec == LoginInit /\ [][LoginNext]_loginVars

-----------------------------------------------------------------------------
(* Properties                                                              *)

Checking(k) == {c \in Clients : k \in checking[c]}

(* Types; a counter never exceeds the attempts made.                       *)
LoginTypes ==
  /\ clock \in 0 .. MaxClock /\ attempts \in 0 .. MaxAttempts
  /\ fails \in [Counters -> 0 .. attempts] /\ until \in [Counters -> Nat]
  /\ checking \in [Clients -> SUBSET Counters]
  /\ start \in [Clients -> 0 .. MaxClock] /\ full \in [Counters -> 0 .. MaxClock]

(* Attempts that run together all pass the check; still no counter goes    *)
(* further beyond its limit than they are many, whatever else is counted,  *)
(* cleared or expires.                                                     *)
FailuresBounded == \A k \in Counters : Failed(k) < MaxFailures + Cardinality(Clients)

(* "Try again in 15 minutes": a counter that blocks expires a window after *)
(* it filled up, plus the time of the attempts then under way; nobody who  *)
(* keeps trying, or tries with another e-mail, prolongs it.                *)
LockoutEnds ==
  \A k \in Counters : Blocked(k) => until[k] <= full[k] + MaxWait + FailWindow
=============================================================================
