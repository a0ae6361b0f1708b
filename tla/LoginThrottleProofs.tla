------------------------ MODULE LoginThrottleProofs ------------------------
(***************************************************************************)
(* LoginThrottle for any number of clients, counters and limits.  Each     *)
(* attempt that passed the check may add one failure: the invariant counts *)
(* failures and attempts under way together.  An attempt under way passed  *)
(* the check before its counter filled up.                                 *)
(***************************************************************************)
EXTENDS LoginThrottle, FiniteSetTheorems, TLAPS

Room == \A k \in Counters :
  /\ Failed(k) + Cardinality(Checking(k)) < MaxFailures + Cardinality(Clients)
  /\ fails[k] + Cardinality(Checking(k)) <= attempts

Before ==
  \A c \in Clients, k \in Counters : k \in checking[c] =>
    /\ start[c] <= clock /\ clock <= start[c] + MaxWait
    /\ Blocked(k) => start[c] <= full[k]

LoginInv == LoginTypes /\ Room /\ Before /\ LockoutEnds

(* Another attempt on k, or one less, changes their number by one.         *)
LEMMA CheckingCounts ==
  ASSUME NEW k, NEW c \in Clients
  PROVE  /\ Cardinality(Clients) \in Nat /\ Cardinality(Checking(k)) \in Nat
         /\ Cardinality(Checking(k)) <= Cardinality(Clients)
         /\ c \notin Checking(k) => Cardinality(Checking(k)) < Cardinality(Clients)
         /\ c \notin Checking(k) => Cardinality(Checking(k) \cup {c}) = Cardinality(Checking(k)) + 1
         /\ c \in Checking(k) => Cardinality(Checking(k) \ {c}) = Cardinality(Checking(k)) - 1
<1>1. IsFiniteSet(Clients) /\ Checking(k) \subseteq Clients
  BY LoginNumbers DEF Checking
<1>2. IsFiniteSet(Checking(k)) /\ Cardinality(Checking(k)) \in Nat /\ Cardinality(Clients) \in Nat
  BY <1>1, FS_Subset, FS_CardinalityType
<1>3. Cardinality(Checking(k)) <= Cardinality(Clients)
  BY <1>1, FS_Subset
<1>4. c \notin Checking(k) => Cardinality(Checking(k)) < Cardinality(Clients)
  <2> SUFFICES ASSUME c \notin Checking(k) PROVE Cardinality(Checking(k)) < Cardinality(Clients)
    OBVIOUS
  <2>1. Checking(k) # Clients
    OBVIOUS
  <2> QED BY <1>1, <1>2, <1>3, <2>1, FS_Subset
<1> QED BY <1>1, <1>2, <1>3, <1>4, FS_AddElement, FS_RemoveElement

(* Nobody has tried.                                                       *)
LEMMA LoginInvInit == LoginInit => LoginInv
<1> SUFFICES ASSUME LoginInit PROVE LoginInv
  OBVIOUS
<1>1. \A k \in Counters : Checking(k) = {}
  BY DEF LoginInit, Checking
<1>2. Cardinality({}) = 0 /\ Cardinality(Clients) \in Nat
  BY FS_EmptySet, FS_CardinalityType, LoginNumbers
<1>3. LoginTypes
  BY LoginNumbers DEF LoginInit, LoginTypes
<1>4. \A k \in Counters : Failed(k) = 0 /\ fails[k] = 0 /\ attempts = 0
  BY DEF LoginInit, Failed
<1>5. Room
  <2> SUFFICES ASSUME NEW k \in Counters
               PROVE  /\ Failed(k) + Cardinality(Checking(k)) < MaxFailures + Cardinality(Clients)
                      /\ fails[k] + Cardinality(Checking(k)) <= attempts
    BY DEF Room
  <2>1. Cardinality(Checking(k)) = 0
    BY <1>1, <1>2
  <2> QED BY <2>1, <1>2, <1>4, LoginNumbers
<1>6. Before /\ LockoutEnds
  BY <1>4, LoginNumbers DEF Before, LockoutEnds, Blocked, LoginInit
<1> QED BY <1>3, <1>5, <1>6 DEF LoginInv

(* The counters are natural numbers, and Failed(k) is fails[k] or 0.       *)
LEMMA FailedIs ==
  ASSUME LoginTypes, NEW k \in Counters
  PROVE  /\ Failed(k) \in Nat /\ fails[k] \in Nat /\ attempts \in Nat /\ clock \in Nat
         /\ until[k] \in Nat /\ full[k] \in Nat /\ Failed(k) <= fails[k]
         /\ Failed(k) = IF clock < until[k] THEN fails[k] ELSE 0
<1>1. fails[k] \in 0 .. attempts /\ attempts \in Nat /\ clock \in Nat /\ until[k] \in Nat /\ full[k] \in Nat
  BY LoginNumbers DEF LoginTypes
<1> QED BY <1>1 DEF Failed

(* What an attempt that starts or ends does to the sets of those under way *)
LEMMA CheckingNext ==
  ASSUME LoginTypes, NEW c \in Clients, NEW k \in Counters
  PROVE  /\ \A K \in Logins : Try(c, K) =>
               c \notin Checking(k) /\ Checking(k)' = IF k \in K THEN Checking(k) \cup {c} ELSE Checking(k)
         /\ Done(c) => IF k \in checking[c] THEN c \in Checking(k) /\ Checking(k)' = Checking(k) \ {c}
                        ELSE Checking(k)' = Checking(k)
BY LoginNumbers DEF Checking, Try, Done, LoginTypes

(* Every step keeps the types, given that failures stay within attempts.   *)
LEMMA LoginTypesStep == LoginInv /\ [LoginNext]_loginVars => LoginTypes'
<1> SUFFICES ASSUME LoginInv, [LoginNext]_loginVars PROVE LoginTypes'
  OBVIOUS
<1> USE DEF LoginInv
<1>1. CASE LoginTick
  BY <1>1, LoginNumbers DEF LoginTick, LoginTypes
<1>2. ASSUME NEW c \in Clients, NEW K \in Logins, Try(c, K) PROVE LoginTypes'
  BY <1>2, LoginNumbers DEF Try, LoginTypes
<1>3. ASSUME NEW c \in Clients, WrongPassword(c) PROVE LoginTypes'
  <2>1. ASSUME NEW k \in Counters, k \in checking[c] PROVE Incr(Failed(k)) \in 0 .. attempts
    <3>1. c \in Checking(k)
      BY <2>1 DEF Checking
    <3>2. Cardinality(Checking(k)) \in Nat /\ Cardinality(Checking(k) \ {c}) = Cardinality(Checking(k)) - 1
      BY <3>1, CheckingCounts
    <3>3. IsFiniteSet(Checking(k) \ {c})
      BY LoginNumbers, FS_Subset DEF Checking
    <3>4. Cardinality(Checking(k)) >= 1
      BY <3>2, <3>3, FS_CardinalityType
    <3>5. fails[k] + Cardinality(Checking(k)) <= attempts
      BY DEF Room
    <3> QED BY <3>2, <3>4, <3>5, FailedIs DEF Incr
  <2>2. fails' \in [Counters -> 0 .. attempts']
    BY <1>3, <2>1 DEF WrongPassword, LoginTypes
  <2> QED BY <1>3, <2>2, LoginNumbers DEF WrongPassword, Done, LoginTypes
<1>4. ASSUME NEW c \in Clients, RightPassword(c) PROVE LoginTypes'
  BY <1>4, LoginNumbers DEF RightPassword, Done, LoginTypes
<1>5. ASSUME NEW c \in Clients, LoseAttempt(c) PROVE LoginTypes'
  BY <1>5, LoginNumbers DEF LoseAttempt, Done, LoginTypes
<1>6. CASE UNCHANGED loginVars
  BY <1>6 DEF loginVars, LoginTypes
<1> QED BY <1>1, <1>2, <1>3, <1>4, <1>5, <1>6 DEF LoginNext

(* Failures and attempts under way: one who passes found room for itself,  *)
(* one who ends adds at most the failure it had room for.                  *)
LEMMA RoomStep == LoginInv /\ [LoginNext]_loginVars => Room'
<1> SUFFICES ASSUME LoginInv, [LoginNext]_loginVars, NEW k \in Counters
             PROVE  (/\ Failed(k) + Cardinality(Checking(k)) < MaxFailures + Cardinality(Clients)
                     /\ fails[k] + Cardinality(Checking(k)) <= attempts)'
  BY DEF Room
<1> DEFINE n == Cardinality(Checking(k))
<1>0. /\ Failed(k) \in Nat /\ fails[k] \in Nat /\ attempts \in Nat /\ clock \in Nat
      /\ until[k] \in Nat /\ Failed(k) <= fails[k]
      /\ Failed(k) + n < MaxFailures + Cardinality(Clients) /\ fails[k] + n <= attempts
      /\ MaxFailures \in Nat /\ FailWindow \in Nat \ {0}
  BY FailedIs, LoginNumbers DEF LoginInv, Room
<1>00. LoginTypes
  BY DEF LoginInv
<1>n. n \in Nat /\ Cardinality(Clients) \in Nat
  BY LoginNumbers, FS_Subset, FS_CardinalityType DEF Checking
<1>1. CASE LoginTick
  <2>1. Checking(k)' = Checking(k) /\ fails' = fails /\ until' = until /\ clock' = clock + 1 /\ attempts' = attempts
    BY <1>1 DEF LoginTick, Checking
  <2>2. Failed(k)' <= Failed(k) /\ Failed(k)' \in Nat
    BY <2>1, <1>0 DEF Failed
  <2> HIDE DEF n
  <2>3. n' = n
    BY <2>1 DEF n
  <2> QED BY <2>1, <2>2, <2>3, <1>0, <1>n DEF n
<1>2. ASSUME NEW c \in Clients, NEW K \in Logins, Try(c, K)
      PROVE  (/\ Failed(k) + n < MaxFailures + Cardinality(Clients) /\ fails[k] + n <= attempts)'
  <2>1. Failed(k)' = Failed(k) /\ fails' = fails /\ attempts' = attempts + 1
    BY <1>2 DEF Try, Failed
  <2>2. CASE k \in K
    <3>1. n' = n + 1 /\ n < Cardinality(Clients)
      BY <2>2, <1>2, <1>00, CheckingNext, CheckingCounts
    <3>2. Failed(k) < MaxFailures
      BY <2>2, <1>2, <1>0 DEF Try, Refused, Blocked
    <3> HIDE DEF n
    <3> QED BY <2>1, <3>1, <3>2, <1>0, <1>n
  <2>3. CASE k \notin K
    <3>1. n' = n
      BY <2>3, <1>2, <1>00, CheckingNext
    <3> HIDE DEF n
    <3> QED BY <2>1, <3>1, <1>0, <1>n
  <2> QED BY <2>2, <2>3
<1>3. ASSUME NEW c \in Clients, Done(c), attempts' = attempts, UNCHANGED clock,
             IF k \in checking[c]
             THEN \/ fails'[k] = Incr(Failed(k)) /\ until'[k] = clock + FailWindow
                  \/ fails'[k] = 0 /\ until'[k] = 0
                  \/ fails'[k] = fails[k] /\ until'[k] = until[k]
             ELSE fails'[k] = fails[k] /\ until'[k] = until[k]
      PROVE  (/\ Failed(k) + n < MaxFailures + Cardinality(Clients) /\ fails[k] + n <= attempts)'
  <2>1. CASE k \in checking[c]
    <3>1. n' = n - 1
      BY <2>1, <1>3, <1>00, CheckingNext, CheckingCounts
    <3>2. Failed(k)' \in Nat /\ Failed(k)' <= Failed(k) + 1 /\ fails[k]' \in Nat /\ fails[k]' <= fails[k] + 1
      BY <2>1, <1>3, <1>0 DEF Failed, Incr
    <3> HIDE DEF n
    <3> QED BY <1>3, <3>1, <3>2, <1>0, <1>n
  <2>2. CASE k \notin checking[c]
    <3>1. n' = n
      BY <2>2, <1>3, <1>00, CheckingNext
    <3>2. Failed(k)' = Failed(k) /\ fails[k]' = fails[k]
      BY <2>2, <1>3 DEF Failed
    <3> HIDE DEF n
    <3> QED BY <1>3, <3>1, <3>2, <1>0, <1>n
  <2> QED BY <2>1, <2>2
<1>4. ASSUME NEW c \in Clients, WrongPassword(c) \/ RightPassword(c) \/ LoseAttempt(c)
      PROVE  (/\ Failed(k) + n < MaxFailures + Cardinality(Clients) /\ fails[k] + n <= attempts)'
  BY <1>3, <1>4 DEF WrongPassword, RightPassword, LoseAttempt
<1>5. CASE UNCHANGED loginVars
  <2>1. Checking(k)' = Checking(k) /\ Failed(k)' = Failed(k) /\ fails' = fails /\ attempts' = attempts
    BY <1>5 DEF loginVars, Checking, Failed
  <2> QED BY <2>1, <1>0
<1> QED BY <1>1, <1>2, <1>4, <1>5 DEF LoginNext

(* Whoever is under way passed no later than its counter filled up; when   *)
(* it fails, the expiry moves to a window after that at most.              *)
LEMMA LockoutStep == LoginInv /\ [LoginNext]_loginVars => (Before /\ LockoutEnds)'
<1> SUFFICES ASSUME LoginInv, [LoginNext]_loginVars PROVE (Before /\ LockoutEnds)'
  OBVIOUS
<1>0. LoginTypes /\ Before /\ LockoutEnds
  BY DEF LoginInv
<1>1. CASE LoginTick
  <2>1. \A k \in Counters : Blocked(k)' => Blocked(k)
    BY <1>1, <1>0, FailedIs, LoginNumbers DEF LoginTick, Blocked, Failed
  <2> QED BY <1>1, <2>1, <1>0, LoginNumbers DEF LoginTick, Before, LockoutEnds, LoginTypes
<1>2. ASSUME NEW c \in Clients, NEW K \in Logins, Try(c, K) PROVE (Before /\ LockoutEnds)'
  <2>1. \A k \in Counters : Blocked(k)' <=> Blocked(k)
    BY <1>2 DEF Try, Blocked, Failed
  <2>2. \A k \in K : ~Blocked(k)
    BY <1>2 DEF Try, Refused
  <2>3. Before'
    BY <1>2, <1>0, <2>1, <2>2, LoginNumbers DEF Try, Before, LoginTypes
  <2>4. LockoutEnds'
    BY <1>2, <1>0, <2>1 DEF Try, LockoutEnds
  <2> QED BY <2>3, <2>4
<1>3. ASSUME NEW c \in Clients, WrongPassword(c) PROVE (Before /\ LockoutEnds)'
  <2> SUFFICES ASSUME NEW k \in Counters
               PROVE  /\ \A d \in Clients : k \in checking'[d] =>
                           /\ start'[d] <= clock /\ clock <= start'[d] + MaxWait
                           /\ Blocked(k)' => start'[d] <= full'[k]
                      /\ Blocked(k)' => until'[k] <= full'[k] + MaxWait + FailWindow
    BY <1>3 DEF WrongPassword, Before, LockoutEnds
  <2>1. /\ fails[k] \in Nat /\ until[k] \in Nat /\ full[k] \in Nat /\ clock \in Nat /\ Failed(k) \in Nat
        /\ MaxFailures \in Nat /\ FailWindow \in Nat \ {0} /\ MaxWait \in Nat
    BY <1>0, FailedIs, LoginNumbers
  <2>2. \A d \in Clients : k \in checking'[d] => k \in checking[d] /\ start'[d] = start[d]
    BY <1>3, <1>0 DEF WrongPassword, Done, LoginTypes
  <2>3. \A d \in Clients : start[d] \in Nat
    BY <1>0 DEF LoginTypes
  <2>4. CASE k \notin checking[c]
    <3>1. fails'[k] = fails[k] /\ until'[k] = until[k] /\ full'[k] = full[k] /\ clock' = clock
      BY <2>4, <1>3 DEF WrongPassword
    <3>2. Blocked(k)' <=> Blocked(k)
      BY <3>1 DEF Blocked, Failed
    <3> QED BY <1>0, <2>2, <3>1, <3>2 DEF Before, LockoutEnds
  <2>5. CASE k \in checking[c] /\ Blocked(k)
    <3>1. until'[k] = clock + FailWindow /\ full'[k] = full[k]
      BY <2>5, <2>1, <1>3 DEF WrongPassword, Blocked
    <3>2. start[c] <= full[k] /\ clock <= start[c] + MaxWait /\ start[c] \in Nat
      BY <2>5, <2>3, <1>0 DEF Before
    <3>3. until'[k] <= full'[k] + MaxWait + FailWindow
      BY <2>1, <3>1, <3>2
    <3> QED BY <1>0, <2>2, <2>5, <3>1, <3>3 DEF Before
  <2>6. CASE k \in checking[c] /\ ~Blocked(k)
    <3>1. until'[k] = clock + FailWindow /\ fails'[k] = Incr(Failed(k)) /\ clock' = clock
      BY <2>6, <1>3 DEF WrongPassword
    <3>2. Blocked(k)' => full'[k] = clock
      <4>1. Failed(k)' = Incr(Failed(k))
        BY <2>1, <3>1 DEF Failed
      <4> QED BY <2>1, <2>6, <4>1, <1>3 DEF WrongPassword, Blocked
    <3> QED BY <1>0, <2>1, <2>2, <2>3, <3>1, <3>2 DEF Before
  <2> QED BY <2>4, <2>5, <2>6
<1>4. ASSUME NEW c \in Clients, RightPassword(c) PROVE (Before /\ LockoutEnds)'
  <2>1. \A k \in Counters : Blocked(k)' => Blocked(k) /\ until'[k] = until[k]
    BY <1>4, LoginNumbers DEF RightPassword, Blocked, Failed
  <2>2. \A d \in Clients : checking'[d] \subseteq checking[d]
                            /\ (checking'[d] # {} => start'[d] = start[d])
    BY <1>4, <1>0 DEF RightPassword, Done, LoginTypes
  <2> QED BY <1>0, <1>4, <2>1, <2>2 DEF RightPassword, Before, LockoutEnds
<1>5. ASSUME NEW c \in Clients, LoseAttempt(c) PROVE (Before /\ LockoutEnds)'
  <2>1. \A k \in Counters : Blocked(k)' <=> Blocked(k)
    BY <1>5 DEF LoseAttempt, Blocked, Failed
  <2>2. \A d \in Clients : checking'[d] \subseteq checking[d]
                            /\ (checking'[d] # {} => start'[d] = start[d])
    BY <1>5, <1>0 DEF LoseAttempt, Done, LoginTypes
  <2> QED BY <1>0, <1>5, <2>1, <2>2 DEF LoseAttempt, Before, LockoutEnds
<1>6. CASE UNCHANGED loginVars
  <2>1. \A k \in Counters : Blocked(k)' <=> Blocked(k)
    BY <1>6 DEF loginVars, Blocked, Failed
  <2> QED BY <1>0, <1>6, <2>1 DEF loginVars, Before, LockoutEnds
<1> QED BY <1>1, <1>2, <1>3, <1>4, <1>5, <1>6 DEF LoginNext

LEMMA LoginInvAlways == LoginSpec => []LoginInv
<1>1. LoginInv /\ [LoginNext]_loginVars => LoginInv'
  BY LoginTypesStep, RoomStep, LockoutStep DEF LoginInv
<1> QED BY <1>1, LoginInvInit, PTL DEF LoginSpec

(* Variables keep their types; a counter never exceeds the attempts.       *)
THEOREM LoginTyping == LoginSpec => []LoginTypes
BY LoginInvAlways, PTL DEF LoginInv

(* admin_login and docs login: a counter passes its limit by fewer than    *)
(* the attempts that can run together.                                     *)
THEOREM BoundedFailures == LoginSpec => []FailuresBounded
<1>1. LoginInv => FailuresBounded
  <2> SUFFICES ASSUME LoginInv, NEW k \in Counters
               PROVE  Failed(k) < MaxFailures + Cardinality(Clients)
    BY DEF FailuresBounded
  <2>1. Cardinality(Checking(k)) \in Nat /\ Cardinality(Clients) \in Nat
    BY LoginNumbers, FS_Subset, FS_CardinalityType DEF Checking
  <2>2. Failed(k) + Cardinality(Checking(k)) < MaxFailures + Cardinality(Clients)
    BY DEF LoginInv, Room
  <2>3. Failed(k) \in Nat
    BY FailedIs DEF LoginInv
  <2> QED BY <2>1, <2>2, <2>3, LoginNumbers
<1> QED BY <1>1, LoginInvAlways, PTL

(* "Try again in 15 minutes": nothing keeps a counter blocking for longer  *)
(* than a window and one attempt.                                          *)
THEOREM LockoutsEnd == LoginSpec => []LockoutEnds
BY LoginInvAlways, PTL DEF LoginInv

-----------------------------------------------------------------------------
(* How a lockout ends                                                      *)

(* A counter that blocks is opened by its expiry, or by a right password   *)
(* of an attempt on it that was let in no later than it filled up.         *)
OpenedBy(k) ==
  \/ clock' >= until[k]
  \/ \E c \in Checking(k) : RightPassword(c) /\ start[c] <= full[k]

(* admin_login and docs login: while a counter blocks nothing else opens   *)
(* it: no failure, no attempt of another address or e-mail, and no one who *)
(* comes after the lockout began, whatever password they have.              *)
THEOREM OnlyExpiryOpens ==
  LoginSpec => [][\A k \in Counters : Blocked(k) /\ ~Blocked(k)' => OpenedBy(k)]_loginVars
<1>1. LoginInv /\ [LoginNext]_loginVars
        => \A k \in Counters : Blocked(k) /\ ~Blocked(k)' => OpenedBy(k)
  <2> SUFFICES ASSUME LoginInv, [LoginNext]_loginVars, NEW k \in Counters, Blocked(k), ~Blocked(k)'
               PROVE  OpenedBy(k)
    OBVIOUS
  <2>0. /\ Failed(k) \in Nat /\ fails[k] \in Nat /\ clock \in Nat /\ until[k] \in Nat
        /\ MaxFailures \in Nat \ {0} /\ FailWindow \in Nat \ {0}
        /\ Failed(k) = (IF clock < until[k] THEN fails[k] ELSE 0) /\ Failed(k) >= MaxFailures
    BY FailedIs, LoginNumbers DEF LoginInv, Blocked
  <2>1. CASE LoginTick
    BY <2>0, <2>1 DEF LoginTick, Blocked, Failed, OpenedBy
  <2>2. ASSUME fails'[k] = fails[k], until'[k] = until[k], clock' = clock PROVE FALSE
    BY <2>2 DEF Blocked, Failed
  <2>3. ASSUME NEW c \in Clients, WrongPassword(c) PROVE FALSE
    <3>1. CASE k \in checking[c]
      <4>1. Failed(k)' = Failed(k) + 1
        BY <2>0, <2>3, <3>1 DEF WrongPassword, Incr, Failed
      <4> QED BY <2>0, <4>1 DEF Blocked
    <3> QED BY <2>2, <2>3, <3>1 DEF WrongPassword
  <2>4. ASSUME NEW c \in Clients, RightPassword(c) PROVE OpenedBy(k)
    <3>1. k \in checking[c]
      BY <2>2, <2>4 DEF RightPassword
    <3> QED BY <2>4, <3>1 DEF OpenedBy, Checking, LoginInv, Before
  <2>5. ASSUME NEW c \in Clients, LoseAttempt(c) \/ \E K \in Logins : Try(c, K) PROVE FALSE
    BY <2>2, <2>5 DEF LoseAttempt, Try
  <2>6. CASE UNCHANGED loginVars
    BY <2>2, <2>6 DEF loginVars
  <2> QED BY <2>1, <2>3, <2>4, <2>5, <2>6 DEF LoginNext
<1> QED BY <1>1, LoginInvAlways, PTL DEF LoginSpec
=============================================================================
