-------------------------- MODULE ApiAccessProofs --------------------------
(***************************************************************************)
(* ApiAccess for any organizations, callers, limits and delays.  A call    *)
(* under way is at most MaxDelay old and its key worked when it came: this *)
(* keeps the counter of its minute alive, and dates what is minted with a  *)
(* dead key.                                                               *)
(***************************************************************************)
EXTENDS ApiAccess, TLAPS

Timely == \A c \in Callers : step[c] # "idle" =>
  /\ since[c] <= now /\ now <= since[c] + MaxDelay
  /\ Works(with[c]) \/ since[c] <= dead[with[c]]

(* A counter that has counted outlives the calls of its minute.            *)
CountersKept == \A w \in Windows : hits[w] > 0 => kept[w] >= w[2] + WindowLife

TokensOwned == \A t \in tokens : Owner[t.sub] = t.key[1] /\ t.exp <= now + TokenLife

(* An open socket was let in by a token of its session's candidate.        *)
SocketsInScope == \A k \in Sockets : socket[k] # Closed =>
  /\ socket[k].token \in tokens
  /\ candidate[socket[k].session] # NoOne /\ InScope(socket[k].token, socket[k].session)

DeadBefore == \A k \in Keys : dead[k] <= now

AccessInv ==
  /\ AccessTypes /\ Timely /\ CountersKept /\ TokensOwned /\ SocketsInScope /\ DeadBefore
  /\ RateLimited /\ TenantIsolation /\ RevocationSettles

(* Nothing has happened.                                                   *)
LEMMA AccessInvInit == AccessInit => AccessInv
<1> SUFFICES ASSUME AccessInit PROVE AccessInv
  OBVIOUS
<1> USE AccessNumbers, CountersOutliveCalls DEF AccessInit
<1>1. AccessTypes
  BY DEF AccessTypes, Windows, Keys, NoKey
<1>2. Timely /\ CountersKept /\ TokensOwned /\ SocketsInScope /\ DeadBefore
  BY DEF Timely, CountersKept, TokensOwned, SocketsInScope, DeadBefore
<1>3. RateLimited /\ TenantIsolation /\ RevocationSettles
  BY DEF RateLimited, TenantIsolation, RevocationSettles
<1> QED BY <1>1, <1>2, <1>3 DEF AccessInv

(* A call that is counted finds the counter of its minute alive.           *)
LEMMA CounterAlive ==
  ASSUME AccessInv, NEW c \in Callers, NEW m \in 0 .. MaxTime,
         step[c] = "count", since[c] <= m, m <= now
  PROVE  /\ <<with[c][1], m>> \in Windows /\ Count(<<with[c][1], m>>) = hits[<<with[c][1], m>>]
         /\ hits[<<with[c][1], m>>] \in Nat /\ now \in Nat
<1> DEFINE w == <<with[c][1], m>>
<1>1. w \in Windows /\ now \in Nat /\ since[c] \in Nat /\ m \in Nat
  BY AccessNumbers DEF AccessInv, AccessTypes, Windows, Keys
<1>2. hits[w] \in Nat /\ kept[w] \in Nat /\ w[2] = m
  BY <1>1 DEF AccessInv, AccessTypes
<1>3. now <= since[c] + MaxDelay
  BY DEF AccessInv, Timely
<1>4. hits[w] > 0 => now < kept[w]
  <2>1. hits[w] > 0 => kept[w] >= m + WindowLife
    BY <1>1, <1>2 DEF AccessInv, CountersKept
  <2> QED BY <2>1, <1>1, <1>2, <1>3, AccessNumbers, CountersOutliveCalls
<1> QED BY <1>1, <1>2, <1>4 DEF Count

(* CountCall: the counter, and the calls let in, grow together.            *)
LEMMA CountCallCounts ==
  ASSUME AccessInv, NEW c \in Callers, NEW m \in 0 .. MaxTime, CountCall(c, m)
  PROVE  \E w \in Windows :
           /\ w[2] = m /\ m <= now /\ m \in Nat /\ now \in Nat
           /\ hits[w] \in Nat /\ admitted[w] \in Nat
           /\ hits' = [hits EXCEPT ![w] = hits[w] + 1]
           /\ kept' = [kept EXCEPT ![w] = now + WindowLife]
           /\ \/ admitted' = [admitted EXCEPT ![w] = admitted[w] + 1] /\ hits[w] + 1 <= RateLimit
              \/ admitted' = admitted
<1> DEFINE w == <<with[c][1], m>>
<1>1. step[c] = "count" /\ since[c] <= m /\ m <= now
  BY DEF CountCall
<1>2. w \in Windows /\ Count(w) = hits[w] /\ hits[w] \in Nat /\ now \in Nat /\ w[2] = m
  BY <1>1, CounterAlive
<1>3. admitted[w] \in Nat
  BY <1>2 DEF AccessInv, AccessTypes
<1>4. hits' = [hits EXCEPT ![w] = hits[w] + 1] /\ kept' = [kept EXCEPT ![w] = now + WindowLife]
  BY <1>2 DEF CountCall, Incremented, KeepFor
<1>5. \/ admitted' = [admitted EXCEPT ![w] = admitted[w] + 1] /\ hits[w] + 1 <= RateLimit
      \/ admitted' = admitted
  BY <1>2 DEF CountCall, Incremented
<1>6. w \in Windows
  BY <1>2
<1>7. m \in Nat
  BY AccessNumbers
<1>8. w[2] = m /\ m <= now /\ now \in Nat /\ hits[w] \in Nat
  BY <1>1, <1>2
<1> HIDE DEF w
<1> WITNESS w \in Windows
<1> QED BY <1>3, <1>4, <1>5, <1>7, <1>8

(* What learners do with tokens and sockets                                *)
Learner ==
  \/ \E t \in tokens : UseCandidate(t) \/ \E s \in Sessions :
       CreateSession(t, s) \/ UseSession(t, s) \/ \E k \in Sockets : Connect(k, t, s)
  \/ \E k \in Sockets : Stream(k) \/ Disconnect(k)

LEMMA LearnerLeaves == Learner => UNCHANGED <<now, orgs, redis, calls, edit, tokens>>
BY DEF Learner, UseCandidate, CreateSession, UseSession, Connect, Stream, Disconnect

(* Types of every step, the counters apart                                 *)
LEMMA AccessTypesStep == AccessInv /\ [AccessNext]_accessVars => AccessTypes'
<1> SUFFICES ASSUME AccessInv, [AccessNext]_accessVars PROVE AccessTypes'
  OBVIOUS
<1> USE AccessNumbers DEF AccessInv, orgs, redis, calls, Spend, End, Serve, Act, Quiet
<1>1. CASE AccessTick
  BY <1>1 DEF AccessTick, AccessTypes
<1>2. ASSUME NEW o \in Orgs, CreateOrganization(o) PROVE AccessTypes'
  BY <1>2 DEF CreateOrganization, AccessTypes
<1>3. ASSUME NEW a \in Admins, NEW o \in Orgs, NEW op \in Operations, Load(a, o, op) PROVE AccessTypes'
  BY <1>3 DEF Load, AccessTypes
<1>4. ASSUME NEW a \in Admins, Save(a) PROVE AccessTypes'
  <2>1. edit[a].org \in Orgs
    BY <1>4 DEF Save, AccessTypes
  <2>2. key' \in [Orgs -> 0 .. MaxKeys] /\ active' \in [Orgs -> BOOLEAN] /\ dead' \in [Keys -> 0 .. MaxTime]
    BY <1>4, <2>1 DEF Save, AccessTypes
  <2> QED BY <1>4, <2>2 DEF Save, AccessTypes
<1>5. ASSUME NEW c \in Callers, NEW k \in Keys, Present(c, k) PROVE AccessTypes'
  BY <1>5 DEF Present, AccessTypes
<1>6. ASSUME NEW c \in Callers, NEW m \in 0 .. MaxTime, CountCall(c, m) PROVE AccessTypes'
  <2>1. /\ hits' \in [Windows -> Nat] /\ kept' \in [Windows -> Nat] /\ admitted' \in [Windows -> Nat]
        /\ \A w \in Windows : admitted'[w] <= hits'[w]
    <3>1. PICK w \in Windows :
           /\ now \in Nat /\ hits[w] \in Nat /\ admitted[w] \in Nat
           /\ hits' = [hits EXCEPT ![w] = hits[w] + 1]
           /\ kept' = [kept EXCEPT ![w] = now + WindowLife]
           /\ \/ admitted' = [admitted EXCEPT ![w] = admitted[w] + 1]
              \/ admitted' = admitted
      BY <1>6, CountCallCounts
    <3> QED BY <3>1, CountersOutliveCalls DEF AccessTypes
  <2>2. /\ step' \in [Callers -> {"idle", "count", "serve"}]
        /\ with' \in [Callers -> Keys \cup {<<NoOne, 0>>}]
        /\ \A d \in Callers : step'[d] # "idle" => with'[d] \in Keys
        /\ since' \in [Callers -> 0 .. MaxTime]
    BY <1>6 DEF CountCall, AccessTypes, NoKey
  <2> QED BY <1>6, <2>1, <2>2 DEF CountCall, AccessTypes
<1>7. ASSUME NEW c \in Callers, End(c)
      PROVE  /\ step' \in [Callers -> {"idle", "count", "serve"}]
             /\ with' \in [Callers -> Keys \cup {<<NoOne, 0>>}]
             /\ \A d \in Callers : step'[d] # "idle" => with'[d] \in Keys
             /\ since' \in [Callers -> 0 .. MaxTime]
  BY <1>7 DEF AccessTypes, NoKey
<1>8. ASSUME NEW c \in Callers, NEW x \in Candidates, ShowCandidate(c, x) PROVE AccessTypes'
  BY <1>8, <1>7 DEF ShowCandidate, AccessTypes
<1>9. ASSUME NEW c \in Callers, NEW x \in Candidates, NEW sid \in Sessions \cup {NoOne},
             NEW n \in 1 .. TokenLife, IssueToken(c, x, sid, n)
      PROVE AccessTypes'
  BY <1>9, <1>7 DEF IssueToken, AccessTypes
<1>10. ASSUME NEW c \in Callers, NEW s \in Sessions, PartnerSession(c, s) PROVE AccessTypes'
  BY <1>10, <1>7 DEF PartnerSession, AccessTypes
<1>11. ASSUME NEW c \in Callers, GiveUp(c) PROVE AccessTypes'
  BY <1>11, <1>7 DEF GiveUp, AccessTypes
<1>12. ASSUME NEW t \in tokens, NEW s \in Sessions, CreateSession(t, s) PROVE AccessTypes'
  BY <1>12 DEF CreateSession, AccessTypes
<1>13. ASSUME NEW t \in tokens, NEW s \in Sessions, UseSession(t, s) PROVE AccessTypes'
  BY <1>13 DEF UseSession, AccessTypes
<1>14. CASE UNCHANGED accessVars
  BY <1>14 DEF accessVars, AccessTypes
<1>15. ASSUME NEW t \in tokens, UseCandidate(t) PROVE AccessTypes'
  BY <1>15 DEF UseCandidate, AccessTypes
<1>16. ASSUME NEW k \in Sockets, NEW t \in tokens, NEW s \in Sessions, Connect(k, t, s) PROVE AccessTypes'
  BY <1>16 DEF Connect, AccessTypes
<1>17. ASSUME NEW k \in Sockets, Stream(k) PROVE AccessTypes'
  BY <1>17 DEF Stream, SocketsInScope, AccessTypes
<1>18. ASSUME NEW k \in Sockets, Disconnect(k) PROVE AccessTypes'
  BY <1>18 DEF Disconnect, AccessTypes
<1> QED BY <1>1, <1>2, <1>3, <1>4, <1>5, <1>6, <1>8, <1>9, <1>10, <1>11, <1>12, <1>13, <1>14,
           <1>15, <1>16, <1>17, <1>18
        DEF AccessNext, PartnerCall

(* Calls and dates: a step of a call leaves the others alone; a key that   *)
(* stops working stops now.                                                *)
LEMMA TimelyStep == AccessInv /\ [AccessNext]_accessVars => (Timely /\ DeadBefore)'
<1> SUFFICES ASSUME AccessInv, [AccessNext]_accessVars PROVE (Timely /\ DeadBefore)'
  OBVIOUS
<1> USE AccessNumbers DEF AccessInv, orgs, redis, calls, Spend, End, Serve, Act
<1>0. /\ now \in Nat /\ \A c \in Callers : since[c] \in Nat /\ (step[c] # "idle" => with[c] \in Keys)
      /\ \A k \in Keys : dead[k] \in Nat /\ dead[k] <= now
  BY DEF AccessTypes, DeadBefore
<1>1. CASE AccessTick
  BY <1>1, <1>0 DEF AccessTick, Timely, DeadBefore, Works
<1>2. ASSUME NEW o \in Orgs, CreateOrganization(o) PROVE (Timely /\ DeadBefore)'
  <2>1. \A k \in Keys : Works(k) => Works(k)'
    BY <1>2 DEF CreateOrganization, Works, AccessTypes, Keys
  <2> QED BY <1>2, <2>1, <1>0 DEF CreateOrganization, Timely, DeadBefore
<1>3. ASSUME NEW a \in Admins, Save(a) PROVE (Timely /\ DeadBefore)'
  <2>1. /\ dead' = [k \in Keys |-> IF Works(k) /\ ~Works(k)' THEN now ELSE dead[k]]
        /\ UNCHANGED <<now, step, with, since>>
    BY <1>3 DEF Save
  <2> QED BY <2>1, <1>0 DEF Timely, DeadBefore
<1>4. ASSUME NEW c \in Callers, NEW k \in Keys, Present(c, k) PROVE (Timely /\ DeadBefore)'
  <2>1. Works(k)' /\ \A j \in Keys : Works(j)' <=> Works(j)
    BY <1>4 DEF Present, KeyAccepted, Works
  <2>2. /\ step' = [step EXCEPT ![c] = "count"] /\ with' = [with EXCEPT ![c] = k]
        /\ since' = [since EXCEPT ![c] = now] /\ now' = now /\ dead' = dead
        /\ c \in DOMAIN step /\ c \in DOMAIN with /\ c \in DOMAIN since
    BY <1>4 DEF Present, AccessTypes
  <2> QED BY <2>1, <2>2, <1>0 DEF Timely, DeadBefore
<1>5. ASSUME UNCHANGED <<now, key, active, dead>>,
             \A c \in Callers : step'[c] # "idle" => /\ step[c] # "idle"
                                                    /\ since'[c] = since[c] /\ with'[c] = with[c]
      PROVE (Timely /\ DeadBefore)'
  BY <1>5, <1>0 DEF Timely, DeadBefore, Works
<1>6. ASSUME NEW c \in Callers, UNCHANGED <<now, key, active, dead>>, End(c)
      PROVE (Timely /\ DeadBefore)'
  BY <1>5, <1>6 DEF AccessTypes
<1>7. ASSUME NEW c \in Callers, NEW m \in 0 .. MaxTime, CountCall(c, m) PROVE (Timely /\ DeadBefore)'
  BY <1>5, <1>7 DEF CountCall, AccessTypes
<1>8. ASSUME NEW c \in Callers,
             \/ \E x \in Candidates : ShowCandidate(c, x)
             \/ \E x \in Candidates, sid \in Sessions \cup {NoOne}, n \in 1 .. TokenLife : IssueToken(c, x, sid, n)
             \/ \E s \in Sessions : PartnerSession(c, s)
             \/ GiveUp(c)
      PROVE (Timely /\ DeadBefore)'
  BY <1>6, <1>8 DEF ShowCandidate, IssueToken, PartnerSession, GiveUp
<1>9. ASSUME NEW a \in Admins, NEW o \in Orgs, NEW op \in Operations, Load(a, o, op) PROVE (Timely /\ DeadBefore)'
  BY <1>5, <1>9 DEF Load
<1>10. ASSUME Learner PROVE (Timely /\ DeadBefore)'
  BY <1>5, <1>10, LearnerLeaves
<1>11. CASE UNCHANGED accessVars
  BY <1>5, <1>11 DEF accessVars
<1> QED BY <1>1, <1>2, <1>3, <1>4, <1>7, <1>8, <1>9, <1>10, <1>11 DEF AccessNext, PartnerCall, Learner

(* Only CountCall counts.                                                  *)
LEMMA CountersStep == AccessInv /\ [AccessNext]_accessVars => (CountersKept /\ RateLimited)'
<1> SUFFICES ASSUME AccessInv, [AccessNext]_accessVars PROVE (CountersKept /\ RateLimited)'
  OBVIOUS
<1> USE AccessNumbers, CountersOutliveCalls
<1>0. /\ CountersKept /\ RateLimited
      /\ \A w \in Windows : hits[w] \in Nat /\ admitted[w] \in Nat /\ admitted[w] <= hits[w] /\ kept[w] \in Nat
      /\ hits \in [Windows -> Nat] /\ kept \in [Windows -> Nat] /\ admitted \in [Windows -> Nat]
  BY DEF AccessInv, AccessTypes
<1>1. ASSUME NEW c \in Callers, NEW m \in 0 .. MaxTime, CountCall(c, m) PROVE (CountersKept /\ RateLimited)'
  <2>1. PICK w \in Windows :
           /\ w[2] = m /\ m <= now /\ m \in Nat /\ now \in Nat
           /\ hits[w] \in Nat /\ admitted[w] \in Nat
           /\ hits' = [hits EXCEPT ![w] = hits[w] + 1]
           /\ kept' = [kept EXCEPT ![w] = now + WindowLife]
           /\ \/ admitted' = [admitted EXCEPT ![w] = admitted[w] + 1] /\ hits[w] + 1 <= RateLimit
              \/ admitted' = admitted
    BY <1>1, CountCallCounts
  <2>2. CountersKept'
    BY <2>1, <1>0 DEF CountersKept
  <2>3. RateLimited'
    BY <2>1, <1>0 DEF RateLimited
  <2> QED BY <2>2, <2>3
<1>2. CASE UNCHANGED redis
  BY <1>2, <1>0 DEF redis, CountersKept, RateLimited
<1>3. ASSUME NEW c \in Callers, PartnerCall(c) PROVE (CountersKept /\ RateLimited)'
  BY <1>1, <1>2, <1>3 DEF PartnerCall, Present, ShowCandidate, IssueToken, PartnerSession, GiveUp
<1>4. CASE Learner
  BY <1>2, <1>4, LearnerLeaves
<1> QED BY <1>2, <1>3, <1>4 DEF AccessNext, AccessTick, CreateOrganization, Save, Load, Learner, accessVars

(* Tokens are minted for the caller's candidates and do not outlive their  *)
(* life; while a key works nothing is asked, and when it stops, what was   *)
(* minted before or by a call under way is dated.                          *)
LEMMA TokensStep == AccessInv /\ [AccessNext]_accessVars => (TokensOwned /\ RevocationSettles)'
<1> SUFFICES ASSUME AccessInv, [AccessNext]_accessVars PROVE (TokensOwned /\ RevocationSettles)'
  OBVIOUS
<1> USE AccessNumbers DEF orgs, redis, calls, Spend, End, Serve, Act
<1>0. /\ now \in Nat /\ TokensOwned /\ RevocationSettles
      /\ \A t \in tokens : t.exp \in Nat /\ t.key \in Keys
      /\ \A k \in Keys : dead[k] \in Nat /\ dead[k] <= now
  BY DEF AccessInv, AccessTypes, DeadBefore
<1>1. CASE AccessTick
  BY <1>1, <1>0 DEF AccessTick, TokensOwned, RevocationSettles, Works
<1>2. ASSUME NEW o \in Orgs, CreateOrganization(o) PROVE (TokensOwned /\ RevocationSettles)'
  <2>1. \A k \in Keys : Works(k) => Works(k)'
    BY <1>2 DEF CreateOrganization, Works, AccessInv, AccessTypes, Keys
  <2> QED BY <1>2, <2>1, <1>0 DEF CreateOrganization, TokensOwned, RevocationSettles
<1>3. ASSUME NEW a \in Admins, Save(a) PROVE (TokensOwned /\ RevocationSettles)'
  <2>1. /\ dead' = [k \in Keys |-> IF Works(k) /\ ~Works(k)' THEN now ELSE dead[k]]
        /\ UNCHANGED <<now, tokens>>
    BY <1>3 DEF Save
  <2> QED BY <2>1, <1>0 DEF TokensOwned, RevocationSettles
<1>4. ASSUME NEW c \in Callers, NEW x \in Candidates, NEW sid \in Sessions \cup {NoOne},
             NEW n \in 1 .. TokenLife, IssueToken(c, x, sid, n)
      PROVE (TokensOwned /\ RevocationSettles)'
  <2> DEFINE u == [key |-> with[c], sub |-> x, sid |-> sid, exp |-> now + n]
  <2>1. step[c] = "serve" /\ Owner[x] = with[c][1]
    BY <1>4 DEF IssueToken, Own
  <2>2. /\ with[c] \in Keys /\ since[c] \in Nat /\ now <= since[c] + MaxDelay
        /\ Works(with[c]) \/ since[c] <= dead[with[c]]
    BY <2>1 DEF AccessInv, AccessTypes, Timely
  <2>3. tokens' = tokens \cup {u} /\ UNCHANGED <<now, key, active, dead>>
    BY <1>4 DEF IssueToken
  <2>4. \A k \in Keys : Works(k)' <=> Works(k)
    BY <2>3 DEF Works
  <2>5. ~Works(with[c]) => u.exp <= dead[with[c]] + MaxDelay + TokenLife
    BY <2>2, <1>0
  <2> QED BY <2>1, <2>2, <2>3, <2>4, <2>5, <1>0 DEF TokensOwned, RevocationSettles
<1>5. CASE UNCHANGED <<now, key, active, dead, tokens>>
  BY <1>5, <1>0 DEF TokensOwned, RevocationSettles, Works
<1>6. ASSUME NEW c \in Callers, PartnerCall(c) PROVE (TokensOwned /\ RevocationSettles)'
  BY <1>4, <1>5, <1>6 DEF PartnerCall, Present, CountCall, ShowCandidate, PartnerSession, GiveUp
<1>7. CASE Learner
  BY <1>5, <1>7, LearnerLeaves
<1> QED BY <1>1, <1>2, <1>3, <1>5, <1>6, <1>7 DEF AccessNext, Load, Learner, accessVars

(* A token that lets a socket in is in scope, and stays so: sessions keep  *)
(* their candidate.                                                        *)
LEMMA SocketsStep == AccessInv /\ [AccessNext]_accessVars => SocketsInScope'
<1> SUFFICES ASSUME AccessInv, [AccessNext]_accessVars PROVE SocketsInScope'
  OBVIOUS
<1>0. /\ SocketsInScope /\ candidate \in [Sessions -> Candidates \cup {NoOne}]
      /\ socket \in [Sockets -> {Closed} \cup [token : tokens, session : Sessions]]
  BY DEF AccessInv, AccessTypes
<1>1. ASSUME tokens \subseteq tokens', UNCHANGED <<candidate, socket>> PROVE SocketsInScope'
  BY <1>1, <1>0 DEF SocketsInScope, InScope
<1>2. ASSUME NEW t \in tokens, NEW s \in Sessions, CreateSession(t, s) PROVE SocketsInScope'
  <2>1. UNCHANGED <<tokens, socket>> /\ candidate[s] = NoOne
    BY <1>2 DEF CreateSession
  <2>2. \A r \in Sessions : candidate[r] # NoOne => candidate'[r] = candidate[r]
    BY <1>0, <1>2 DEF CreateSession
  <2>3. \A k \in Sockets : socket[k] # Closed => socket[k].session \in Sessions
    BY <1>0
  <2> QED BY <1>0, <2>1, <2>2, <2>3 DEF SocketsInScope, InScope
<1>3. ASSUME NEW k \in Sockets, NEW t \in tokens, NEW s \in Sessions, Connect(k, t, s) PROVE SocketsInScope'
  <2>1. /\ socket' = [socket EXCEPT ![k] = [token |-> t, session |-> s]]
        /\ UNCHANGED <<tokens, candidate>> /\ candidate[s] # NoOne /\ InScope(t, s)
    BY <1>3 DEF Connect
  <2> QED BY <1>0, <2>1 DEF SocketsInScope, InScope
<1>4. ASSUME NEW k \in Sockets, Disconnect(k) PROVE SocketsInScope'
  <2>1. socket' = [socket EXCEPT ![k] = Closed] /\ UNCHANGED <<tokens, candidate>>
    BY <1>4 DEF Disconnect
  <2> QED BY <1>0, <2>1 DEF SocketsInScope, InScope
<1>5. CASE Learner
  BY <1>1, <1>2, <1>3, <1>4, <1>5 DEF Learner, UseCandidate, UseSession, Stream
<1>6. ASSUME NEW c \in Callers, PartnerCall(c) PROVE SocketsInScope'
  BY <1>1, <1>6 DEF PartnerCall, Present, CountCall, IssueToken, ShowCandidate, PartnerSession, GiveUp
<1> QED BY <1>1, <1>5, <1>6 DEF AccessNext, AccessTick, CreateOrganization, Save, Load, Learner, accessVars

(* A caller's key, a token's, and a socket's token's belong to the owner of*)
(* what they reach.                                                        *)
LEMMA IsolationStep == AccessInv /\ [AccessNext]_accessVars => TenantIsolation'
<1> SUFFICES ASSUME AccessInv, [AccessNext]_accessVars PROVE TenantIsolation'
  OBVIOUS
<1> USE DEF orgs, redis, calls, Spend, End, Serve
<1>0. TenantIsolation /\ TokensOwned /\ SocketsInScope
      /\ candidate \in [Sessions -> Candidates \cup {NoOne}]
  BY DEF AccessInv, AccessTypes
<1>1. CASE Quiet \/ UNCHANGED <<act, candidate>>
  BY <1>1, <1>0 DEF TenantIsolation, Quiet
<1>2. ASSUME NEW c \in Callers, NEW x \in Candidates, ShowCandidate(c, x) PROVE TenantIsolation'
  BY <1>2 DEF ShowCandidate, Own, Act, TenantIsolation, NoAct
<1>3. ASSUME NEW c \in Callers, NEW s \in Sessions, PartnerSession(c, s) PROVE TenantIsolation'
  BY <1>3 DEF PartnerSession, Own, Act, TenantIsolation, NoAct
<1>4. ASSUME NEW t \in tokens, NEW s \in Sessions, CreateSession(t, s) PROVE TenantIsolation'
  BY <1>0, <1>4 DEF CreateSession, Act, TenantIsolation, TokensOwned
<1>5. ASSUME NEW t \in tokens, NEW s \in Sessions, InScope(t, s), candidate' = candidate,
             Act(t.key, candidate[s], t.sid, s, "use")
      PROVE  TenantIsolation'
  BY <1>0, <1>5 DEF InScope, Act, TenantIsolation, TokensOwned
<1>6. ASSUME NEW k \in Sockets, Stream(k) PROVE TenantIsolation'
  <2>1. /\ socket[k].token \in tokens /\ socket[k].session \in Sessions
        /\ InScope(socket[k].token, socket[k].session)
    BY <1>0, <1>6 DEF Stream, SocketsInScope, AccessInv, AccessTypes
  <2> QED BY <1>5, <1>6, <2>1 DEF Stream
<1>7. ASSUME NEW t \in tokens, UseCandidate(t) PROVE TenantIsolation'
  BY <1>0, <1>7 DEF UseCandidate, Act, TenantIsolation, TokensOwned
<1>8. CASE Learner
  BY <1>1, <1>4, <1>5, <1>6, <1>7, <1>8 DEF Learner, UseSession, Connect, Disconnect
<1>9. ASSUME NEW c \in Callers, PartnerCall(c) PROVE TenantIsolation'
  BY <1>1, <1>2, <1>3, <1>9 DEF PartnerCall, Present, CountCall, IssueToken, GiveUp
<1> QED BY <1>1, <1>8, <1>9 DEF AccessNext, AccessTick, CreateOrganization, Save, Load, Learner, accessVars

LEMMA AccessInvAlways == AccessSpec => []AccessInv
<1>1. AccessInv /\ [AccessNext]_accessVars => AccessInv'
  BY AccessTypesStep, TimelyStep, CountersStep, TokensStep, SocketsStep, IsolationStep DEF AccessInv
<1> QED BY <1>1, AccessInvInit, PTL DEF AccessSpec

(* Variables keep their types; no window admits more than it counted.      *)
THEOREM AccessTyping == AccessSpec => []AccessTypes
BY AccessInvAlways, PTL DEF AccessInv

(* _enforce_api_key_rate_limit: the limit holds for the calls of every     *)
(* minute, if a call is shorter than the life of a counter.                *)
THEOREM RateLimiting == AccessSpec => []RateLimited
BY AccessInvAlways, PTL DEF AccessInv

(* No key, no token and no open socket reaches another organization's      *)
(* candidates, nor a token with a session another session that exists.     *)
THEOREM Isolation == AccessSpec => []TenantIsolation
BY AccessInvAlways, PTL DEF AccessInv

(* revoke, rotate-key: a dead key's tokens end within a call and a life.   *)
THEOREM Revocation == AccessSpec => []RevocationSettles
BY AccessInvAlways, PTL DEF AccessInv

-----------------------------------------------------------------------------
(* What a dead key still reaches                                           *)

(* A call is answered within its delay of the moment its key died, and a   *)
(* token of that key is honoured, over REST or to open a socket, until a   *)
(* delay and a life after it, whatever edits and calls overlapped.  From   *)
(* then on, unless it is reactivated, only the frames of sockets that are  *)
(* open already act by that key: these the token's expiry does not end.    *)
THEOREM LastUse ==
  AccessSpec => [][
    /\ \A c \in Callers : Serve(c) => Works(with[c]) \/ now <= dead[with[c]] + MaxDelay
    /\ act' # NoAct => \/ Works(act'.key) \/ now < dead[act'.key] + MaxDelay + TokenLife
                       \/ \E k \in Sockets : Stream(k) /\ socket[k].token.key = act'.key]_accessVars
<1> DEFINE Late(k) == ~Works(k) /\ ~(now < dead[k] + MaxDelay + TokenLife)
<1>1. ASSUME AccessInv, NEW c \in Callers, step[c] # "idle", ~Works(with[c])
      PROVE  now <= dead[with[c]] + MaxDelay /\ ~Late(with[c])
  <2>1. now <= since[c] + MaxDelay /\ since[c] <= dead[with[c]]
    BY <1>1 DEF AccessInv, Timely
  <2>2. now \in Nat /\ since[c] \in Nat /\ dead[with[c]] \in Nat
    BY <1>1, AccessNumbers DEF AccessInv, AccessTypes
  <2> QED BY <2>1, <2>2, AccessNumbers
<1>2. ASSUME AccessInv, NEW t \in tokens, now < t.exp PROVE ~Late(t.key)
  <2> DEFINE e == t.exp
             d == dead[t.key]
  <2>1. Works(t.key) \/ e <= d + MaxDelay + TokenLife
    BY <1>2 DEF AccessInv, RevocationSettles
  <2>2. now \in Nat /\ e \in Nat /\ d \in Nat /\ now < e
    BY <1>2, AccessNumbers DEF AccessInv, AccessTypes
  <2> HIDE DEF e, d
  <2>3. Works(t.key) \/ now < d + MaxDelay + TokenLife
    BY <2>1, <2>2, AccessNumbers
  <2> QED BY <2>3 DEF d
<1> HIDE DEF Late
<1>3. ASSUME AccessInv, NEW c \in Callers, Serve(c), act'.key = with[c] PROVE ~Late(act'.key)
  BY <1>1, <1>3 DEF Serve, Late
<1>4. ASSUME AccessInv, AccessNext, act' # NoAct
      PROVE  ~Late(act'.key) \/ \E k \in Sockets : Stream(k) /\ socket[k].token.key = act'.key
  <2>1. ASSUME NEW c \in Callers, PartnerCall(c) PROVE ~Late(act'.key)
    <3>1. ASSUME NEW x \in Candidates, ShowCandidate(c, x) PROVE Serve(c) /\ act'.key = with[c]
      BY <3>1 DEF ShowCandidate, Act
    <3>2. ASSUME NEW s \in Sessions, PartnerSession(c, s) PROVE Serve(c) /\ act'.key = with[c]
      BY <3>2 DEF PartnerSession, Act
    <3>3. Serve(c) /\ act'.key = with[c]
      BY <1>4, <2>1, <3>1, <3>2 DEF PartnerCall, Present, CountCall, IssueToken, GiveUp, Quiet
    <3> QED BY <1>3, <1>4, <3>3
  <2>2. ASSUME NEW t \in tokens, Unexpired(t), act'.key = t.key PROVE ~Late(act'.key)
    BY <1>2, <1>4, <2>2 DEF Unexpired
  <2>3. ASSUME NEW k \in Sockets, Stream(k) PROVE socket[k].token.key = act'.key
    BY <2>3 DEF Stream, Act
  <2>4. CASE Learner
    BY <1>4, <2>2, <2>3, <2>4 DEF Learner, UseCandidate, CreateSession, UseSession, Connect, Disconnect, Act, Quiet
  <2> QED BY <1>4, <2>1, <2>4 DEF AccessNext, AccessTick, CreateOrganization, Save, Load, Learner, Quiet
<1>5. AccessInv /\ [AccessNext]_accessVars =>
        [/\ \A c \in Callers : Serve(c) => Works(with[c]) \/ now <= dead[with[c]] + MaxDelay
         /\ act' # NoAct => \/ Works(act'.key) \/ now < dead[act'.key] + MaxDelay + TokenLife
                            \/ \E k \in Sockets : Stream(k) /\ socket[k].token.key = act'.key]_accessVars
  BY <1>1, <1>4 DEF Serve, Late
<1> QED BY <1>5, AccessInvAlways, PTL DEF AccessSpec

(* A replaced key is replaced for good: no edit that was loaded before the *)
(* rotation, and no reactivation, makes it work again.                     *)
THEOREM RotationIsFinal ==
  AccessSpec => [][\A k \in Keys : k[2] < key[k[1]] => ~Works(k)']_accessVars
<1>1. AccessInv /\ [AccessNext]_accessVars =>
        [\A k \in Keys : k[2] < key[k[1]] => ~Works(k)']_accessVars
  <2> SUFFICES ASSUME AccessInv, AccessNext PROVE \A k \in Keys : k[2] < key[k[1]] => ~Works(k)'
    OBVIOUS
  <2>0. key \in [Orgs -> 0 .. MaxKeys] /\ \A k \in Keys : k[1] \in Orgs /\ k[2] \in Nat
    BY AccessNumbers DEF AccessInv, AccessTypes, Keys
  <2>1. \A o \in Orgs : key'[o] \in Nat /\ key[o] <= key'[o]
    <3>1. ASSUME NEW o \in Orgs, CreateOrganization(o) PROVE \A x \in Orgs : key'[x] \in Nat /\ key[x] <= key'[x]
      BY <2>0, <3>1, AccessNumbers DEF CreateOrganization
    <3>2. ASSUME NEW a \in Admins, Save(a) PROVE \A x \in Orgs : key'[x] \in Nat /\ key[x] <= key'[x]
      BY <2>0, <3>2, AccessNumbers DEF Save
    <3>3. ASSUME key' = key PROVE \A x \in Orgs : key'[x] \in Nat /\ key[x] <= key'[x]
      BY <2>0, <3>3, AccessNumbers
    <3>4. ASSUME NEW c \in Callers, PartnerCall(c) PROVE key' = key
      BY <3>4 DEF PartnerCall, Present, CountCall, ShowCandidate, IssueToken, PartnerSession, GiveUp, orgs
    <3>5. ASSUME Learner PROVE key' = key
      BY <3>5, LearnerLeaves DEF orgs
    <3> QED BY <3>1, <3>2, <3>3, <3>4, <3>5 DEF AccessNext, AccessTick, Load, Learner, orgs
  <2>2. ASSUME NEW k \in Keys, k[2] < key[k[1]] PROVE key'[k[1]] # k[2]
    BY <2>0, <2>1, <2>2, AccessNumbers
  <2> QED BY <2>2 DEF Works
<1> QED BY <1>1, AccessInvAlways, PTL DEF AccessSpec
=============================================================================
