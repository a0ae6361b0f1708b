----------------------------- MODULE ApiAccess -----------------------------
(***************************************************************************)
(* Who may do what: the API keys of organizations and their rate limit,    *)
(* the session tokens minted with them, and what both give access to       *)
(* (core/auth.py, routers/auth.py, candidates.py, partner.py), while the   *)
(* panel rotates and revokes keys (routers/vendors.py).                    *)
(*                                                                         *)
(* A key is <<organization, number>>.  A call of a partner is checked, then*)
(* counted, then served; an edit of an organization loads the row, then    *)
(* writes the columns that changed.  Owners never change, so a request     *)
(* with a token is one step.  A socket presents its token once, when it    *)
(* connects, and may go on after the token has expired.  What a session    *)
(* goes through, and with it when a socket must close, is in               *)
(* ProctoringSession, how candidates come to be in Registration.           *)
(***************************************************************************)
EXTENDS Integers, FiniteSets

CONSTANTS
  Orgs, Candidates, Sessions,
  Owner,        \* the organization of a candidate
  Callers,      \* partners' calls at a time
  Admins,       \* edits at a time
  Sockets,      \* WebSocket connections at a time
  NoOne,        \* no candidate, no session
  RateLimit,    \* settings.api_key_rate_limit_per_minute
  WindowLife,   \* EXPIRE of a window's counter, in minutes
  TokenLife,    \* the larger of session_token_max_minutes and jwt_expire_minutes
  MaxDelay,     \* bound: minutes a call may take
  MaxTime, MaxKeys, MaxUses   \* bounds

Keys == Orgs \X (1 .. MaxKeys)
NoKey == <<NoOne, 0>>
Windows == Orgs \X (0 .. MaxTime)

ASSUME OwnerType == Owner \in [Candidates -> Orgs]
ASSUME NobodyApart == NoOne \notin Candidates /\ NoOne \notin Sessions
ASSUME AccessNumbers ==
  /\ RateLimit \in Nat /\ TokenLife \in Nat \ {0} /\ MaxDelay \in Nat
  /\ MaxTime \in Nat /\ MaxKeys \in Nat \ {0} /\ MaxUses \in Nat
(* 120 s against the minute a call may take                                *)
ASSUME CountersOutliveCalls == WindowLife \in Nat /\ MaxDelay < WindowLife

VARIABLES
  now,              \* minutes
  key, active,      \* organizations: api_key_hash (0: no row yet), is_active
  hits, kept,       \* Redis: a window's counter and when it expires
  step, with, since,   \* a caller's call: its key and when that was checked
  edit,             \* an admin's edit and the is_active it loaded
  tokens,           \* session tokens minted
  candidate,        \* exam_sessions.candidate_id
  socket,           \* the token and the session of a connection
  uses,             \* bound: calls, edits, sessions and connections so far
  admitted,         \* history: calls of a window that were let in
  dead,             \* history: when a key last stopped working
  act               \* history: what the last step read or changed, with whose key

orgs  == <<key, active, dead>>
redis == <<hits, kept, admitted>>
calls == <<step, with, since>>
accessVars == <<now, orgs, redis, calls, edit, tokens, candidate, socket, uses, act>>

NoEdit == [org |-> NoOne, op |-> "none", active |-> FALSE]
NoAct  == [key |-> NoKey, sub |-> NoOne, sid |-> NoOne, session |-> NoOne, op |-> "none"]
Closed == [token |-> NoOne, session |-> NoOne]

AccessInit ==
  /\ now = 0
  /\ key = [o \in Orgs |-> 0] /\ active = [o \in Orgs |-> FALSE]
  /\ hits = [w \in Windows |-> 0] /\ kept = [w \in Windows |-> 0]
  /\ step = [c \in Callers |-> "idle"] /\ with = [c \in Callers |-> NoKey]
  /\ since = [c \in Callers |-> 0]
  /\ edit = [a \in Admins |-> NoEdit]
  /\ tokens = {} /\ act = NoAct /\ uses = 0
  /\ candidate = [s \in Sessions |-> NoOne] /\ socket = [k \in Sockets |-> Closed]
  /\ admitted = [w \in Windows |-> 0]
  /\ dead = [k \in Keys |-> 0]

Works(k) == key[k[1]] = k[2] /\ active[k[1]]

(* Mutations: is_active forgotten; a counter not kept past its minute, or  *)
(* compared but not incremented; sid alone trusted, as it once was.        *)
HashOnly(k) == key[k[1]] = k[2]
OneMinute == 1
Uncounted(n) == n
SidOnly(t, s) == t.sid \in {NoOne, s}

KeyAccepted(k) == Works(k)
KeepFor == WindowLife
Incremented(n) == n + 1
InScope(t, s) == t.sub = candidate[s] /\ t.sid \in {NoOne, s}

Act(k, x, t, s, op) == act' = [key |-> k, sub |-> x, sid |-> t, session |-> s, op |-> op]
Quiet == act' = NoAct

Spend == uses < MaxUses /\ uses' = uses + 1

-----------------------------------------------------------------------------
AccessTick ==
  /\ now < MaxTime
  /\ \A c \in Callers : step[c] # "idle" => now < since[c] + MaxDelay
  /\ now' = now + 1
  /\ Quiet /\ UNCHANGED <<orgs, redis, calls, edit, tokens, candidate, socket, uses>>

(* vendors.py                                                              *)
CreateOrganization(o) ==
  /\ key[o] = 0
  /\ key' = [key EXCEPT ![o] = 1] /\ active' = [active EXCEPT ![o] = TRUE]
  /\ Quiet /\ UNCHANGED <<now, dead, redis, calls, edit, tokens, candidate, socket, uses>>

Load(a, o, op) ==
  /\ edit[a] = NoEdit /\ key[o] # 0 /\ Spend
  /\ op = "rotate" => key[o] < MaxKeys
  /\ edit' = [edit EXCEPT ![a] = [org |-> o, op |-> op, active |-> active[o]]]
  /\ Quiet /\ UNCHANGED <<now, orgs, redis, calls, tokens, candidate, socket>>

(* The ORM leaves is_active alone if it loaded the value it sets.          *)
Save(a) ==
  LET e == edit[a]
      o == e.org
  IN  /\ e # NoEdit
      /\ e.op = "rotate" => key[o] < MaxKeys
      /\ key' = IF e.op = "rotate" THEN [key EXCEPT ![o] = @ + 1] ELSE key
      /\ active' = CASE e.op = "revoke" /\ e.active -> [active EXCEPT ![o] = FALSE]
                     [] e.op = "reactivate" /\ ~e.active -> [active EXCEPT ![o] = TRUE]
                     [] OTHER -> active
      /\ dead' = [k \in Keys |-> IF Works(k) /\ ~Works(k)' THEN now ELSE dead[k]]
      /\ edit' = [edit EXCEPT ![a] = NoEdit]
      /\ Quiet /\ UNCHANGED <<now, redis, calls, tokens, candidate, socket, uses>>

-----------------------------------------------------------------------------
(* require_api_key; any other key gets a 401.                              *)
Present(c, k) ==
  /\ step[c] = "idle" /\ KeyAccepted(k) /\ Spend
  /\ step' = [step EXCEPT ![c] = "count"]
  /\ with' = [with EXCEPT ![c] = k] /\ since' = [since EXCEPT ![c] = now]
  /\ Quiet /\ UNCHANGED <<now, orgs, redis, edit, tokens, candidate, socket>>

Count(w) == IF now < kept[w] THEN hits[w] ELSE 0

End(c) ==
  /\ step' = [step EXCEPT ![c] = "idle"]
  /\ with' = [with EXCEPT ![c] = NoKey] /\ since' = [since EXCEPT ![c] = 0]

(* _enforce_api_key_rate_limit: the clock was read in minute m.            *)
CountCall(c, m) ==
  LET w == <<with[c][1], m>>
      n == Incremented(Count(w))
  IN  /\ step[c] = "count" /\ since[c] <= m /\ m <= now
      /\ hits' = [hits EXCEPT ![w] = n] /\ kept' = [kept EXCEPT ![w] = now + KeepFor]
      /\ IF n <= RateLimit
         THEN /\ step' = [step EXCEPT ![c] = "serve"]
              /\ admitted' = [admitted EXCEPT ![w] = @ + 1]
              /\ UNCHANGED <<with, since>>
         ELSE End(c) /\ UNCHANGED admitted
      /\ Quiet /\ UNCHANGED <<now, orgs, edit, tokens, candidate, socket, uses>>

Serve(c) == step[c] = "serve" /\ End(c)
Own(c, x) == Owner[x] = with[c][1]

(* issue_session_token: sid is taken from the request as it is.            *)
IssueToken(c, x, sid, life) ==
  /\ Serve(c) /\ Own(c, x)
  /\ tokens' = tokens \cup {[key |-> with[c], sub |-> x, sid |-> sid, exp |-> now + life]}
  /\ Quiet /\ UNCHANGED <<now, orgs, redis, edit, candidate, socket, uses>>

(* get_candidate, list_candidate_sessions, lookup_candidate                *)
ShowCandidate(c, x) ==
  /\ Serve(c) /\ Own(c, x)
  /\ Act(with[c], x, NoOne, NoOne, "use")
  /\ UNCHANGED <<now, orgs, redis, edit, tokens, candidate, socket, uses>>

(* session_report, terminate_session                                       *)
PartnerSession(c, s) ==
  /\ Serve(c) /\ candidate[s] # NoOne /\ Own(c, candidate[s])
  /\ Act(with[c], candidate[s], NoOne, s, "use")
  /\ UNCHANGED <<now, orgs, redis, edit, tokens, candidate, socket, uses>>

(* 404, a failed request or a stopped worker                               *)
GiveUp(c) ==
  /\ step[c] # "idle" /\ End(c)
  /\ Quiet /\ UNCHANGED <<now, orgs, redis, edit, tokens, candidate, socket, uses>>

-----------------------------------------------------------------------------
Unexpired(t) == t \in tokens /\ now < t.exp

(* create_session, for a verified candidate: sid is not looked at.         *)
CreateSession(t, s) ==
  /\ Unexpired(t) /\ candidate[s] = NoOne /\ Spend
  /\ candidate' = [candidate EXCEPT ![s] = t.sub]
  /\ Act(t.key, t.sub, t.sid, s, "create")
  /\ UNCHANGED <<now, orgs, redis, calls, edit, tokens, socket>>

(* require_candidate_scope: KYC and verify-face                            *)
UseCandidate(t) ==
  /\ Unexpired(t)
  /\ Act(t.key, t.sub, t.sid, NoOne, "use")
  /\ UNCHANGED <<now, orgs, redis, calls, edit, tokens, candidate, socket, uses>>

(* require_session_scope: REST frames, events, the end of the session      *)
UseSession(t, s) ==
  /\ Unexpired(t) /\ candidate[s] # NoOne /\ InScope(t, s)
  /\ Act(t.key, candidate[s], t.sid, s, "use")
  /\ UNCHANGED <<now, orgs, redis, calls, edit, tokens, candidate, socket, uses>>

(* proctoring_ws: the token and its scope are checked before the handshake,*)
(* and the candidate's reference face is read.                             *)
Connect(k, t, s) ==
  /\ socket[k] = Closed /\ Unexpired(t) /\ candidate[s] # NoOne /\ InScope(t, s) /\ Spend
  /\ socket' = [socket EXCEPT ![k] = [token |-> t, session |-> s]]
  /\ Act(t.key, candidate[s], t.sid, s, "use")
  /\ UNCHANGED <<now, orgs, redis, calls, edit, tokens, candidate>>

(* _serve_ws: a frame of an open socket; the token is not looked at again. *)
Stream(k) ==
  LET t == socket[k].token
      s == socket[k].session
  IN  /\ socket[k] # Closed
      /\ Act(t.key, candidate[s], t.sid, s, "use")
      /\ UNCHANGED <<now, orgs, redis, calls, edit, tokens, candidate, socket, uses>>

(* The client leaves, the session has ended or the worker stops.           *)
Disconnect(k) ==
  /\ socket[k] # Closed
  /\ socket' = [socket EXCEPT ![k] = Closed]
  /\ Quiet /\ UNCHANGED <<now, orgs, redis, calls, edit, tokens, candidate, uses>>

Operations == {"rotate", "revoke", "reactivate"}

PartnerCall(c) ==
  \/ \E k \in Keys : Present(c, k)
  \/ \E m \in 0 .. MaxTime : CountCall(c, m)
  \/ \E x \in Candidates : ShowCandidate(c, x)
  \/ \E x \in Candidates, sid \in Sessions \cup {NoOne}, n \in 1 .. TokenLife : IssueToken(c, x, sid, n)
  \/ \E s \in Sessions : PartnerSession(c, s)
  \/ GiveUp(c)

AccessNext ==
  \/ AccessTick
  \/ \E o \in Orgs : CreateOrganization(o)
  \/ \E a \in Admins : Save(a) \/ \E o \in Orgs, op \in Operations : Load(a, o, op)
  \/ \E c \in Callers : PartnerCall(c)
  \/ \E t \in tokens : UseCandidate(t) \/ \E s \in Sessions :
       CreateSession(t, s) \/ UseSession(t, s) \/ \E k \in Sockets : Connect(k, t, s)
  \/ \E k \in Sockets : Stream(k) \/ Disconnect(k)

AccessSpec == AccessInit /\ [][AccessNext]_accessVars

-----------------------------------------------------------------------------
(* Properties                                                              *)

(* Types; no window lets in more calls than its counter has seen.          *)
AccessTypes ==
  /\ now \in 0 .. MaxTime
  /\ key \in [Orgs -> 0 .. MaxKeys] /\ active \in [Orgs -> BOOLEAN]
  /\ hits \in [Windows -> Nat] /\ kept \in [Windows -> Nat]
  /\ step \in [Callers -> {"idle", "count", "serve"}]
  /\ with \in [Callers -> Keys \cup {NoKey}]
  /\ \A c \in Callers : step[c] # "idle" => with[c] \in Keys
  /\ since \in [Callers -> 0 .. MaxTime]
  /\ edit \in [Admins -> {NoEdit} \cup [org : Orgs, op : Operations, active : BOOLEAN]]
  /\ tokens \subseteq [key : Keys, sub : Candidates, sid : Sessions \cup {NoOne}, exp : Nat]
  /\ socket \in [Sockets -> {Closed} \cup [token : tokens, session : Sessions]]
  /\ candidate \in [Sessions -> Candidates \cup {NoOne}]
  /\ uses \in 0 .. MaxUses
  /\ admitted \in [Windows -> Nat] /\ \A w \in Windows : admitted[w] <= hits[w]
  /\ dead \in [Keys -> 0 .. MaxTime]
  /\ act \in {NoAct} \cup [key : Keys, sub : Candidates,
                            sid : Sessions \cup {NoOne}, session : Sessions \cup {NoOne},
                            op : {"create", "use"}]

(* "Fixed 1-minute window per organization, shared across workers": of the *)
(* calls that read their clock in one minute at most RateLimit get in, also*)
(* when they are counted late, with other keys or by other workers.        *)
RateLimited == \A w \in Windows : admitted[w] <= RateLimit

(* Whatever is read or changed, by a call, with a token or on an open      *)
(* socket, belongs to the organization whose key was presented or minted   *)
(* the token, and to the token's candidate.  A token with a session uses no*)
(* other session; create_session lets it open one, whatever core/auth.py   *)
(* says of a token's scope, but it cannot use what it opened.              *)
TenantIsolation ==
  act # NoAct =>
    /\ Owner[act.sub] = act.key[1]
    /\ act.session # NoOne => candidate[act.session] = act.sub
    /\ act.session # NoOne /\ act.op = "use" => act.sid \in {NoOne, act.session}

(* Once a key is revoked or replaced, the tokens minted with it run out    *)
(* after a call's delay and a token's life, although nothing revokes a     *)
(* token and edits and calls overlap.  A socket that is open then stays.   *)
RevocationSettles ==
  \A t \in tokens : ~Works(t.key) => t.exp <= dead[t.key] + MaxDelay + TokenLife
=============================================================================
