---------------------------- MODULE Registration ----------------------------
(***************************************************************************)
(* create_candidate (routers/candidates.py): a lookup, then an INSERT that *)
(* waits for an uncommitted one with the same key in the unique index      *)
(* uq_candidates_org_email (models.py), then the commit.  A partner may    *)
(* repeat a registration, and any call may fail at any point, before or    *)
(* after its commit.                                                       *)
(*                                                                         *)
(* An identity is an organization with a lower-case e-mail: the schema     *)
(* lowers e-mails, and both lookups and the index compare lower(email).    *)
(***************************************************************************)
EXTENDS Naturals

CONSTANTS
  Requests,     \* calls of create_candidate
  Identities    \* organization and e-mail

VARIABLES
  stage,     \* where a call is
  who,       \* the identity it registers
  rows,      \* candidates, each known by the call that made it
  answer     \* "none", 201, 409 or "lost"

registrationVars == <<stage, who, rows, answer>>

RegistrationInit ==
  /\ stage = [r \in Requests |-> "new"]
  /\ who \in [Requests -> Identities]
  /\ rows = {}
  /\ answer = [r \in Requests |-> "none"]

Registered(i) == \E r \in rows : who[r] = i

(* Inserted by r and not committed                                         *)
Inserted(r) == stage[r] = "commit"

(* Mutations: no unique index, a flush without a commit.                   *)
NoIndex(r) == FALSE
Flushed(r) == rows

Duplicate(r) == Registered(who[r])
Committed(r) == rows \cup {r}
MustWait(r) == \E q \in Requests \ {r} : Inserted(q) /\ who[q] = who[r]

Finish(r, a) ==
  /\ stage' = [stage EXCEPT ![r] = "done"]
  /\ answer' = [answer EXCEPT ![r] = a]

Lookup(r) ==
  /\ stage[r] = "new"
  /\ IF Registered(who[r])
     THEN Finish(r, "409")
     ELSE stage' = [stage EXCEPT ![r] = "insert"] /\ UNCHANGED answer
  /\ UNCHANGED <<who, rows>>

Insert(r) ==
  /\ stage[r] = "insert" /\ ~MustWait(r)
  /\ IF Duplicate(r)
     THEN Finish(r, "409")
     ELSE stage' = [stage EXCEPT ![r] = "commit"] /\ UNCHANGED answer
  /\ UNCHANGED <<who, rows>>

CommitRow(r) ==
  /\ stage[r] = "commit"
  /\ rows' = Committed(r)
  /\ stage' = [stage EXCEPT ![r] = "reply"]
  /\ UNCHANGED <<who, answer>>

Reply(r) ==
  /\ stage[r] = "reply"
  /\ Finish(r, "201")
  /\ UNCHANGED <<who, rows>>

(* An exception or a stopped worker: what is not committed is rolled back. *)
Break(r) ==
  /\ stage[r] \notin {"new", "done"}
  /\ Finish(r, "lost")
  /\ UNCHANGED <<who, rows>>

Proceed(r) == Lookup(r) \/ Insert(r) \/ CommitRow(r) \/ Reply(r)

RegistrationNext == \E r \in Requests : Proceed(r) \/ Break(r)

RegistrationSpec == RegistrationInit /\ [][RegistrationNext]_registrationVars

-----------------------------------------------------------------------------
(* Properties                                                              *)

(* Types; a 201 is for a row that is there.                                *)
RegistrationTypes ==
  /\ stage \in [Requests -> {"new", "insert", "commit", "reply", "done"}]
  /\ who \in [Requests -> Identities]
  /\ rows \subseteq Requests
  /\ answer \in [Requests -> {"none", "201", "409", "lost"}]
  /\ \A r \in Requests : stage[r] = "reply" \/ answer[r] = "201" => r \in rows

(* "Email is unique per organization": calls that all passed the lookup    *)
(* make one candidate, and the one who lost the race is told 409 only when *)
(* there is a candidate to look up: never because of an insert that is     *)
(* rolled back afterwards.                                                 *)
OneCandidatePerEmail ==
  /\ \A q, r \in rows : who[q] = who[r] => q = r
  /\ \A r \in Requests : answer[r] = "409" => Registered(who[r])
=============================================================================
