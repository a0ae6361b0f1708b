------------------------- MODULE RegistrationProofs -------------------------
(***************************************************************************)
(* Registration for any number of calls and identities.  The invariant     *)
(* adds what the unique index knows of uncommitted rows: an inserted row   *)
(* is the only one of its identity, stored or inserted.                    *)
(***************************************************************************)
EXTENDS Registration, TLAPS

IndexHolds ==
  \A r \in Requests : Inserted(r) =>
    /\ ~Registered(who[r])
    /\ \A q \in Requests : Inserted(q) /\ who[q] = who[r] => q = r

RegistrationInv == RegistrationTypes /\ OneCandidatePerEmail /\ IndexHolds

USE DEF Registered, Inserted, Duplicate, MustWait, Committed

(* Nothing is stored or answered at first.                                 *)
LEMMA RegistrationInvInit == RegistrationInit => RegistrationInv
BY DEF RegistrationInit, RegistrationInv, RegistrationTypes, OneCandidatePerEmail, IndexHolds

(* Every step of every call keeps the three parts.                         *)
LEMMA RegistrationInvStep ==
  RegistrationInv /\ [RegistrationNext]_registrationVars => RegistrationInv'
<1> SUFFICES ASSUME RegistrationInv, [RegistrationNext]_registrationVars PROVE RegistrationInv'
  OBVIOUS
<1> USE DEF RegistrationInv, Finish
<1>1. RegistrationTypes'
  BY DEF RegistrationTypes, RegistrationNext, Proceed, Lookup, Insert, CommitRow, Reply, Break, registrationVars
<1>2. OneCandidatePerEmail'
  <2>1. ASSUME NEW r \in Requests, Lookup(r) PROVE OneCandidatePerEmail'
    BY <2>1 DEF Lookup, OneCandidatePerEmail, RegistrationTypes
  <2>2. ASSUME NEW r \in Requests, Insert(r) PROVE OneCandidatePerEmail'
    BY <2>2 DEF Insert, OneCandidatePerEmail, RegistrationTypes
  <2>3. ASSUME NEW r \in Requests, CommitRow(r) PROVE OneCandidatePerEmail'
    BY <2>3 DEF CommitRow, OneCandidatePerEmail, RegistrationTypes, IndexHolds
  <2>4. ASSUME NEW r \in Requests, Reply(r) \/ Break(r) PROVE OneCandidatePerEmail'
    BY <2>4 DEF Reply, Break, OneCandidatePerEmail, RegistrationTypes
  <2>5. CASE UNCHANGED registrationVars
    BY <2>5 DEF registrationVars, OneCandidatePerEmail
  <2> QED BY <2>1, <2>2, <2>3, <2>4, <2>5 DEF RegistrationNext, Proceed
<1>3. IndexHolds'
  <2>1. ASSUME NEW r \in Requests, Lookup(r) PROVE IndexHolds'
    BY <2>1 DEF Lookup, IndexHolds, RegistrationTypes
  <2>2. ASSUME NEW r \in Requests, Insert(r) PROVE IndexHolds'
    BY <2>2 DEF Insert, IndexHolds, RegistrationTypes
  <2>3. ASSUME NEW r \in Requests, CommitRow(r) PROVE IndexHolds'
    BY <2>3 DEF CommitRow, IndexHolds, RegistrationTypes
  <2>4. ASSUME NEW r \in Requests, Reply(r) \/ Break(r) PROVE IndexHolds'
    BY <2>4 DEF Reply, Break, IndexHolds, RegistrationTypes
  <2>5. CASE UNCHANGED registrationVars
    BY <2>5 DEF registrationVars, IndexHolds
  <2> QED BY <2>1, <2>2, <2>3, <2>4, <2>5 DEF RegistrationNext, Proceed
<1> QED BY <1>1, <1>2, <1>3

LEMMA RegistrationInvAlways == RegistrationSpec => []RegistrationInv
BY RegistrationInvInit, RegistrationInvStep, PTL DEF RegistrationSpec

(* Variables keep their types, and a 201 is for a stored row.              *)
THEOREM RegistrationTyping == RegistrationSpec => []RegistrationTypes
BY RegistrationInvAlways, PTL DEF RegistrationInv

(* create_candidate: however many registrations of one e-mail overlap, one *)
(* row is stored, and whoever is told 409 can look it up.                  *)
THEOREM UniqueEmail == RegistrationSpec => []OneCandidatePerEmail
BY RegistrationInvAlways, PTL DEF RegistrationInv

-----------------------------------------------------------------------------
(* Who wins                                                                *)

(* Of the calls for one identity at most one is answered 201; if all were  *)
(* answered, and none broke, one was.                                      *)
Rivals(r) == {q \in Requests : who[q] = who[r]}
AllAnswered(r) == \A q \in Rivals(r) : stage[q] = "done" /\ answer[q] # "lost"

OneIsTold201 ==
  \A r \in Requests :
    /\ \A p, q \in Rivals(r) : answer[p] = "201" /\ answer[q] = "201" => p = q
    /\ AllAnswered(r) => \E q \in Rivals(r) : answer[q] = "201"

(* Whoever is done has an answer, nobody else has one, and whoever stored  *)
(* a row can have no other than 201, unless it is lost.                    *)
Answers ==
  /\ \A r \in Requests : stage[r] = "done" <=> answer[r] # "none"
  /\ \A r \in rows : stage[r] = "reply" \/ answer[r] \in {"201", "lost"}

(* Every step keeps the answers.                                           *)
LEMMA AnswersAlways == RegistrationSpec => []Answers
<1>1. RegistrationInit => Answers
  BY DEF RegistrationInit, Answers
<1>2. RegistrationInv /\ Answers /\ [RegistrationNext]_registrationVars => Answers'
  <2> SUFFICES ASSUME RegistrationInv, Answers, [RegistrationNext]_registrationVars PROVE Answers'
    OBVIOUS
  <2> USE DEF RegistrationInv, RegistrationTypes, Answers, Finish
  <2>1. ASSUME NEW r \in Requests, Lookup(r) \/ Insert(r) PROVE Answers'
    <3>1. rows' = rows /\ who' = who /\ stage[r] \in {"new", "insert"}
      BY <2>1 DEF Lookup, Insert
    <3>2. \/ Finish(r, "409")
          \/ \E s \in {"insert", "commit"} : stage' = [stage EXCEPT ![r] = s] /\ UNCHANGED answer
      BY <2>1 DEF Lookup, Insert
    <3> QED BY <3>1, <3>2
  <2>2. ASSUME NEW r \in Requests, CommitRow(r) PROVE Answers'
    BY <2>2 DEF CommitRow
  <2>3. ASSUME NEW r \in Requests, Reply(r) \/ Break(r) PROVE Answers'
    BY <2>3 DEF Reply, Break
  <2>4. CASE UNCHANGED registrationVars
    BY <2>4 DEF registrationVars
  <2> QED BY <2>1, <2>2, <2>3, <2>4 DEF RegistrationNext, Proceed
<1> QED BY <1>1, <1>2, RegistrationInvAlways, PTL DEF RegistrationSpec

(* create_candidate: of the calls for one e-mail, however they overlap, at *)
(* most one is told 201, and one is if none was lost: they do not all lose *)
(* to each other.                                                          *)
THEOREM OneWinner == RegistrationSpec => []OneIsTold201
<1>1. RegistrationInv /\ Answers => OneIsTold201
  <2> SUFFICES ASSUME RegistrationInv, Answers PROVE OneIsTold201
    OBVIOUS
  <2>1. ASSUME NEW r \in Requests
        PROVE  \A p, q \in Rivals(r) : answer[p] = "201" /\ answer[q] = "201" => p = q
    BY DEF Rivals, RegistrationInv, RegistrationTypes, OneCandidatePerEmail
  <2>2. ASSUME NEW r \in Requests, AllAnswered(r) PROVE \E q \in Rivals(r) : answer[q] = "201"
    <3>1. r \in Rivals(r) /\ answer[r] \in {"201", "409"}
      BY <2>2 DEF AllAnswered, Rivals, Answers, RegistrationInv, RegistrationTypes
    <3>2. CASE answer[r] = "409"
      <4>1. PICK q \in rows : who[q] = who[r]
        BY <3>2 DEF RegistrationInv, OneCandidatePerEmail
      <4>2. q \in Rivals(r)
        BY <4>1 DEF Rivals, RegistrationInv, RegistrationTypes
      <4> QED BY <2>2, <4>2 DEF AllAnswered, Answers
    <3> QED BY <3>1, <3>2
  <2> QED BY <2>1, <2>2, Zenon DEF OneIsTold201
<1> QED BY <1>1, RegistrationInvAlways, AnswersAlways, PTL
=============================================================================
