--------------------------------- MODULE Kyc ---------------------------------
(***************************************************************************)
(* verify_kyc of routers/kyc.py: uploads of candidates, each a request that*)
(* reads the candidate, waits for inference and for S3, and then writes.   *)
(*                                                                         *)
(* The ORM writes a column only if its value differs from the one the      *)
(* request read.  The UPDATE of face_embeddings names mapped attributes,   *)
(* so the session flushes the candidate first (autoflush): the candidate's *)
(* row is locked from there to the commit.  A rejected upload writes the   *)
(* candidate and commits.                                                  *)
(*                                                                         *)
(* An exam may start as soon as the status is "verified"; its frames need  *)
(* an active embedding to compare with, or they are refused.               *)
(***************************************************************************)
EXTENDS Sequences

CONSTANTS Candidates, Uploads,
          Nobody, NoCandidate   \* no upload, no candidate

ASSUME Sentinels == Nobody \notin Uploads /\ NoCandidate \notin Candidates

VARIABLES
  \* the database
  kycStatus,   \* candidates.kyc_status
  images,      \* whose objects the three S3 keys name: no or one upload
  active,      \* the uploads whose embeddings have is_active
  events,      \* kyc.completed rows, in the order of their commits
  lock,        \* which upload's transaction has updated the candidate
  \* requests
  pc, of,      \* where an upload is; its candidate
  seen,        \* kyc_status as it read it
  verdict,     \* what it found
  stale,       \* the embeddings its UPDATE has deactivated
  \* elsewhere
  examined,    \* candidates with an exam session
  overlapped   \* history: candidates two of whose uploads were under way at once

database == <<kycStatus, images, active, events>>
request  == <<of, seen, verdict, stale>>
elsewhere == <<examined, overlapped>>
vars == <<database, lock, pc, request, elsewhere>>

Init ==
  /\ kycStatus = [c \in Candidates |-> "pending"]
  /\ images = [c \in Candidates |-> {}]
  /\ active = [c \in Candidates |-> {}]
  /\ events = [c \in Candidates |-> <<>>]
  /\ lock = [c \in Candidates |-> Nobody]
  /\ pc = [u \in Uploads |-> "idle"]
  /\ of = [u \in Uploads |-> NoCandidate]
  /\ seen = [u \in Uploads |-> "pending"]
  /\ verdict = [u \in Uploads |-> "rejected"]
  /\ stale = [u \in Uploads |-> {}]
  /\ examined = {} /\ overlapped = {}

-----------------------------------------------------------------------------
(* Mutations of the operators below: no lock (no autoflush), a status that *)
(* is only written once, an embedding given up by a rejected upload, a     *)
(* verdict left open when the selfie is not live.                          *)
Unguarded(c) == TRUE
FirstOnly(u) == IF seen[u] = "pending" THEN verdict[u] ELSE kycStatus[of[u]]
AnyVerdict(u) == TRUE
OpenVerdict(live, match, hold) == IF ~live THEN "pending" ELSE
                                  IF match /\ hold THEN "verified" ELSE "rejected"

RowFree(c) == lock[c] = Nobody
Written(u) == IF verdict[u] # seen[u] THEN verdict[u] ELSE kycStatus[of[u]]
Replaces(u) == verdict[u] = "verified"
Verdict(live, match, hold) == IF live /\ match /\ hold THEN "verified" ELSE "rejected"

-----------------------------------------------------------------------------
UnderWay == {u \in Uploads : pc[u] \in {"checking", "writing", "replacing"}}

Goto(u, label) == pc' = [pc EXCEPT ![u] = label]

(* The request reads the candidate.                                        *)
Read(u, c) ==
  /\ pc[u] = "idle"
  /\ Goto(u, "checking")
  /\ of' = [of EXCEPT ![u] = c]
  /\ seen' = [seen EXCEPT ![u] = kycStatus[c]]
  /\ overlapped' = IF \E v \in UnderWay : of[v] = c THEN overlapped \cup {c} ELSE overlapped
  /\ UNCHANGED <<database, lock, verdict, stale, examined>>

(* Inference and S3 are done; the flush updates the candidate and holds    *)
(* its row.                                                                *)
Flush(u) ==
  /\ pc[u] = "checking" /\ RowFree(of[u])
  /\ lock' = [lock EXCEPT ![of[u]] = u]
  /\ \E live, match, hold \in BOOLEAN :
       verdict' = [verdict EXCEPT ![u] = Verdict(live, match, hold)]
  /\ Goto(u, "writing")
  /\ UNCHANGED <<database, of, seen, stale, elsewhere>>

(* UPDATE face_embeddings: the rows this statement sees                    *)
Deactivate(u) ==
  /\ pc[u] = "writing" /\ Replaces(u)
  /\ stale' = [stale EXCEPT ![u] = active[of[u]]]
  /\ Goto(u, "replacing")
  /\ UNCHANGED <<database, lock, of, seen, verdict, elsewhere>>

Unlock(u) == lock' = [c \in Candidates |-> IF lock[c] = u THEN Nobody ELSE lock[c]]

(* The commit: keys, status, embeddings and the event together             *)
Commit(u) ==
  LET c == of[u]
      new == IF verdict[u] = "verified" THEN {u} ELSE {} IN
  /\ pc[u] = IF Replaces(u) THEN "replacing" ELSE "writing"
  /\ images' = [images EXCEPT ![c] = {u}]
  /\ kycStatus' = [kycStatus EXCEPT ![c] = Written(u)]
  /\ active' = [active EXCEPT ![c] = (@ \ stale[u]) \cup new]
  /\ events' = [events EXCEPT ![c] = Append(@, [upload |-> u, verdict |-> verdict[u]])]
  /\ Unlock(u)
  /\ Goto(u, "done")
  /\ UNCHANGED <<request, elsewhere>>

(* No face or too many, an undecodable image, S3 or the database down, the *)
(* worker killed: the transaction is rolled back.                          *)
Fail(u) ==
  /\ u \in UnderWay
  /\ Unlock(u)
  /\ Goto(u, "failed")
  /\ UNCHANGED <<database, request, elsewhere>>

(* create_session                                                          *)
StartExam(c) ==
  /\ kycStatus[c] = "verified" /\ c \notin examined
  /\ examined' = examined \cup {c}
  /\ UNCHANGED <<database, lock, pc, request, overlapped>>

Next ==
  \/ \E u \in Uploads :
       \/ \E c \in Candidates : Read(u, c)
       \/ Flush(u) \/ Deactivate(u) \/ Commit(u) \/ Fail(u)
  \/ \E c \in Candidates : StartExam(c)

Spec == Init /\ [][Next]_vars

-----------------------------------------------------------------------------
(* Properties                                                              *)

Statuses == {"pending", "verified", "rejected"}
Verdicts == {"verified", "rejected"}
Labels   == {"idle", "checking", "writing", "replacing", "done", "failed"}

(* Types; a verdict is never left open.                                    *)
TypeOK ==
  /\ kycStatus \in [Candidates -> Statuses]
  /\ images \in [Candidates -> SUBSET Uploads]
  /\ active \in [Candidates -> SUBSET Uploads]
  /\ events \in [Candidates -> Seq([upload : Uploads, verdict : Verdicts])]
  /\ lock \in [Candidates -> Uploads \cup {Nobody}]
  /\ pc \in [Uploads -> Labels]
  /\ of \in [Uploads -> Candidates \cup {NoCandidate}]
  /\ seen \in [Uploads -> Statuses]
  /\ verdict \in [Uploads -> Verdicts]
  /\ stale \in [Uploads -> SUBSET Uploads]
  /\ examined \subseteq Candidates /\ overlapped \subseteq Candidates

(* kyc.py: "Deactivate any prior embedding, store the new one as the       *)
(* active reference": no candidate has two, a verified one has one.        *)
OneReference ==
  \A c \in Candidates :
    /\ \A u, v \in active[c] : u = v
    /\ kycStatus[c] = "verified" => active[c] # {}

(* Once a candidate was admitted to an exam, frames always find a          *)
(* reference to compare with, whatever is uploaded or rejected later.      *)
ExamsHaveReference == \A c \in examined : active[c] # {}

(* The status is the last verdict announced, unless two uploads of the     *)
(* candidate were under way at once.                                       *)
LastVerdict(c) == events[c][Len(events[c])].verdict
StatusIsAnnounced(c) == events[c] # <<>> => kycStatus[c] = LastVerdict(c)
SerialVerdictsAgree == \A c \in Candidates \ overlapped : StatusIsAnnounced(c)

(* A verification is recorded at once, and the reference is always the     *)
(* last verified upload: the handler implements KycRecord.                 *)
Record == INSTANCE KycRecord
KeepsRecord == Record!Spec

(* kyc.py: "the partner's backend learns of it here rather than having to  *)
(* trust whatever its own frontend reports": the status that the GET       *)
(* endpoint reports and that admits to exams is what the partner was told. *)
VerdictsAgree == \A c \in Candidates : StatusIsAnnounced(c)
=============================================================================
