------------------------------ MODULE KycProofs ------------------------------
(***************************************************************************)
(* Theorems about Kyc, for every number of candidates and uploads.         *)
(***************************************************************************)
EXTENDS Kyc, Integers, TLAPS

USE Sentinels

-----------------------------------------------------------------------------
(* The inductive invariant                                                 *)

(* An upload under way has a candidate, and holds its row once it writes.  *)
LockHeld ==
  \A u \in Uploads :
    /\ pc[u] \in {"checking", "writing", "replacing"} => of[u] \in Candidates
    /\ pc[u] \in {"writing", "replacing"} => lock[of[u]] = u

(* What an upload has deactivated is all that is active, until it commits. *)
StaleStands ==
  \A u \in Uploads :
    /\ pc[u] \in {"idle", "checking", "writing"} => stale[u] = {}
    /\ pc[u] = "replacing" => stale[u] = active[of[u]] /\ verdict[u] = "verified"

(* One upload at a time has read what is still there.                      *)
FreshReads ==
  \A c \in Candidates \ overlapped : \A u \in UnderWay :
    of[u] = c => /\ seen[u] = kycStatus[c]
                 /\ \A v \in UnderWay : of[v] = c => v = u

IInv == /\ TypeOK /\ LockHeld /\ StaleStands /\ FreshReads
        /\ OneReference /\ ExamsHaveReference /\ SerialVerdictsAgree

LEMMA InitIInv == Init => IInv
BY DEF Init, IInv, TypeOK, Statuses, Verdicts, Labels, LockHeld, StaleStands, FreshReads,
   UnderWay, OneReference, ExamsHaveReference, SerialVerdictsAgree, StatusIsAnnounced

(* What is written is a status.                                            *)
LEMMA WrittenType ==
  ASSUME TypeOK, NEW u \in Uploads, of[u] \in Candidates
  PROVE  Written(u) \in Statuses
BY DEF TypeOK, Written, Statuses, Verdicts

-----------------------------------------------------------------------------
(* Types                                                                   *)

LEMMA TypeStep == IInv /\ [Next]_vars => TypeOK'
<1> SUFFICES ASSUME IInv, [Next]_vars PROVE TypeOK'
  OBVIOUS
<1>0. TypeOK /\ LockHeld
  BY DEF IInv
<1>1. ASSUME NEW u \in Uploads, NEW c \in Candidates, Read(u, c) PROVE TypeOK'
  BY <1>0, <1>1 DEF Read, Goto, TypeOK, Labels, database
<1>2. ASSUME NEW u \in Uploads, Flush(u) PROVE TypeOK'
  <2>1. \A l, m, h \in BOOLEAN : Verdict(l, m, h) \in Verdicts
    BY DEF Verdict, Verdicts
  <2>2. verdict' \in [Uploads -> Verdicts]
    BY <1>0, <1>2, <2>1 DEF Flush, TypeOK
  <2> QED BY <1>0, <1>2, <2>2 DEF Flush, Goto, TypeOK, Labels, database, elsewhere
<1>3. ASSUME NEW u \in Uploads, Deactivate(u) PROVE TypeOK'
  <2>1. active[of[u]] \in SUBSET Uploads
    BY <1>0, <1>3 DEF Deactivate, LockHeld, TypeOK
  <2> QED BY <1>0, <1>3, <2>1 DEF Deactivate, Goto, TypeOK, Labels, database, elsewhere
<1>4. ASSUME NEW u \in Uploads, Unlock(u) PROVE lock' \in [Candidates -> Uploads \cup {Nobody}]
  BY <1>0, <1>4 DEF Unlock, TypeOK
<1>5. ASSUME NEW u \in Uploads, Commit(u) PROVE TypeOK'
  <2>1. of[u] \in Candidates
    BY <1>0, <1>5 DEF Commit, LockHeld
  <2>2. Written(u) \in Statuses
    BY <1>0, <2>1, WrittenType
  <2>3. [upload |-> u, verdict |-> verdict[u]] \in [upload : Uploads, verdict : Verdicts]
    BY <1>0 DEF TypeOK
  <2>4. events' \in [Candidates -> Seq([upload : Uploads, verdict : Verdicts])]
    <3> DEFINE S == [upload : Uploads, verdict : Verdicts]
               e == [upload |-> u, verdict |-> verdict[u]]
    <3>1. events \in [Candidates -> Seq(S)] /\ e \in S
      BY <1>0, <2>3 DEF TypeOK
    <3>2. events' = [events EXCEPT ![of[u]] = Append(events[of[u]], e)]
      BY <1>5 DEF Commit
    <3> HIDE DEF S, e
    <3>3. Append(events[of[u]], e) \in Seq(S)
      BY <2>1, <3>1
    <3>4. events' \in [Candidates -> Seq(S)]
      BY <2>1, <3>1, <3>2, <3>3
    <3> QED BY <3>4 DEF S
  <2>5. kycStatus' \in [Candidates -> Statuses]
    BY <1>0, <1>5, <2>1, <2>2 DEF Commit, TypeOK
  <2>6. active' \in [Candidates -> SUBSET Uploads] /\ images' \in [Candidates -> SUBSET Uploads]
    BY <1>0, <1>5, <2>1 DEF Commit, TypeOK
  <2>7. pc' \in [Uploads -> Labels]
    BY <1>0, <1>5 DEF Commit, Goto, TypeOK, Labels
  <2>8. Unlock(u) /\ UNCHANGED <<request, elsewhere>>
    BY <1>5 DEF Commit
  <2> QED BY <1>0, <1>4, <2>4, <2>5, <2>6, <2>7, <2>8 DEF TypeOK, request, elsewhere
<1>6. ASSUME NEW u \in Uploads, Fail(u) PROVE TypeOK'
  BY <1>0, <1>4, <1>6 DEF Fail, Goto, TypeOK, Labels, database, request, elsewhere
<1>7. ASSUME NEW c \in Candidates, StartExam(c) PROVE TypeOK'
  BY <1>0, <1>7 DEF StartExam, TypeOK, database, request
<1>8. CASE UNCHANGED vars
  BY <1>0, <1>8 DEF vars, TypeOK, database, request, elsewhere
<1> QED BY <1>1, <1>2, <1>3, <1>5, <1>6, <1>7, <1>8 DEF Next

-----------------------------------------------------------------------------
(* The lock                                                                *)

LEMMA LockStep == IInv /\ [Next]_vars => LockHeld'
<1> SUFFICES ASSUME IInv, [Next]_vars PROVE LockHeld'
  OBVIOUS
<1>0. TypeOK /\ LockHeld
  BY DEF IInv
<1>1. ASSUME NEW u \in Uploads, NEW c \in Candidates, Read(u, c) PROVE LockHeld'
  BY <1>0, <1>1 DEF Read, Goto, TypeOK, LockHeld
<1>2. ASSUME NEW u \in Uploads, Flush(u) PROVE LockHeld'
  <2>1. of[u] \in Candidates /\ lock[of[u]] = Nobody
    BY <1>0, <1>2 DEF Flush, RowFree, LockHeld
  <2> QED BY <1>0, <1>2, <2>1 DEF Flush, Goto, TypeOK, LockHeld
<1>3. ASSUME NEW u \in Uploads, Deactivate(u) PROVE LockHeld'
  BY <1>0, <1>3 DEF Deactivate, Goto, TypeOK, LockHeld
<1>4. ASSUME NEW u \in Uploads, Unlock(u), of' = of, pc'[u] \in {"done", "failed"},
             \A v \in Uploads \ {u} : pc'[v] = pc[v]
      PROVE  LockHeld'
  BY <1>0, <1>4 DEF Unlock, TypeOK, LockHeld
<1>5. ASSUME NEW u \in Uploads, Commit(u) \/ Fail(u) PROVE LockHeld'
  <2>1. Unlock(u) /\ of' = of
    BY <1>5 DEF Commit, Fail, request
  <2>2. pc'[u] \in {"done", "failed"} /\ \A v \in Uploads \ {u} : pc'[v] = pc[v]
    BY <1>0, <1>5 DEF Commit, Fail, Goto, TypeOK
  <2> QED BY <1>4, <2>1, <2>2
<1>6. CASE UNCHANGED vars \/ \E c \in Candidates : StartExam(c)
  BY <1>0, <1>6 DEF vars, StartExam, LockHeld, request
<1> QED BY <1>1, <1>2, <1>3, <1>5, <1>6 DEF Next

(* A commit finds its candidate, and what it does to the embeddings: a     *)
(* verified upload is then the only reference, a rejected one changes none.*)
LEMMA CommitReference ==
  ASSUME IInv, NEW u \in Uploads, Commit(u)
  PROVE  /\ of[u] \in Candidates /\ lock[of[u]] = u /\ u \in UnderWay
         /\ active' = IF verdict[u] = "verified" THEN [active EXCEPT ![of[u]] = {u}] ELSE active
<1>0. TypeOK /\ LockHeld /\ StaleStands
  BY DEF IInv
<1>1. pc[u] \in {"writing", "replacing"} /\ of[u] \in Candidates /\ lock[of[u]] = u
  BY <1>0, Commit(u) DEF Commit, LockHeld
<1>2. CASE verdict[u] = "verified"
  <2>1. stale[u] = active[of[u]]
    BY <1>0, <1>2, Commit(u) DEF Commit, Replaces, StaleStands
  <2>2. active' = [active EXCEPT ![of[u]] = (active[of[u]] \ stale[u]) \cup {u}]
    BY <1>2 DEF Commit
  <2>3. (active[of[u]] \ stale[u]) \cup {u} = {u}
    BY <2>1
  <2> QED BY <1>1, <1>2, <2>2, <2>3 DEF UnderWay
<1>3. CASE verdict[u] # "verified"
  <2>1. stale[u] = {}
    BY <1>0, <1>3, Commit(u) DEF Commit, Replaces, StaleStands
  <2>2. active' = [active EXCEPT ![of[u]] = (active[of[u]] \ {}) \cup {}]
    BY <1>3, <2>1 DEF Commit
  <2>3. active' = active
    BY <1>0, <1>1, <2>2 DEF TypeOK
  <2> QED BY <1>1, <1>3, <2>3 DEF UnderWay
<1> QED BY <1>2, <1>3

-----------------------------------------------------------------------------
(* Embeddings                                                              *)

(* A commit touches its own candidate only, which no other upload writes.  *)
LEMMA CommitAlone ==
  ASSUME IInv, NEW u \in Uploads, Commit(u), NEW v \in Uploads, v # u
  PROVE  /\ pc'[v] = pc[v] /\ of'[v] = of[v] /\ stale'[v] = stale[v] /\ verdict'[v] = verdict[v]
         /\ seen'[v] = seen[v]
         /\ pc[v] \in {"writing", "replacing"} => active'[of[v]] = active[of[v]]
<1>0. TypeOK /\ LockHeld
  BY DEF IInv
<1>1. pc' = [pc EXCEPT ![u] = "done"] /\ UNCHANGED request
  BY DEF Commit, Goto
<1>2. pc'[v] = pc[v] /\ of' = of /\ stale' = stale /\ verdict' = verdict /\ seen' = seen
  BY <1>0, <1>1 DEF TypeOK, request
<1>3. ASSUME pc[v] \in {"writing", "replacing"} PROVE active'[of[v]] = active[of[v]]
  <2>1. of[v] \in Candidates /\ lock[of[v]] = v
    BY <1>0, <1>3 DEF LockHeld
  <2>2. of[u] # of[v]
    BY <2>1, CommitReference
  <2>3. active \in [Candidates -> SUBSET Uploads]
    BY <1>0 DEF TypeOK
  <2>4. active' = [active EXCEPT ![of[u]] = {u}] \/ active' = active
    BY CommitReference
  <2> QED BY <2>1, <2>2, <2>3, <2>4
<1> QED BY <1>2, <1>3

LEMMA StaleStep == IInv /\ [Next]_vars => StaleStands'
<1> SUFFICES ASSUME IInv, [Next]_vars PROVE StaleStands'
  OBVIOUS
<1>0. TypeOK /\ LockHeld /\ StaleStands
  BY DEF IInv
<1>1. ASSUME NEW u \in Uploads, NEW c \in Candidates, Read(u, c) PROVE StaleStands'
  BY <1>0, <1>1 DEF Read, Goto, TypeOK, StaleStands, database
<1>2. ASSUME NEW u \in Uploads, Flush(u) PROVE StaleStands'
  BY <1>0, <1>2 DEF Flush, Goto, TypeOK, StaleStands, database
<1>3. ASSUME NEW u \in Uploads, Deactivate(u) PROVE StaleStands'
  BY <1>0, <1>3 DEF Deactivate, Replaces, Goto, TypeOK, StaleStands, database
<1>4. ASSUME NEW u \in Uploads, Commit(u) PROVE StaleStands'
  <2>1. pc'[u] = "done"
    BY <1>0, <1>4 DEF Commit, Goto, TypeOK
  <2>2. ASSUME NEW v \in Uploads, v # u
        PROVE  /\ pc'[v] \in {"idle", "checking", "writing"} => stale'[v] = {}
               /\ pc'[v] = "replacing" => stale'[v] = active'[of'[v]] /\ verdict'[v] = "verified"
    BY <1>0, <1>4, <2>2, CommitAlone DEF StaleStands
  <2> QED BY <2>1, <2>2 DEF StaleStands
<1>5. ASSUME NEW u \in Uploads, Fail(u) PROVE StaleStands'
  BY <1>0, <1>5 DEF Fail, Goto, TypeOK, StaleStands, database, request
<1>6. CASE UNCHANGED vars \/ \E c \in Candidates : StartExam(c)
  BY <1>0, <1>6 DEF vars, StartExam, StaleStands, database, request
<1> QED BY <1>1, <1>2, <1>3, <1>4, <1>5, <1>6 DEF Next

(* A step other than a commit leaves the database alone.                   *)
LEMMA OnlyCommits ==
  ASSUME [Next]_vars, ~ \E u \in Uploads : Commit(u)
  PROVE  UNCHANGED database
BY DEF Next, vars, Read, Flush, Deactivate, Fail, StartExam

LEMMA ReferenceStep == IInv /\ [Next]_vars => OneReference' /\ ExamsHaveReference'
<1> SUFFICES ASSUME IInv, [Next]_vars PROVE OneReference' /\ ExamsHaveReference'
  OBVIOUS
<1>0. TypeOK /\ OneReference /\ ExamsHaveReference
  BY DEF IInv
<1>1. ASSUME NEW u \in Uploads, Commit(u) PROVE OneReference' /\ ExamsHaveReference'
  <2>1. kycStatus' = [kycStatus EXCEPT ![of[u]] = Written(u)] /\ examined' = examined
    BY <1>1 DEF Commit, elsewhere
  <2>2. verdict[u] # "verified" /\ Written(u) = "verified" => kycStatus[of[u]] = "verified"
    BY DEF Written
  <2>3. of[u] \in Candidates
        /\ active' = IF verdict[u] = "verified" THEN [active EXCEPT ![of[u]] = {u}] ELSE active
    BY <1>1, CommitReference
  <2>4. CASE verdict[u] = "verified"
    <3>1. \A c \in Candidates : active'[c] = IF c = of[u] THEN {u} ELSE active[c]
      BY <1>0, <2>3, <2>4 DEF TypeOK
    <3>2. \A c \in Candidates \ {of[u]} : kycStatus'[c] = kycStatus[c]
      BY <1>0, <2>1, <2>3 DEF TypeOK
    <3>3. examined \subseteq Candidates
      BY <1>0 DEF TypeOK
    <3> QED BY <1>0, <2>1, <3>1, <3>2, <3>3 DEF OneReference, ExamsHaveReference
  <2>5. CASE verdict[u] # "verified"
    BY <1>0, <2>1, <2>2, <2>3, <2>5 DEF TypeOK, OneReference, ExamsHaveReference
  <2> QED BY <2>4, <2>5
<1>2. CASE ~ \E u \in Uploads : Commit(u)
  <2>1. kycStatus' = kycStatus /\ active' = active
    BY <1>2, OnlyCommits DEF database
  <2>2. OneReference'
    BY <1>0, <2>1 DEF OneReference
  <2>3. \A c \in examined' : c \in examined \/ (c \in Candidates /\ kycStatus[c] = "verified")
    BY <1>2 DEF Next, vars, Read, Flush, Deactivate, Fail, StartExam, elsewhere
  <2> QED BY <1>0, <2>1, <2>2, <2>3 DEF OneReference, ExamsHaveReference
<1> QED BY <1>1, <1>2

-----------------------------------------------------------------------------
(* Status and events                                                       *)

(* Uploads that start see what is there; those of a candidate that is not  *)
(* overlapped have it to themselves.                                       *)
LEMMA FreshStep == IInv /\ [Next]_vars => FreshReads'
<1> SUFFICES ASSUME IInv, [Next]_vars PROVE FreshReads'
  OBVIOUS
<1>0. TypeOK /\ FreshReads
  BY DEF IInv
<1>1. ASSUME NEW u \in Uploads, NEW c \in Candidates, Read(u, c) PROVE FreshReads'
  <2>1. /\ pc[u] = "idle" /\ UnderWay' = UnderWay \cup {u} /\ u \notin UnderWay
        /\ kycStatus' = kycStatus /\ overlapped \subseteq overlapped'
        /\ (\E v \in UnderWay : of[v] = c) => c \in overlapped'
    BY <1>0, <1>1 DEF Read, Goto, TypeOK, UnderWay, database
  <2>2. /\ of'[u] = c /\ seen'[u] = kycStatus[c]
        /\ \A v \in Uploads \ {u} : of'[v] = of[v] /\ seen'[v] = seen[v]
    BY <1>0, <1>1 DEF Read, TypeOK
  <2>3. UnderWay \subseteq Uploads
    BY DEF UnderWay
  <2> SUFFICES ASSUME NEW d \in Candidates \ overlapped', NEW v \in UnderWay', of'[v] = d
               PROVE  seen'[v] = kycStatus'[d] /\ \A x \in UnderWay' : of'[x] = d => x = v
    BY DEF FreshReads
  <2>4. CASE d = c
    BY <2>1, <2>2, <2>3, <2>4
  <2>5. CASE d # c
    BY <1>0, <2>1, <2>2, <2>3, <2>5 DEF FreshReads
  <2> QED BY <2>4, <2>5
<1>2. ASSUME NEW u \in Uploads, Flush(u) \/ Deactivate(u) PROVE FreshReads'
  <2>1. UnderWay' = UnderWay
    BY <1>0, <1>2 DEF Flush, Deactivate, Goto, TypeOK, UnderWay
  <2> QED BY <1>0, <1>2, <2>1 DEF Flush, Deactivate, FreshReads, database, elsewhere
<1>3. ASSUME NEW u \in Uploads, Commit(u) PROVE FreshReads'
  <2>1. UnderWay' = UnderWay \ {u} /\ UNCHANGED <<of, seen, overlapped>>
    BY <1>0, <1>3 DEF Commit, Goto, TypeOK, UnderWay, request, elsewhere
  <2>2. u \in UnderWay /\ \A c \in Candidates \ {of[u]} : kycStatus'[c] = kycStatus[c]
    BY <1>0, <1>3, CommitReference DEF Commit, TypeOK
  <2> QED BY <1>0, <2>1, <2>2 DEF FreshReads
<1>4. ASSUME NEW u \in Uploads, Fail(u) PROVE FreshReads'
  <2>1. UnderWay' = UnderWay \ {u} /\ UNCHANGED <<of, seen, overlapped, kycStatus>>
    BY <1>0, <1>4 DEF Fail, Goto, TypeOK, UnderWay, request, elsewhere, database
  <2> QED BY <1>0, <2>1 DEF FreshReads
<1>5. CASE UNCHANGED vars \/ \E c \in Candidates : StartExam(c)
  BY <1>0, <1>5 DEF vars, StartExam, FreshReads, UnderWay, database, request, elsewhere
<1> QED BY <1>1, <1>2, <1>3, <1>4, <1>5 DEF Next

(* The event of a commit is the last one, and has its verdict.             *)
LEMMA CommitAnnounces ==
  ASSUME TypeOK, NEW u \in Uploads, Commit(u), of[u] \in Candidates
  PROVE  /\ LastVerdict(of[u])' = verdict[u]
         /\ \A c \in Candidates \ {of[u]} : events'[c] = events[c] /\ kycStatus'[c] = kycStatus[c]
         /\ kycStatus'[of[u]] = Written(u)
<1> DEFINE S == [upload : Uploads, verdict : Verdicts]
           e == [upload |-> u, verdict |-> verdict[u]]
<1>1. events \in [Candidates -> Seq(S)] /\ e.verdict = verdict[u]
  BY DEF TypeOK
<1>2. events' = [events EXCEPT ![of[u]] = Append(events[of[u]], e)] /\ of' = of
  BY DEF Commit, request
<1>3. kycStatus' = [kycStatus EXCEPT ![of[u]] = Written(u)]
  BY DEF Commit
<1> HIDE DEF S, e
<1>4. events'[of[u]] = Append(events[of[u]], e) /\ events[of[u]] \in Seq(S)
  BY <1>1, <1>2
<1>5. Len(events'[of[u]]) = Len(events[of[u]]) + 1
  BY <1>4
<1>6. events'[of[u]][Len(events'[of[u]])] = e
  BY <1>4, <1>5
<1> QED BY <1>1, <1>2, <1>3, <1>6 DEF LastVerdict, TypeOK

LEMMA SerialStep == IInv /\ [Next]_vars => SerialVerdictsAgree'
<1> SUFFICES ASSUME IInv, [Next]_vars PROVE SerialVerdictsAgree'
  OBVIOUS
<1>0. TypeOK /\ FreshReads /\ SerialVerdictsAgree
  BY DEF IInv
<1>1. ASSUME NEW u \in Uploads, Commit(u) PROVE SerialVerdictsAgree'
  <2>1. of[u] \in Candidates /\ u \in UnderWay
    BY <1>1, CommitReference
  <2>2. overlapped' = overlapped /\ of' = of
    BY <1>1 DEF Commit, elsewhere, request
  <2>3. of[u] \notin overlapped => Written(u) = verdict[u]
    BY <1>0, <2>1 DEF FreshReads, Written
  <2>4. /\ LastVerdict(of[u])' = verdict[u]
        /\ \A c \in Candidates \ {of[u]} : events'[c] = events[c] /\ kycStatus'[c] = kycStatus[c]
        /\ kycStatus'[of[u]] = Written(u)
    BY <1>0, <1>1, <2>1, CommitAnnounces
  <2> QED BY <1>0, <2>2, <2>3, <2>4 DEF SerialVerdictsAgree, StatusIsAnnounced, LastVerdict
<1>2. CASE ~ \E u \in Uploads : Commit(u)
  <2>1. kycStatus' = kycStatus /\ events' = events
    BY <1>2, OnlyCommits DEF database
  <2>2. overlapped \subseteq overlapped'
    BY <1>2 DEF Next, vars, Read, Flush, Deactivate, Fail, StartExam, elsewhere
  <2> QED BY <1>0, <2>1, <2>2 DEF SerialVerdictsAgree, StatusIsAnnounced, LastVerdict
<1> QED BY <1>1, <1>2

-----------------------------------------------------------------------------
(* The theorems                                                            *)

LEMMA IInvStep == IInv /\ [Next]_vars => IInv'
BY TypeStep, LockStep, StaleStep, FreshStep, ReferenceStep, SerialStep DEF IInv

LEMMA IInvAlways == Spec => []IInv
BY InitIInv, IInvStep, PTL DEF Spec

(* Every variable keeps its type.                                          *)
THEOREM KycTyping == Spec => []TypeOK
<1>1. IInv => TypeOK
  BY DEF IInv
<1> QED BY <1>1, IInvAlways, PTL

(* A candidate never has two reference faces; a verified one has one.      *)
THEOREM SingleReference == Spec => []OneReference
<1>1. IInv => OneReference
  BY DEF IInv
<1> QED BY <1>1, IInvAlways, PTL

(* A candidate admitted to an exam never loses its reference face.         *)
THEOREM ReferenceStays == Spec => []ExamsHaveReference
<1>1. IInv => ExamsHaveReference
  BY DEF IInv
<1> QED BY <1>1, IInvAlways, PTL

(* Without overlapping uploads the status is the last announced verdict.   *)
THEOREM SerialStatus == Spec => []SerialVerdictsAgree
<1>1. IInv => SerialVerdictsAgree
  BY DEF IInv
<1> QED BY <1>1, IInvAlways, PTL

LEMMA RefineInit == Init => Record!Init
BY DEF Init, Record!Init

(* A commit is KycRecord's Complete, any other step leaves its state alone.*)
LEMMA RefineStep == IInv /\ [Next]_vars => [Record!Next]_(Record!vars)
<1> SUFFICES ASSUME IInv, [Next]_vars PROVE [Record!Next]_(Record!vars)
  OBVIOUS
<1>1. ASSUME NEW u \in Uploads, Commit(u) PROVE Record!Complete(of[u], u, verdict[u])
  BY <1>1, CommitReference DEF Commit, Record!Complete
<1>2. ASSUME NEW u \in Uploads, Commit(u) PROVE Record!Next
  <2>1. of[u] \in Candidates /\ verdict[u] \in Record!Verdicts
    BY <1>2, CommitReference DEF IInv, TypeOK, Verdicts, Record!Verdicts
  <2> QED BY <1>1, <1>2, <2>1 DEF Record!Next
<1>3. CASE ~ \E u \in Uploads : Commit(u)
  BY <1>3, OnlyCommits DEF database, Record!vars
<1> QED BY <1>2, <1>3

(* verify_kyc implements KycRecord: a verification is recorded at once.    *)
THEOREM Recording == Spec => KeepsRecord
BY RefineInit, RefineStep, IInvAlways, PTL DEF Spec, KeepsRecord, Record!Spec

-----------------------------------------------------------------------------
(* What the partner was told, and what is kept                             *)

Places(c) == 1 .. Len(events[c])

(* The images kept are those of the last upload told, and the reference is *)
(* that of the last one told as verified.                                  *)
Tells(told, kept, reference) ==
  /\ kept = IF told = <<>> THEN {} ELSE {told[Len(told)].upload}
  /\ \A i \in 1 .. Len(told) : told[i].verdict = "verified" => reference # {}
  /\ \A u \in reference : \E i \in 1 .. Len(told) :
       /\ told[i] = [upload |-> u, verdict |-> "verified"]
       /\ \A j \in 1 .. Len(told) : j > i => told[j].verdict = "rejected"

Announced == \A c \in Candidates : Tells(events[c], images[c], active[c])

(* An upload is announced when it is done, once, to its own candidate.     *)
Announcer(c, i) == events[c][i].upload

Once ==
  /\ \A c \in Candidates : \A i \in Places(c) :
       /\ Announcer(c, i) \in Uploads
       /\ pc[Announcer(c, i)] = "done" /\ of[Announcer(c, i)] = c
       /\ \A j \in Places(c) : Announcer(c, j) = Announcer(c, i) => i = j
  /\ \A u \in Uploads : pc[u] = "done" =>
       of[u] \in Candidates /\ \E i \in Places(of[u]) : Announcer(of[u], i) = u

(* A commit adds one event at the end of its candidate's.                  *)
LEMMA CommitAppends ==
  ASSUME IInv, NEW u \in Uploads, Commit(u), NEW n, n = Len(events[of[u]])
  PROVE  /\ n \in Nat /\ Len(events'[of[u]]) = n + 1 /\ events'[of[u]] # <<>>
         /\ events'[of[u]][n + 1] = [upload |-> u, verdict |-> verdict[u]]
         /\ \A i \in 1 .. n : events'[of[u]][i] = events[of[u]][i]
         /\ \A c \in Candidates \ {of[u]} : events'[c] = events[c]
<1> DEFINE S == [upload : Uploads, verdict : Verdicts]
           e == [upload |-> u, verdict |-> verdict[u]]
<1>1. of[u] \in Candidates /\ events \in [Candidates -> Seq(S)]
  BY CommitReference DEF IInv, TypeOK
<1>2. e \in S
  BY DEF IInv, TypeOK
<1>3. events' = [events EXCEPT ![of[u]] = Append(events[of[u]], e)]
  BY DEF Commit
<1> HIDE DEF S, e
<1>4. events'[of[u]] = Append(events[of[u]], e) /\ events[of[u]] \in Seq(S)
  BY <1>1, <1>3
<1>5. /\ n \in Nat /\ Len(events'[of[u]]) = n + 1 /\ events'[of[u]] # <<>>
      /\ events'[of[u]][n + 1] = e /\ \A i \in 1 .. n : events'[of[u]][i] = events[of[u]][i]
  <2> DEFINE s == events[of[u]]
             t == events'[of[u]]
  <2>1. s \in Seq(S) /\ t = Append(s, e) /\ n = Len(s)
    BY <1>4
  <2> HIDE DEF s, t
  <2>2. n \in Nat /\ Len(t) = n + 1
    BY <1>2, <2>1
  <2>3. t[n + 1] = e /\ \A i \in 1 .. n : t[i] = s[i]
    BY <1>2, <2>1
  <2>4. t # <<>>
    BY <2>2
  <2> QED BY <2>2, <2>3, <2>4 DEF s, t
<1>6. \A c \in Candidates \ {of[u]} : events'[c] = events[c]
  BY <1>1, <1>3
<1> QED BY <1>5, <1>6 DEF e

(* A commit puts images, reference and event in place together.            *)
LEMMA CommitAnnounced ==
  ASSUME IInv, Announced, NEW u \in Uploads, Commit(u)
  PROVE  Announced'
<1> DEFINE c == of[u]
           n == Len(events[c])
           e == [upload |-> u, verdict |-> verdict[u]]
<1>1. /\ c \in Candidates /\ images \in [Candidates -> SUBSET Uploads]
      /\ active \in [Candidates -> SUBSET Uploads] /\ verdict[u] \in Verdicts
  BY CommitReference DEF IInv, TypeOK
<1>2. /\ n \in Nat /\ Len(events'[c]) = n + 1 /\ events'[c] # <<>> /\ events'[c][n + 1] = e
      /\ \A i \in 1 .. n : events'[c][i] = events[c][i]
      /\ \A d \in Candidates \ {c} : events'[d] = events[d]
  BY CommitAppends
<1>3. images' = [images EXCEPT ![c] = {u}]
  BY DEF Commit
<1>4. active' = IF verdict[u] = "verified" THEN [active EXCEPT ![c] = {u}] ELSE active
  BY CommitReference
<1>5. e.upload = u /\ e.verdict = verdict[u] /\ (e.verdict = "verified" => e = [upload |-> u, verdict |-> "verified"])
  OBVIOUS
<1> HIDE DEF c, n, e
<1>6. images'[c] = {events'[c][Len(events'[c])].upload}
  BY <1>1, <1>2, <1>3, <1>5
<1>7. ASSUME NEW i \in 1 .. n + 1, events'[c][i].verdict = "verified" PROVE active'[c] # {}
  <2>1. CASE verdict[u] = "verified"
    BY <1>1, <1>4, <2>1
  <2>2. CASE verdict[u] # "verified"
    <3>1. i # n + 1 /\ i \in 1 .. n
      BY <1>2, <1>5, <1>7, <2>2
    <3> QED BY <1>1, <1>2, <1>4, <1>7, <2>2, <3>1 DEF Announced, Tells, n
  <2> QED BY <2>1, <2>2
<1>8. ASSUME NEW v \in active'[c]
      PROVE  \E i \in 1 .. n + 1 :
               /\ events'[c][i] = [upload |-> v, verdict |-> "verified"]
               /\ \A j \in 1 .. n + 1 : j > i => events'[c][j].verdict = "rejected"
  <2>1. CASE verdict[u] = "verified"
    <3>1. v = u
      BY <1>1, <1>4, <2>1
    <3>2. n + 1 \in 1 .. n + 1 /\ \A j \in 1 .. n + 1 : ~(j > n + 1)
      BY <1>2
    <3> QED BY <1>2, <1>5, <2>1, <3>1, <3>2
  <2>2. CASE verdict[u] # "verified"
    <3>1. PICK i \in 1 .. n :
            /\ events[c][i] = [upload |-> v, verdict |-> "verified"]
            /\ \A j \in 1 .. n : j > i => events[c][j].verdict = "rejected"
      BY <1>1, <1>4, <2>2 DEF Announced, Tells, n
    <3>2. verdict[u] = "rejected"
      BY <1>1, <2>2 DEF Verdicts
    <3>3. ASSUME NEW j \in 1 .. n + 1, j > i PROVE events'[c][j].verdict = "rejected"
      <4>1. j = n + 1 \/ j \in 1 .. n
        BY <1>2
      <4> QED BY <1>2, <1>5, <3>1, <3>2, <3>3, <4>1
    <3>4. i \in 1 .. n + 1 /\ events'[c][i] = [upload |-> v, verdict |-> "verified"]
      BY <1>2, <3>1
    <3> QED BY <3>3, <3>4
  <2> QED BY <2>1, <2>2
<1>9. \A d \in Candidates \ {c} : images'[d] = images[d] /\ active'[d] = active[d] /\ events'[d] = events[d]
  BY <1>1, <1>2, <1>3, <1>4
<1>10. Tells(events'[c], images'[c], active'[c])
  <2> DEFINE told == events'[c]
  <2>1. Len(told) = n + 1 /\ told # <<>>
    BY <1>2
  <2>2. images'[c] = {told[Len(told)].upload}
    BY <1>6
  <2>3. \A i \in 1 .. Len(told) : told[i].verdict = "verified" => active'[c] # {}
    BY <1>7, <2>1
  <2>4. \A v \in active'[c] : \E i \in 1 .. Len(told) :
          /\ told[i] = [upload |-> v, verdict |-> "verified"]
          /\ \A j \in 1 .. Len(told) : j > i => told[j].verdict = "rejected"
    BY <1>8, <2>1
  <2> HIDE DEF told
  <2>5. Tells(told, images'[c], active'[c])
    BY <2>1, <2>2, <2>3, <2>4 DEF Tells
  <2> QED BY <2>5 DEF told
<1>11. ASSUME NEW d \in Candidates PROVE Tells(events'[d], images'[d], active'[d])
  <2>1. CASE d = c
    BY <1>10, <2>1
  <2>2. CASE d # c
    <3>1. Tells(events[d], images[d], active[d])
      BY DEF Announced
    <3> QED BY <1>9, <2>2, <3>1
  <2> QED BY <2>1, <2>2
<1> QED BY <1>11 DEF Announced

(* A candidate who never uploaded has nothing.                             *)
LEMMA NothingTold == Tells(<<>>, {}, {})
BY DEF Tells

(* The partner is told of every verification: at any time the images kept  *)
(* are those of the last upload in a kyc.completed event, and the active   *)
(* reference is the embedding of the last one announced as verified, there *)
(* as soon as there is one (the commit of verify_kyc).                     *)
THEOREM ReferenceAnnounced == Spec => []Announced
<1>1. Init => Announced
  <2>1. ASSUME Init, NEW c \in Candidates PROVE Tells(events[c], images[c], active[c])
    <3>1. events[c] = <<>> /\ images[c] = {} /\ active[c] = {}
      BY <2>1 DEF Init
    <3> QED BY <3>1, NothingTold
  <2> QED BY <2>1, Zenon DEF Announced
<1>2. IInv /\ Announced /\ [Next]_vars => Announced'
  <2> SUFFICES ASSUME IInv, Announced, [Next]_vars, ~ \E u \in Uploads : Commit(u) PROVE Announced'
    BY CommitAnnounced
  <2>1. UNCHANGED <<images, active, events>>
    BY OnlyCommits DEF database
  <2> QED BY <2>1 DEF Announced
<1> QED BY <1>1, <1>2, IInvAlways, PTL DEF Spec

(* The number of its events and who made each, after a commit              *)
LEMMA CommitAnnouncers ==
  ASSUME IInv, NEW u \in Uploads, Commit(u),
         NEW c \in Candidates, c = of[u], NEW n, n = Len(events[c])
  PROVE  /\ n \in Nat /\ Places(c) = 1 .. n /\ Places(c)' = 1 .. n + 1
         /\ Announcer(c, n + 1)' = u
         /\ \A i \in 1 .. n : Announcer(c, i)' = Announcer(c, i)
         /\ \A d \in Candidates \ {c} :
              Places(d)' = Places(d) /\ \A i : Announcer(d, i)' = Announcer(d, i)
<1>1. /\ n \in Nat /\ Len(events'[c]) = n + 1
      /\ events'[c][n + 1] = [upload |-> u, verdict |-> verdict[u]]
      /\ \A i \in 1 .. n : events'[c][i] = events[c][i]
      /\ \A d \in Candidates \ {c} : events'[d] = events[d]
  BY CommitAppends
<1>2. events'[c][n + 1].upload = u
  BY <1>1
<1> QED BY <1>1, <1>2 DEF Announcer, Places

(* Whoever is done stays done, and its candidate stays its candidate.      *)
LEMMA OthersStand ==
  ASSUME IInv, [Next]_vars, ~ \E u \in Uploads : Commit(u), NEW u \in Uploads
  PROVE  (pc'[u] = "done" <=> pc[u] = "done") /\ (pc[u] = "done" => of'[u] = of[u])
<1>1. TypeOK
  BY DEF IInv
<1>2. ASSUME NEW v \in Uploads, NEW c \in Candidates, Read(v, c)
      PROVE  (pc'[u] = "done" <=> pc[u] = "done") /\ (pc[u] = "done" => of'[u] = of[u])
  BY <1>1, <1>2 DEF Read, Goto, TypeOK
<1>3. ASSUME NEW v \in Uploads, Flush(v) \/ Deactivate(v) \/ Fail(v)
      PROVE  (pc'[u] = "done" <=> pc[u] = "done") /\ (pc[u] = "done" => of'[u] = of[u])
  BY <1>1, <1>3 DEF Flush, Deactivate, Fail, Goto, TypeOK, UnderWay, request
<1>4. ASSUME NEW c \in Candidates, StartExam(c)
      PROVE  (pc'[u] = "done" <=> pc[u] = "done") /\ (pc[u] = "done" => of'[u] = of[u])
  BY <1>4 DEF StartExam, request
<1>5. CASE UNCHANGED vars
  BY <1>5 DEF vars, request
<1> QED BY <1>2, <1>3, <1>4, <1>5 DEF Next

(* An upload that commits was not done, so it is not announced yet.        *)
LEMMA CommitOnce ==
  ASSUME IInv, Once, NEW u \in Uploads, Commit(u)
  PROVE  Once'
<1>1. of[u] \in Candidates /\ of' = of /\ pc[u] # "done" /\ pc' = [pc EXCEPT ![u] = "done"]
  BY DEF Commit, request, Goto, Replaces, IInv, TypeOK, LockHeld
<1>2. pc \in [Uploads -> Labels]
  BY DEF IInv, TypeOK
<1>3. PICK c \in Candidates : c = of[u]
  BY <1>1
<1>4. PICK n : n = Len(events[c])
  OBVIOUS
<1>5. /\ n \in Nat /\ Places(c) = 1 .. n /\ Places(c)' = 1 .. n + 1
      /\ Announcer(c, n + 1)' = u
      /\ \A i \in 1 .. n : Announcer(c, i)' = Announcer(c, i)
      /\ \A d \in Candidates \ {c} :
           Places(d)' = Places(d) /\ \A i : Announcer(d, i)' = Announcer(d, i)
  BY <1>3, <1>4, CommitAnnouncers
<1>6. \A j \in 1 .. n + 1 : j = n + 1 \/ j \in 1 .. n
  BY <1>5
<1>7. \A i \in 1 .. n :
        /\ Announcer(c, i) \in Uploads
        /\ pc[Announcer(c, i)] = "done" /\ of[Announcer(c, i)] = c
        /\ \A j \in 1 .. n : Announcer(c, j) = Announcer(c, i) => i = j
  BY <1>5 DEF Once
<1>8. ASSUME NEW d \in Candidates, NEW i \in Places(d)'
      PROVE  /\ Announcer(d, i)' \in Uploads
             /\ pc'[Announcer(d, i)'] = "done" /\ of'[Announcer(d, i)'] = d
             /\ \A j \in Places(d)' : Announcer(d, j)' = Announcer(d, i)' => i = j
  <2>1. CASE d # c
    BY <1>1, <1>2, <1>5, <1>8, <2>1 DEF Once
  <2>2. CASE d = c /\ i = n + 1
    <3>1. \A j \in 1 .. n : Announcer(c, j)' # u
      BY <1>1, <1>5, <1>7
    <3>2. \A j \in 1 .. n + 1 : Announcer(c, j)' = u => j = n + 1
      BY <1>6, <3>1
    <3>3. pc'[u] = "done" /\ of'[u] = c
      BY <1>1, <1>2, <1>3
    <3> QED BY <1>5, <2>2, <3>2, <3>3
  <2>3. CASE d = c /\ i \in 1 .. n
    <3>1. Announcer(c, i)' = Announcer(c, i) /\ Announcer(c, i) \in Uploads
      BY <1>5, <1>7, <2>3
    <3>2. pc'[Announcer(c, i)] = "done" /\ of'[Announcer(c, i)] = c
      BY <1>1, <1>2, <1>7, <2>3, <3>1
    <3>3. Announcer(c, i) # u
      BY <1>1, <1>7, <2>3
    <3>4. \A j \in 1 .. n + 1 : Announcer(c, j)' = Announcer(c, i) => i = j
      BY <1>5, <1>6, <1>7, <2>3, <3>3
    <3> QED BY <1>5, <2>3, <3>1, <3>2, <3>4
  <2> QED BY <1>5, <1>6, <1>8, <2>1, <2>2, <2>3
<1>9. ASSUME NEW v \in Uploads, pc'[v] = "done"
      PROVE  (of[v] \in Candidates /\ \E i \in Places(of[v]) : Announcer(of[v], i) = v)'
  <2>1. CASE v = u
    <3>1. n + 1 \in Places(c)' /\ Announcer(c, n + 1)' = v
      BY <1>5, <2>1
    <3> QED BY <1>1, <1>3, <2>1, <3>1
  <2>2. CASE v # u
    <3>1. pc[v] = "done"
      BY <1>1, <1>2, <1>9, <2>2
    <3>2. PICK d \in Candidates : d = of[v] /\ \E i \in Places(d) : Announcer(d, i) = v
      BY <3>1 DEF Once
    <3>3. PICK i \in Places(d) : Announcer(d, i) = v
      BY <3>2
    <3>4. i \in Places(d)' /\ Announcer(d, i)' = v
      <4>1. CASE d = c
        <5>1. i \in 1 .. n /\ i \in 1 .. n + 1
          BY <1>5, <3>3, <4>1
        <5> QED BY <1>5, <3>3, <4>1, <5>1
      <4>2. CASE d # c
        BY <1>5, <3>3, <4>2
      <4> QED BY <4>1, <4>2
    <3> QED BY <1>1, <3>2, <3>4
  <2> QED BY <2>1, <2>2
<1> QED BY <1>8, <1>9 DEF Once

(* One kyc.completed event is written for every upload that is done, none  *)
(* for one that failed or is under way, and each to the upload's own       *)
(* candidate: a second call cannot announce twice (verify_kyc).            *)
THEOREM AnnouncedOnce == Spec => []Once
<1>1. Init => Once
  BY DEF Init, Once, Places
<1>2. IInv /\ Once /\ [Next]_vars => Once'
  <2> SUFFICES ASSUME IInv, Once, [Next]_vars, ~ \E u \in Uploads : Commit(u) PROVE Once'
    BY CommitOnce
  <2>1. events' = events
    BY OnlyCommits DEF database
  <2>2. \A c : Places(c)' = Places(c) /\ \A i : Announcer(c, i)' = Announcer(c, i)
    BY <2>1 DEF Places, Announcer
  <2>3. \A u \in Uploads : (pc'[u] = "done" <=> pc[u] = "done") /\ (pc[u] = "done" => of'[u] = of[u])
    BY OthersStand
  <2> HIDE DEF Places, Announcer
  <2> QED BY <2>2, <2>3 DEF Once
<1> QED BY <1>1, <1>2, IInvAlways, PTL DEF Spec
=============================================================================
