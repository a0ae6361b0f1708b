------------------------------ MODULE KycRecord ------------------------------
(***************************************************************************)
(* What a KYC verification promises, without requests, locks or columns: a *)
(* completed upload is recorded at once, its images replace the earlier    *)
(* ones, its event is the last one, and only a verified one becomes the    *)
(* candidate's reference face, in the place of any other.                  *)
(***************************************************************************)
EXTENDS Sequences

CONSTANTS Candidates, Uploads

VARIABLES images,   \* the uploads whose images a candidate has: at most one
          active,   \* the uploads whose embeddings are its reference
          events    \* its kyc.completed events

vars == <<images, active, events>>

Verdicts == {"verified", "rejected"}

Init == /\ images = [c \in Candidates |-> {}]
        /\ active = [c \in Candidates |-> {}]
        /\ events = [c \in Candidates |-> <<>>]

Complete(c, u, v) ==
  /\ images' = [images EXCEPT ![c] = {u}]
  /\ active' = IF v = "verified" THEN [active EXCEPT ![c] = {u}] ELSE active
  /\ events' = [events EXCEPT ![c] = Append(@, [upload |-> u, verdict |-> v])]

Next == \E c \in Candidates, u \in Uploads, v \in Verdicts : Complete(c, u, v)

Spec == Init /\ [][Next]_vars
=============================================================================
