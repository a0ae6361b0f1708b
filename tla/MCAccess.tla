------------------------------ MODULE MCAccess ------------------------------
(***************************************************************************)
(* ApiAccess, Registration and LoginThrottle share no state: one of the    *)
(* three runs, the others rest.                                            *)
(***************************************************************************)
EXTENDS ApiAccess, Registration, LoginThrottle, TLC

CONSTANTS o1, o2, x1, x2, r1, r2, r3, ip, mail

TwoOrgs == {o1, o2}
TwoCandidates == {x1, x2}
OwnerOf == (x1 :> o1) @@ (x2 :> o2)
ThreeRequests == {r1, r2, r3}
Pairs == {<<o1, mail>>, <<o2, mail>>}
TwoCounters == {ip, mail}
LoginKinds == {{ip, mail}, {ip}}

Symmetry == Permutations(Callers) \cup Permutations(Admins) \cup Permutations(Sessions)

VARIABLE part

Init ==
  /\ part \in {"access", "registration", "login"}
  /\ AccessInit /\ LoginInit /\ RegistrationInit
  /\ part # "registration" => \A q, r \in Requests : who[q] = who[r]

Next ==
  /\ UNCHANGED part
  /\ \/ part = "access" /\ AccessNext /\ UNCHANGED <<registrationVars, loginVars>>
     \/ part = "registration" /\ RegistrationNext /\ UNCHANGED <<accessVars, loginVars>>
     \/ part = "login" /\ LoginNext /\ UNCHANGED <<accessVars, registrationVars>>

MCSpec == Init /\ [][Next]_<<part, accessVars, registrationVars, loginVars>>
=============================================================================
