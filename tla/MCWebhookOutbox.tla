--------------------------- MODULE MCWebhookOutbox ---------------------------
(***************************************************************************)
(* WebhookOutbox for TLC; the constants are in the configurations.  For    *)
(* two organizations with a delivery each, TwoPartners fixes which is      *)
(* whose and starts one of them with a webhook that works.                 *)
(***************************************************************************)
EXTENDS WebhookOutbox, TLC

CONSTANTS d1, d2, acme, zeta

OwnerOf == (d1 :> acme) @@ (d2 :> zeta)

TwoPartners ==
  /\ Init /\ url[zeta] = "good"
  /\ [][Next /\ \A d \in Deliveries : owner'[d] \in {Nobody, OwnerOf[d]}]_vars
  /\ Fairness
=============================================================================
