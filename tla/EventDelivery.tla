---------------------------- MODULE EventDelivery ----------------------------
(***************************************************************************)
(* What the webhook outbox promises about an event, without workers, locks *)
(* or clocks: a queued event is settled once, as delivered or as failed;   *)
(* it is delivered only if the partner received it; and the partner may    *)
(* receive it any number of times, also late, but only from requests sent  *)
(* before it was settled.                                                  *)
(***************************************************************************)
EXTENDS Naturals

CONSTANT Deliveries

VARIABLES status,    \* "absent", "pending", "delivered", "failed"
          received,  \* how often the partner got it
          astray     \* requests that may still reach the partner

vars == <<status, received, astray>>

Init == /\ status = [d \in Deliveries |-> "absent"]
        /\ received = [d \in Deliveries |-> 0]
        /\ astray = [d \in Deliveries |-> 0]

Queue(d) ==
  /\ status[d] = "absent"
  /\ status' = [status EXCEPT ![d] = "pending"]
  /\ UNCHANGED <<received, astray>>

Receive(d) ==
  /\ status[d] = "pending"
  /\ received' = [received EXCEPT ![d] = @ + 1]
  /\ UNCHANGED <<status, astray>>

(* The sender of requests for S no longer waits for them.                  *)
GiveUp(S) ==
  /\ \A d \in S : status[d] = "pending"
  /\ astray' = [d \in Deliveries |-> IF d \in S THEN astray[d] + 1 ELSE astray[d]]
  /\ UNCHANGED <<status, received>>

Arrive(d) ==
  /\ astray[d] > 0
  /\ astray' = [astray EXCEPT ![d] = @ - 1]
  /\ received' = [received EXCEPT ![d] = @ + 1]
  /\ UNCHANGED status

(* One commit may settle several events: A delivered, D failed.            *)
Settle(A, D) ==
  /\ \A d \in A : status[d] = "pending" /\ received[d] > 0
  /\ \A d \in D : status[d] = "pending"
  /\ status' = [d \in Deliveries |-> IF d \in A THEN "delivered"
                                   ELSE IF d \in D THEN "failed" ELSE status[d]]
  /\ UNCHANGED <<received, astray>>

Next == \/ \E d \in Deliveries : Queue(d) \/ Receive(d) \/ Arrive(d)
        \/ \E S \in SUBSET Deliveries : GiveUp(S)
        \/ \E A, D \in SUBSET Deliveries : Settle(A, D)

Spec == Init /\ [][Next]_vars
=============================================================================
