----------------------------- MODULE TrustScore -----------------------------
(***************************************************************************)
(* The trust score of an ended session, compute_trust_score in             *)
(* src/backend/app/services/session_report.py.  The code works with floats *)
(* and rounds to one decimal; here a score is an integer number of TENTHS  *)
(* of a point (0..1000).                                                   *)
(*                                                                         *)
(* round(x, 1) is round-half-even on the exact value of the float.  A tie  *)
(* 100 * clean / total = k/10 + 1/20 whose float is not exact needs 2000   *)
(* to divide the reduced denominator, so up to 1999 frames half-even on    *)
(* the rational is what the code computes; beyond that the two may differ  *)
(* in the last tenth.                                                      *)
(***************************************************************************)
EXTENDS Integers

NoScore == -1               \* None: no frame was ever evaluated
Perfect == 1000             \* 100.0 points
ClientEventPenalty == 20    \* CLIENT_EVENT_PENALTY = 2.0 points

(* round(n / d) to the nearest integer, ties to the even one               *)
RoundHalfEven(n, d) ==
  LET q == n \div d
      r == n % d
  IN  IF 2 * r < d \/ (2 * r = d /\ q % 2 = 0) THEN q ELSE q + 1

Unclamped(x) == x    \* a mutation of Clamp: the bounds forgotten

(* max(0.0, min(100.0, score))                                             *)
Clamp(x) == IF x < 0 THEN 0 ELSE IF x > Perfect THEN Perfect ELSE x

(* A mutation of Score: client events cost nothing                         *)
FramesOnly(total, clean, clientEvents) ==
  IF total = 0 THEN NoScore ELSE Clamp(RoundHalfEven(Perfect * clean, total))

(* Rounding last, as the code does, or before the penalty makes no         *)
(* difference: the penalty is an even number of tenths.                    *)
Score(total, clean, clientEvents) ==
  IF total = 0
  THEN NoScore
  ELSE Clamp(RoundHalfEven(Perfect * clean, total) - ClientEventPenalty * clientEvents)
=============================================================================
