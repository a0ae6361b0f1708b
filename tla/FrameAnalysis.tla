---------------------------- MODULE FrameAnalysis ----------------------------
(***************************************************************************)
(* What is decided about one picture: _analyze_frame and _check_face of    *)
(* routers/proctoring.py over count_people (services/person_detector.py)   *)
(* and services/face_service.py.  The outputs of the neural networks are   *)
(* the input; what the code computes from them is modelled exactly.        *)
(*                                                                         *)
(* An observation o has o.boxes, the persons detected above the confidence *)
(* threshold, and o.faces.  Areas are thousandths of the picture; scores,  *)
(* ratios and similarities thousandths; angles degrees; lengths are in an  *)
(* arbitrary fine unit.                                                    *)
(***************************************************************************)
EXTENDS Integers, Sequences

CONSTANTS
  MatchThreshold,     \* settings.face_match_threshold
  LiveThreshold,      \* settings.liveness_threshold
  YawLimit, DownLimit, UpLimit,   \* settings.head_..._threshold
  GazeLimit           \* settings.gaze_deviation_threshold

ASSUME Thresholds ==
  /\ MatchThreshold \in Int /\ LiveThreshold \in Int /\ GazeLimit \in Nat
  /\ YawLimit \in Nat /\ DownLimit \in Nat /\ UpLimit \in Nat

(* What a picture can show: counted persons, and faces with what the       *)
(* networks say of them                                                    *)
Eye  == [pupil : Int, a : Int, b : Int]
Face == [area : Nat, similarity : Int, real : Int \X Int, landmarks : BOOLEAN,
         yaw : Int, pitch : Int, ear : Int, eyesX : Eye \X Eye, eyesY : Eye \X Eye]
Pictures == [boxes : Seq([area : Nat, conf : 0 .. 1000]), faces : Seq(Face)]

(* The gaze reported for closed eyes; where the lids of open eyes put the  *)
(* pupil                                                                   *)
Neutral == 500
RestY   == 350

Abs(n) == IF n < 0 THEN -n ELSE n
Low(a, b) == IF a < b THEN a ELSE b

-----------------------------------------------------------------------------
(* count_people: boxes of at least 2% of the picture count.                *)
LargeBoxes(o) == {i \in DOMAIN o.boxes : o.boxes[i].area >= 20}
NoPerson(o) == LargeBoxes(o) = {}
Several(o) == \E i, j \in LargeBoxes(o) : i # j
OnePerson(o) == ~NoPerson(o) /\ ~Several(o)
PersonConf(o) ==
  IF NoPerson(o) THEN 0
  ELSE LET i == CHOOSE i \in LargeBoxes(o) : \A j \in LargeBoxes(o) : o.boxes[j].conf <= o.boxes[i].conf
       IN  o.boxes[i].conf

(* match, check_liveness (the two models' real-face probability, averaged) *)
Matches(f) == f.similarity >= MatchThreshold
RealScore(f) == (f.real[1] + f.real[2]) \div 2
IsLive(f) == RealScore(f) >= LiveThreshold

(* _gaze_ratio: where the pupil is between two corners or lids             *)
GazeRatio(pupil, a, b) ==
  LET lo == Low(a, b)
      span == Abs(a - b)
      ratio == ((pupil - lo) * 1000) \div span
  IN  IF span < 2 THEN Neutral
      ELSE IF ratio < 0 THEN 0 ELSE IF ratio > 1000 THEN 1000 ELSE ratio

BothEyes(e) == (GazeRatio(e[1].pupil, e[1].a, e[1].b) + GazeRatio(e[2].pupil, e[2].a, e[2].b)) \div 2

(* estimate_pose: the head from solvePnP, 0 without landmarks; the gaze,   *)
(* neutral without landmarks or when the eyes are closed                   *)
Yaw(f)   == IF f.landmarks THEN f.yaw ELSE 0
Pitch(f) == IF f.landmarks THEN f.pitch ELSE 0
GazeX(f) == IF f.landmarks /\ f.ear > 180 THEN BothEyes(f.eyesX) ELSE Neutral
GazeY(f) == IF f.landmarks /\ f.ear > 180 THEN BothEyes(f.eyesY) ELSE Neutral

HeadAway(f) == Abs(Yaw(f)) > YawLimit \/ Pitch(f) < -DownLimit \/ Pitch(f) > UpLimit
EyesAway(f) == Abs(GazeX(f) - 500) > GazeLimit \/ Abs(GazeY(f) - RestY) > GazeLimit

-----------------------------------------------------------------------------
(* Mutations: a face judged although the detector saw several persons; the *)
(* score itself stored as confidence.                                      *)
AloneByFace(o) == ~NoPerson(o) /\ Len(o.faces) = 1

(* _analyze_frame: one person with one face is matched, a matched face is  *)
(* checked for liveness, a live one for pose and gaze.                     *)
Alone(o) == OnePerson(o) /\ Len(o.faces) = 1
Recognised(o) == Alone(o) /\ Matches(o.faces[1])
Confirmed(o) == Recognised(o) /\ IsLive(o.faces[1])

LookingAway(o, mode) ==
  mode # "interview" /\ Confirmed(o) /\ (HeadAway(o.faces[1]) \/ EyesAway(o.faces[1]))

Verdict(o, mode) ==
  CASE NoPerson(o) \/ (OnePerson(o) /\ Len(o.faces) = 0) -> "candidate_missing"
    [] Several(o) \/ (OnePerson(o) /\ Len(o.faces) > 1) -> "multiple_people"
    [] Alone(o) /\ ~Recognised(o) -> "face_mismatch"
    [] Recognised(o) /\ ~Confirmed(o) -> "liveness_failed"
    [] Confirmed(o) -> IF LookingAway(o, mode) THEN "looking_away" ELSE "none"

(* The columns of session_frames that are filled                           *)
Measured(o) ==
  [match |-> IF ~Alone(o) THEN "unset" ELSE IF Matches(o.faces[1]) THEN "yes" ELSE "no",
   live  |-> IF ~Recognised(o) THEN "unset" ELSE IF IsLive(o.faces[1]) THEN "yes" ELSE "no",
   posed |-> Confirmed(o)]

PlainScore(o, mode) ==
  IF Verdict(o, mode) = "face_mismatch" THEN o.faces[1].similarity ELSE PersonConf(o)

(* evaluate_frame: the confidence stored with a violation                  *)
Confidence(o, mode) ==
  CASE Verdict(o, mode) = "face_mismatch" -> 1000 - o.faces[1].similarity
    [] Verdict(o, mode) = "liveness_failed" -> 1000 - RealScore(o.faces[1])
    [] OTHER -> PersonConf(o)

-----------------------------------------------------------------------------
(* get_primary_face: the first of the largest faces                        *)
PrimaryFace(faces) ==
  CHOOSE i \in DOMAIN faces :
    /\ \A j \in DOMAIN faces : faces[j].area <= faces[i].area
    /\ \A j \in DOMAIN faces : j < i => faces[j].area < faces[i].area

(* get_hold_id_faces: of exactly two, the live face and the card           *)
HoldIdFaces(faces) == IF faces[2].area > faces[1].area THEN <<2, 1>> ELSE <<1, 2>>

(* _check_face: the gate before a session                                  *)
CheckFace(o) ==
  LET f == o.faces[PrimaryFace(o.faces)]
  IN  CASE Len(o.faces) = 0 -> "no_face_detected"
        [] Len(o.faces) > 0 /\ ~Matches(f) -> "face_mismatch"
        [] Len(o.faces) > 0 /\ Matches(f) /\ ~IsLive(f) -> "liveness_failed"
        [] OTHER -> "verified"

-----------------------------------------------------------------------------
(* _expand_and_crop: a box side b beside another side c, grown by          *)
(* scale/10 but not beyond a picture of w by h pixels of size unit         *)
Grown(b, c, w, h, unit, scale) ==
  Low((b * (h - 1) * unit) \div c, Low((w - 1) * unit, (b * scale) \div 10))

(* One axis of the crop, in half units: a side n around the centre mid/2,  *)
(* moved into a picture whose last pixel is at size; int() then gives the  *)
(* pixels.                                                                 *)
Shifted(mid, n, size) ==
  LET lo == mid - n
      l1 == IF lo < 0 THEN 0 ELSE lo
      r1 == IF lo < 0 THEN mid + n - lo ELSE mid + n
  IN  IF r1 > 2 * size THEN [lo |-> l1 - (r1 - 2 * size), hi |-> 2 * size]
      ELSE [lo |-> l1, hi |-> r1]
=============================================================================
