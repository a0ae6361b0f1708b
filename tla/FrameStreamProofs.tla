-------------------------- MODULE FrameStreamProofs --------------------------
(***************************************************************************)
(* Theorems about FrameAnalysis and FrameStream, for every number of       *)
(* handlers, frames and failures and every set of pictures.                *)
(***************************************************************************)
EXTENDS FrameStream, WellFoundedInduction, TLAPS

(* The crop handed to the liveness models lies inside the picture and has  *)
(* the side it was given, wherever the face is, as long as that side fits. *)
LEMMA CropStaysInside ==
  ASSUME NEW mid \in Int, NEW size \in Nat, NEW n \in 0 .. size
  PROVE  LET crop == Shifted(mid, n, size)
         IN  0 <= crop.lo /\ crop.hi <= 2 * size /\ crop.hi - crop.lo = 2 * n
BY DEF Shifted

(* The half side of the crop is at most half the width it may have.        *)
LEMMA GrownFits ==
  ASSUME NEW b \in Nat \ {0}, NEW c \in Nat \ {0}, NEW w \in Nat \ {0}, NEW h \in Nat \ {0},
         NEW unit \in Nat, NEW scale \in Nat
  PROVE  Grown(b, c, w, h, unit, scale) \in 0 .. (w - 1) * unit
<1> DEFINE x == (b * (h - 1) * unit) \div c
           y == (w - 1) * unit
           z == (b * scale) \div 10
<1>1. y \in Nat
  OBVIOUS
<1>2. x \in Nat
  <2> DEFINE p == b * (h - 1) * unit
  <2>1. p \in Nat
    <3>1. b * (h - 1) \in Nat
      OBVIOUS
    <3> QED BY <3>1
  <2> HIDE DEF p
  <2>2. p \div c \in Nat
    BY <2>1
  <2> QED BY <2>2 DEF p
<1>3. z \in Nat
  <2> DEFINE p == b * scale
  <2>1. p \in Nat
    OBVIOUS
  <2> HIDE DEF p
  <2>2. p \div 10 \in Nat
    BY <2>1
  <2> QED BY <2>2 DEF p
<1> HIDE DEF x, y, z
<1>4. Low(x, Low(y, z)) \in 0 .. y
  BY <1>1, <1>2, <1>3 DEF Low
<1> QED BY <1>4 DEF Grown, x, y, z

(* The two together: a face box of any shape, anywhere, even partly outside*)
(* the picture and at any scale, gives a crop inside the picture, with the *)
(* side that _expand_and_crop computed.                                    *)
THEOREM CropFits ==
  ASSUME NEW b \in Nat \ {0}, NEW c \in Nat \ {0}, NEW w \in Nat \ {0}, NEW h \in Nat \ {0},
         NEW unit \in Nat, NEW scale \in Nat, NEW mid \in Int
  PROVE  LET n    == Grown(b, c, w, h, unit, scale)
             crop == Shifted(mid, n, (w - 1) * unit)
         IN  0 <= crop.lo /\ crop.hi <= 2 * ((w - 1) * unit) /\ crop.hi - crop.lo = 2 * n
<1> DEFINE size == (w - 1) * unit
           n == Grown(b, c, w, h, unit, scale)
<1>1. size \in Nat
  OBVIOUS
<1>2. n \in 0 .. size
  BY GrownFits
<1> HIDE DEF size, n
<1>3. LET crop == Shifted(mid, n, size)
      IN  0 <= crop.lo /\ crop.hi <= 2 * size /\ crop.hi - crop.lo = 2 * n
  BY <1>1, <1>2, CropStaysInside
<1> QED BY <1>3 DEF size, n

Ratios == 0 .. 1000

(* _gaze_ratio is a ratio, whatever the landmarks are: also for a pupil    *)
(* outside the eye and for corners that coincide.                          *)
LEMMA GazeBounded ==
  ASSUME NEW p \in Int, NEW a \in Int, NEW b \in Int
  PROVE  GazeRatio(p, a, b) \in Ratios
<1> DEFINE lo == Low(a, b)
           span == Abs(a - b)
           ratio == ((p - lo) * 1000) \div span
<1>1. lo \in Int /\ span \in Nat
  BY DEF Low, Abs
<1>2. span >= 2 => ratio \in Int
  <2> DEFINE d == (p - lo) * 1000
  <2>1. d \in Int
    BY <1>1
  <2> HIDE DEF d, span
  <2>2. span >= 2 => d \div span \in Int
    BY <1>1, <2>1
  <2> QED BY <2>2 DEF d
<1> HIDE DEF lo, span, ratio
<1>3. GazeRatio(p, a, b) = IF span < 2 THEN Neutral
                           ELSE IF ratio < 0 THEN 0 ELSE IF ratio > 1000 THEN 1000 ELSE ratio
  BY DEF GazeRatio, lo, span, ratio
<1> QED BY <1>1, <1>2, <1>3 DEF Neutral, Ratios

(* What a face says about gaze is a ratio on both axes.                    *)
LEMMA GazesBounded ==
  ASSUME NEW f \in Face
  PROVE  GazeX(f) \in Ratios /\ GazeY(f) \in Ratios
<1>1. ASSUME NEW e \in Eye \X Eye PROVE BothEyes(e) \in Ratios
  <2> DEFINE x == GazeRatio(e[1].pupil, e[1].a, e[1].b)
             y == GazeRatio(e[2].pupil, e[2].a, e[2].b)
  <2>1. x \in Ratios /\ y \in Ratios
    <3>1. e[1] \in Eye /\ e[2] \in Eye
      OBVIOUS
    <3>2. ASSUME NEW i \in Eye PROVE GazeRatio(i.pupil, i.a, i.b) \in Ratios
      <4>1. i.pupil \in Int /\ i.a \in Int /\ i.b \in Int
        BY DEF Eye
      <4> QED BY <4>1, GazeBounded
    <3> QED BY <3>1, <3>2
  <2>2. BothEyes(e) = (x + y) \div 2
    BY DEF BothEyes
  <2> HIDE DEF x, y
  <2>3. (x + y) \div 2 \in Ratios
    BY <2>1 DEF Ratios
  <2> QED BY <2>2, <2>3
<1>2. f.eyesX \in Eye \X Eye /\ f.eyesY \in Eye \X Eye
  BY DEF Face
<1> QED BY <1>1, <1>2 DEF GazeX, GazeY, Neutral, Ratios

(* The two axes have different neutral points.  A face whose eyes were not *)
(* measured is not flagged for its gaze exactly when the threshold is at   *)
(* least what the points differ by, and no gaze is flagged at all when the *)
(* threshold reaches the wider side of the vertical axis.                  *)
THEOREM GazeThreshold ==
  /\ \A f \in Face : f.landmarks = FALSE \/ ~(f.ear > 180) => (EyesAway(f) <=> GazeLimit < 150)
  /\ GazeLimit >= 650 => \A f \in Face : ~EyesAway(f)
<1>1. ASSUME NEW f, f.landmarks = FALSE \/ ~(f.ear > 180)
      PROVE  EyesAway(f) <=> GazeLimit < 150
  BY <1>1, Thresholds DEF EyesAway, GazeX, GazeY, Neutral, RestY, Abs
<1>2. ASSUME GazeLimit >= 650, NEW f \in Face PROVE ~EyesAway(f)
  <2> DEFINE x == GazeX(f)
             y == GazeY(f)
  <2>1. x \in 0 .. 1000 /\ y \in 0 .. 1000
    BY GazesBounded DEF Ratios
  <2> HIDE DEF x, y
  <2>2. ~(Abs(x - 500) > GazeLimit) /\ ~(Abs(y - RestY) > GazeLimit)
    BY <1>2, <2>1, Thresholds DEF Abs, RestY
  <2> QED BY <2>2 DEF EyesAway, x, y
<1> QED BY <1>1, <1>2

-----------------------------------------------------------------------------
(* Verdicts, measurements and confidences                                  *)

(* Every picture falls into one branch of _analyze_frame.                  *)
THEOREM VerdictTells ==
  ASSUME NEW o \in Pictures, NEW md \in Modes
  PROVE  LET v == Verdict(o, md)
             k == Measured(o)
         IN  /\ v \in Verdicts /\ k \in Facts
             /\ v \in {"none", "looking_away"} <=> k.match = "yes" /\ k.live = "yes" /\ k.posed
             /\ v = "face_mismatch" <=> k.match = "no"
             /\ v = "liveness_failed" <=> k.live = "no"
             /\ v = "looking_away" => md = "exam"
<1> DEFINE n == Len(o.faces)
<1>1. n \in Nat
  BY DEF Pictures
<1>2. CASE NoPerson(o)
  BY <1>1, <1>2 DEF Verdict, Measured, OnePerson, Several, Alone, Recognised, Confirmed, NoPerson, Types, Verdicts, Facts
<1>3. CASE Several(o)
  BY <1>1, <1>3 DEF Verdict, Measured, OnePerson, Several, Alone, Recognised, Confirmed, NoPerson, Types, Verdicts, Facts
<1>4. CASE OnePerson(o)
  <2> DEFINE f == o.faces[1]
  <2>1. ~NoPerson(o) /\ ~Several(o)
    BY <1>4 DEF OnePerson
  <2>2. CASE n # 1
    <3>1. ~Alone(o) /\ ~Recognised(o) /\ ~Confirmed(o)
      BY <2>2 DEF Alone, Recognised, Confirmed
    <3>2. Verdict(o, md) = IF Len(o.faces) = 0 THEN "candidate_missing" ELSE "multiple_people"
      <4>1. CASE n = 0
        BY <1>4, <2>1, <4>1 DEF Verdict, Alone, Recognised, Confirmed
      <4>2. CASE n # 0
        <5>1. n > 1
          <6> HIDE DEF n
          <6> QED BY <1>1, <2>2, <4>2
        <5> QED BY <1>4, <2>1, <2>2, <4>2, <5>1 DEF Verdict, Alone, Recognised, Confirmed
      <4> QED BY <4>1, <4>2
    <3>3. Measured(o) = [match |-> "unset", live |-> "unset", posed |-> FALSE]
      BY <2>2 DEF Measured, Alone, Recognised, Confirmed
    <3> QED BY <3>2, <3>3 DEF Types, Verdicts, Facts
  <2>3. CASE n = 1 /\ ~Matches(f)
    BY <1>4, <2>1, <2>3 DEF Verdict, Measured, Alone, Recognised, Confirmed, Types, Verdicts, Facts
  <2>4. CASE n = 1 /\ Matches(f) /\ ~IsLive(f)
    BY <1>4, <2>1, <2>4 DEF Verdict, Measured, Alone, Recognised, Confirmed, Types, Verdicts, Facts
  <2>5. CASE n = 1 /\ Matches(f) /\ IsLive(f)
    <3>1. LookingAway(o, md) => md = "exam"
      BY DEF LookingAway, Modes
    <3>2. Alone(o) /\ Recognised(o) /\ Confirmed(o)
      BY <1>4, <2>5 DEF Alone, Recognised, Confirmed
    <3>3. Verdict(o, md) = IF LookingAway(o, md) THEN "looking_away" ELSE "none"
      BY <2>1, <2>5, <3>2 DEF Verdict
    <3>4. Measured(o) = [match |-> "yes", live |-> "yes", posed |-> TRUE]
      BY <2>5, <3>2 DEF Measured
    <3> QED BY <3>1, <3>3, <3>4 DEF Types, Verdicts, Facts
  <2> QED BY <2>2, <2>3, <2>4, <2>5
<1> QED BY <1>2, <1>3, <1>4 DEF OnePerson

LEMMA BoxesAreScored ==
  ASSUME NEW o \in Pictures, NEW i \in LargeBoxes(o) PROVE o.boxes[i].conf \in 0 .. 1000
<1> DEFINE Box == [area : Nat, conf : 0 .. 1000]
<1>1. o.boxes \in Seq(Box) /\ i \in DOMAIN o.boxes
  BY DEF Pictures, LargeBoxes
<1>2. o.boxes[i] \in Box
  <2> HIDE DEF Box
  <2> QED BY <1>1
<1> QED BY <1>2

LEMMA FacesAreMeasured ==
  ASSUME NEW o \in Pictures, Len(o.faces) = 1
  PROVE  o.faces[1].similarity \in Int /\ RealScore(o.faces[1]) \in Int
<1>1. o.faces \in Seq(Face)
  BY DEF Pictures
<1>2. o.faces[1] \in Face
  BY <1>1
<1> QED BY <1>2 DEF Face, RealScore

(* One of the boxes that count has the greatest confidence.                *)
LEMMA BestBox ==
  ASSUME NEW o \in Pictures, ~NoPerson(o)
  PROVE  \E i \in LargeBoxes(o) : \A j \in LargeBoxes(o) : o.boxes[j].conf <= o.boxes[i].conf
<1> DEFINE T == {1000 - o.boxes[i].conf : i \in LargeBoxes(o)}
<1>1. \A i \in LargeBoxes(o) : o.boxes[i].conf \in 0 .. 1000
  BY BoxesAreScored
<1>2. T \subseteq Nat /\ T # {}
  <2>1. ASSUME NEW i \in LargeBoxes(o) PROVE 1000 - o.boxes[i].conf \in Nat
    <3> DEFINE a == o.boxes[i].conf
    <3>1. a \in 0 .. 1000
      BY <1>1
    <3> HIDE DEF a
    <3>2. 1000 - a \in Nat
      BY <3>1
    <3> QED BY <3>2 DEF a
  <2> QED BY <2>1 DEF NoPerson
<1>3. \E x \in T : \A y \in T : ~(<<y, x>> \in OpToRel(<, Nat))
  <2> HIDE DEF T
  <2> QED BY <1>2, WFMin, NatLessThanWellFounded, Zenon
<1>4. PICK x \in T : \A y \in T : x <= y
  <2> HIDE DEF T
  <2>1. PICK x \in T : \A y \in T : ~(<<y, x>> \in OpToRel(<, Nat))
    BY <1>3, Zenon
  <2>2. \A y \in T : ~(y < x)
    BY <1>2, <2>1, Zenon DEF OpToRel
  <2> QED BY <1>2, <2>2
<1>5. PICK i \in LargeBoxes(o) : x = 1000 - o.boxes[i].conf
  OBVIOUS
<1>6. ASSUME NEW j \in LargeBoxes(o) PROVE o.boxes[j].conf <= o.boxes[i].conf
  <2> DEFINE a == o.boxes[i].conf
             b == o.boxes[j].conf
  <2>1. a \in 0 .. 1000 /\ b \in 0 .. 1000
    BY <1>1
  <2>2. x <= 1000 - b
    BY <1>4
  <2>3. x = 1000 - a
    BY <1>5
  <2>4. b <= a
    <3> HIDE DEF a, b
    <3> QED BY <2>1, <2>2, <2>3
  <2> QED BY <2>4
<1> QED BY <1>6

LEMMA PersonConfBounded == ASSUME NEW o \in Pictures PROVE PersonConf(o) \in 0 .. 1000
<1>1. CASE NoPerson(o)
  BY <1>1 DEF PersonConf
<1>2. CASE ~NoPerson(o)
  <2>1. PICK i \in LargeBoxes(o) : PersonConf(o) = o.boxes[i].conf
    BY <1>2, BestBox DEF PersonConf
  <2> QED BY <2>1, BoxesAreScored
<1> QED BY <1>1, <1>2

(* A mismatch and a spoof are stored with what their score lacked.         *)
THEOREM ConfidenceTells ==
  ASSUME NEW o \in Pictures, NEW md \in Modes
  PROVE  /\ Confidence(o, md) \in Int
         /\ Verdict(o, md) = "face_mismatch" => Confidence(o, md) > 1000 - MatchThreshold
         /\ Verdict(o, md) = "liveness_failed" => Confidence(o, md) > 1000 - LiveThreshold
<1> DEFINE f == o.faces[1]
           v == Verdict(o, md)
<1>1. PersonConf(o) \in Int
  BY PersonConfBounded
<1>2. ASSUME v \in {"face_mismatch", "liveness_failed"}
      PROVE  f.similarity \in Int /\ RealScore(f) \in Int
  <2>1. Measured(o).match # "unset"
    <3>1. v = "face_mismatch" <=> Measured(o).match = "no"
      BY VerdictTells
    <3>2. v = "liveness_failed" <=> Measured(o).live = "no"
      BY VerdictTells
    <3>3. Measured(o).live = "no" => Measured(o).match # "unset"
      BY DEF Measured, Recognised
    <3> QED BY <1>2, <3>1, <3>2, <3>3
  <2>2. Len(o.faces) = 1
    BY <2>1 DEF Measured, Alone
  <2> QED BY <2>2, FacesAreMeasured
<1>3. v = "face_mismatch" => ~(f.similarity >= MatchThreshold)
  <2>1. v = "face_mismatch" => Measured(o).match = "no"
    BY VerdictTells
  <2> QED BY <2>1 DEF Measured, Matches
<1>4. v = "liveness_failed" => ~(RealScore(f) >= LiveThreshold)
  <2>1. v = "liveness_failed" => Measured(o).live = "no"
    BY VerdictTells
  <2> QED BY <2>1 DEF Measured, IsLive
<1> HIDE DEF v, f
<1>5. Confidence(o, md) = CASE v = "face_mismatch" -> 1000 - f.similarity
                            [] v = "liveness_failed" -> 1000 - RealScore(f)
                            [] OTHER -> PersonConf(o)
  BY DEF Confidence, v, f
<1>6. CASE v = "face_mismatch"
  BY <1>2, <1>3, <1>5, <1>6, Thresholds DEF v, f
<1>7. CASE v = "liveness_failed"
  BY <1>2, <1>4, <1>5, <1>7, Thresholds DEF v, f
<1>8. CASE v \notin {"face_mismatch", "liveness_failed"}
  BY <1>1, <1>5, <1>8 DEF v, f
<1> QED BY <1>6, <1>7, <1>8

-----------------------------------------------------------------------------
(* The gate before a session and the frames within it                      *)

(* Some face is the largest: a shortest stretch of the list without one    *)
(* would be one face longer than a stretch that has one.                   *)
LEMMA LargestFace ==
  ASSUME NEW faces \in Seq(Face), Len(faces) > 0
  PROVE  \E i \in DOMAIN faces : \A j \in DOMAIN faces : faces[j].area <= faces[i].area
<1> DEFINE n == Len(faces)
           Area(j) == faces[j].area
           Lacks == {k \in 1 .. n : ~ \E i \in 1 .. k : \A j \in 1 .. k : Area(j) <= Area(i)}
<1>1. n \in Nat \ {0} /\ DOMAIN faces = 1 .. n
  OBVIOUS
<1>2. \A j \in 1 .. n : Area(j) \in Nat
  <2>1. \A j \in 1 .. n : faces[j] \in Face
    OBVIOUS
  <2> QED BY <2>1 DEF Face
<1> HIDE DEF n, Area
<1>3. ASSUME Lacks # {} PROVE FALSE
  <2>1. Lacks \subseteq Nat
    BY <1>1
  <2>2. PICK k \in Lacks : \A x \in Lacks : ~(<<x, k>> \in OpToRel(<, Nat))
    <3> HIDE DEF Lacks
    <3> QED BY <1>3, <2>1, WFMin, NatLessThanWellFounded, Zenon
  <2>3. k \in 1 .. n /\ ~ \E i \in 1 .. k : \A j \in 1 .. k : Area(j) <= Area(i)
    OBVIOUS
  <2>4. \A x \in Lacks : ~(x < k)
    <3> HIDE DEF Lacks
    <3> QED BY <2>1, <2>2, Zenon DEF OpToRel
  <2>5. k # 1
    <3>1. Area(1) <= Area(1)
      BY <1>1, <1>2
    <3> QED BY <2>3, <3>1
  <2>6. k - 1 \in 1 .. n /\ k - 1 < k
    BY <1>1, <2>3, <2>5
  <2>7. k - 1 \notin Lacks
    <3> HIDE DEF Lacks
    <3> QED BY <2>4, <2>6
  <2>8. PICK i \in 1 .. k - 1 : \A j \in 1 .. k - 1 : Area(j) <= Area(i)
    BY <2>6, <2>7
  <2>9. i \in 1 .. k /\ k \in 1 .. k /\ \A j \in 1 .. k : j = k \/ j \in 1 .. k - 1
    BY <1>1, <2>3
  <2>10. Area(i) \in Nat /\ Area(k) \in Nat /\ \A j \in 1 .. k - 1 : Area(j) \in Nat
    BY <1>1, <1>2, <2>3
  <2>11. CASE Area(k) <= Area(i)
    BY <2>3, <2>8, <2>9, <2>11
  <2>12. CASE ~(Area(k) <= Area(i))
    <3>1. ASSUME NEW j \in 1 .. k PROVE Area(j) <= Area(k)
      <4>1. CASE j = k
        BY <2>10, <4>1
      <4>2. CASE j \in 1 .. k - 1
        <5>1. Area(j) \in Nat /\ Area(j) <= Area(i)
          BY <2>8, <2>10, <4>2
        <5> QED BY <2>10, <2>12, <5>1
      <4> QED BY <2>9, <4>1, <4>2
    <3> QED BY <2>3, <2>9, <3>1
  <2> QED BY <2>11, <2>12
<1>4. \E i \in 1 .. n : \A j \in 1 .. n : Area(j) <= Area(i)
  <2>1. n \in 1 .. n
    BY <1>1
  <2> QED BY <1>3, <2>1
<1> QED BY <1>1, <1>4 DEF Area

(* get_primary_face chooses: there is a first of the largest faces, and it *)
(* is the one described.                                                   *)
LEMMA PrimaryFaceIs ==
  ASSUME NEW faces \in Seq(Face), Len(faces) > 0
  PROVE  LET i == PrimaryFace(faces)
         IN  /\ i \in DOMAIN faces
             /\ \A j \in DOMAIN faces : faces[j].area <= faces[i].area
             /\ \A j \in DOMAIN faces : j < i => faces[j].area < faces[i].area
<1> DEFINE Area(j) == faces[j].area
           Largest == {i \in DOMAIN faces : \A j \in DOMAIN faces : Area(j) <= Area(i)}
<1>1. Largest # {} /\ Largest \subseteq Nat /\ DOMAIN faces \subseteq Nat
  <2>1. Largest # {}
    BY LargestFace
  <2>2. DOMAIN faces = 1 .. Len(faces) /\ Len(faces) \in Nat
    OBVIOUS
  <2> QED BY <2>1, <2>2
<1>2. \A j \in DOMAIN faces : Area(j) \in Nat
  <2>1. \A j \in DOMAIN faces : faces[j] \in Face
    OBVIOUS
  <2> QED BY <2>1 DEF Face
<1>3. PICK i \in Largest : \A x \in Largest : ~(<<x, i>> \in OpToRel(<, Nat))
  <2> HIDE DEF Largest
  <2> QED BY <1>1, WFMin, NatLessThanWellFounded, Zenon
<1>4. \A x \in Largest : ~(x < i)
  <2> HIDE DEF Largest
  <2> QED BY <1>1, <1>3, Zenon DEF OpToRel
<1>5. i \in DOMAIN faces /\ \A j \in DOMAIN faces : Area(j) <= Area(i)
  OBVIOUS
<1>6. ASSUME NEW j \in DOMAIN faces, j < i PROVE Area(j) < Area(i)
  <2> HIDE DEF Area
  <2>1. j \notin Largest
    <3> HIDE DEF Largest
    <3> QED BY <1>4, <1>6
  <2>2. PICK k \in DOMAIN faces : ~(Area(k) <= Area(j))
    BY <2>1
  <2>3. Area(k) <= Area(i)
    BY <1>5
  <2> QED BY <1>2, <1>5, <2>2, <2>3
<1> QED BY <1>5, <1>6 DEF PrimaryFace

(* Of two faces, get_hold_id_faces takes as the candidate's the one that   *)
(* get_primary_face would, and as the card's the other one.                *)
THEOREM HoldIdTakesPrimary ==
  ASSUME NEW faces \in Seq(Face), Len(faces) = 2
  PROVE  /\ HoldIdFaces(faces)[1] = PrimaryFace(faces)
         /\ HoldIdFaces(faces)[2] \in DOMAIN faces \ {PrimaryFace(faces)}
<1> DEFINE i == PrimaryFace(faces)
           x == faces[1].area
           y == faces[2].area
<1>1. /\ i \in {1, 2} /\ DOMAIN faces = {1, 2}
      /\ \A j \in {1, 2} : faces[j].area <= faces[i].area
      /\ \A j \in {1, 2} : j < i => faces[j].area < faces[i].area
  <2>1. DOMAIN faces = {1, 2}
    OBVIOUS
  <2> QED BY <2>1, PrimaryFaceIs
<1>2. x \in Nat /\ y \in Nat
  <2>1. faces[1] \in Face /\ faces[2] \in Face
    OBVIOUS
  <2> QED BY <2>1 DEF Face
<1>3. i = 1 => y <= x
  BY <1>1
<1>4. i = 2 => x < y
  BY <1>1
<1> HIDE DEF i, x, y
<1>5. y > x <=> i = 2
  BY <1>1, <1>2, <1>3, <1>4
<1>6. HoldIdFaces(faces) = IF y > x THEN <<2, 1>> ELSE <<1, 2>>
  BY DEF HoldIdFaces, x, y
<1> QED BY <1>1, <1>5, <1>6 DEF i

(* The gate of face-check and the frames of the session judge alike: what  *)
(* a session counts as clean or only as looking away would have passed the *)
(* gate, and with one person in the picture and at most one face found,    *)
(* the two agree in every answer.  With more faces they do not: the gate   *)
(* takes the largest and admits what a session calls several people.       *)
THEOREM GateAgrees ==
  ASSUME NEW o \in Pictures, NEW md \in Modes
  PROVE  LET v == Verdict(o, md)
             g == CheckFace(o)
         IN  /\ v \in {"none", "looking_away"} => g = "verified"
             /\ OnePerson(o) /\ Len(o.faces) <= 1 =>
                  /\ g = "verified" <=> v \in {"none", "looking_away"}
                  /\ g = "face_mismatch" <=> v = "face_mismatch"
                  /\ g = "liveness_failed" <=> v = "liveness_failed"
                  /\ g = "no_face_detected" <=> v = "candidate_missing"
<1> DEFINE f == o.faces[1]
           v == Verdict(o, md)
           g == CheckFace(o)
<1>1. o.faces \in Seq(Face) /\ Len(o.faces) \in Nat
  BY DEF Pictures
<1>2. ASSUME Len(o.faces) = 1
      PROVE  g = IF ~Matches(f) THEN "face_mismatch"
                 ELSE IF ~IsLive(f) THEN "liveness_failed" ELSE "verified"
  <2> DEFINE faces == o.faces
  <2>1. PrimaryFace(faces) \in DOMAIN faces
    <3>1. faces \in Seq(Face) /\ Len(faces) > 0
      BY <1>1, <1>2
    <3> HIDE DEF faces
    <3> QED BY <3>1, PrimaryFaceIs
  <2>2. DOMAIN faces = {1}
    BY <1>1, <1>2
  <2>3. PrimaryFace(o.faces) = 1
    BY <2>1, <2>2
  <2> QED BY <1>2, <2>3 DEF CheckFace
<1>3. Len(o.faces) = 0 => g = "no_face_detected"
  BY DEF CheckFace
<1>4. ASSUME OnePerson(o), Len(o.faces) = 1
      PROVE  v = IF ~Matches(f) THEN "face_mismatch"
                 ELSE IF ~IsLive(f) THEN "liveness_failed"
                 ELSE IF LookingAway(o, md) THEN "looking_away" ELSE "none"
  BY <1>4 DEF Verdict, OnePerson, Alone, Recognised, Confirmed
<1>5. OnePerson(o) /\ Len(o.faces) = 0 => v = "candidate_missing"
  BY DEF Verdict, OnePerson, Alone, Recognised, Confirmed
<1>6. v \in {"none", "looking_away"} => OnePerson(o) /\ Len(o.faces) = 1
  BY VerdictTells DEF Measured, Alone, Recognised, Confirmed
<1> HIDE DEF v, g, f
<1>7. Len(o.faces) <= 1 => Len(o.faces) = 0 \/ Len(o.faces) = 1
  <2> DEFINE n == Len(o.faces)
  <2>1. n \in Nat
    BY <1>1
  <2> HIDE DEF n
  <2>2. n <= 1 => n = 0 \/ n = 1
    BY <2>1
  <2> QED BY <2>2 DEF n
<1>8. v \in {"none", "looking_away"} => g = "verified"
  BY <1>2, <1>4, <1>6
<1>9. ASSUME OnePerson(o), Len(o.faces) <= 1
      PROVE  /\ g = "verified" <=> v \in {"none", "looking_away"}
             /\ g = "face_mismatch" <=> v = "face_mismatch"
             /\ g = "liveness_failed" <=> v = "liveness_failed"
             /\ g = "no_face_detected" <=> v = "candidate_missing"
  <2>1. CASE Len(o.faces) = 1
    BY <1>2, <1>4, <1>9, <2>1
  <2>2. CASE Len(o.faces) = 0
    BY <1>3, <1>5, <1>9, <2>2
  <2> QED BY <1>7, <1>9, <2>1, <2>2
<1> QED BY <1>8, <1>9 DEF v, g

-----------------------------------------------------------------------------
(* The inductive invariant                                                 *)

(* What the measurements and the confidence stored with a verdict say      *)
Explained(v, k) ==
  /\ v \in {"none", "looking_away"} <=> k.match = "yes" /\ k.live = "yes" /\ k.posed
  /\ v = "face_mismatch" <=> k.match = "no"
  /\ v = "liveness_failed" <=> k.live = "no"
  /\ v = "looking_away" => mode = "exam"

Sure(v, c) ==
  /\ v = "face_mismatch" => c > 1000 - MatchThreshold
  /\ v = "liveness_failed" => c > 1000 - LiveThreshold

(* A handler past inference holds a result that explains itself; ...       *)
Analyzed ==
  \A h \in Handlers : step[h] \in {"bump", "upload", "store"} =>
    /\ Explained(result[h].verdict, result[h].measured)
    /\ Sure(result[h].verdict, result[h].confidence)

(* ... past the streak, its verdict has a place among the judged ones, and *)
(* an alarm has been earned there; ...                                     *)
Counted ==
  \A h \in Handlers : step[h] \in {"upload", "store"} =>
    \E i \in DOMAIN judged :
      /\ judged[i].frame = frame[h] /\ judged[i].verdict = result[h].verdict
      /\ Alarm(count[h]) <=> Evidence!Earned(i)

(* ... an alarm is stored only with its picture uploaded; ...              *)
Pictured == \A h \in Handlers : step[h] = "store" /\ Alarm(count[h]) => frame[h] \in snapshots

(* ... and no other handler and no row has its frame.                      *)
Own ==
  /\ \A r \in rows : r.frame \in 1 .. sent
  /\ \A h \in Handlers : step[h] # "idle" =>
       /\ frame[h] \in 1 .. sent
       /\ \A r \in rows : r.frame # frame[h]
       /\ \A g \in Handlers : g # h /\ step[g] # "idle" => frame[g] # frame[h]

Inv ==
  /\ TypeOK /\ StreakIsRun /\ Analyzed /\ Counted /\ Pictured /\ Own
  /\ SnapshotsStored /\ RowsTellWhy /\ ConfidenceFollows

LEMMA InvInit == Init => Inv
<1> SUFFICES ASSUME Init PROVE Inv
  OBVIOUS
<1> USE Sizes DEF Init, NoStreak, NoResult
<1>1. TypeOK
  BY DEF TypeOK, Verdicts, Facts, Modes
<1>2. StreakIsRun
  BY DEF StreakIsRun
<1>3. Analyzed /\ Counted /\ Pictured /\ Own
  BY DEF Analyzed, Counted, Pictured, Own
<1>4. SnapshotsStored /\ RowsTellWhy /\ ConfidenceFollows
  BY DEF SnapshotsStored, RowsTellWhy, ConfidenceFollows
<1> QED BY <1>1, <1>2, <1>3, <1>4 DEF Inv

(* The streak before and after a verdict: the run it is.                   *)
Run(js, k) ==
  LET n == Len(js)
      c == k.count
  IN  /\ c <= n
      /\ c = 0 <=> n = 0 \/ js[n].verdict = "none"
      /\ c > 0 => /\ \A i \in n - c + 1 .. n : js[i].verdict = k.type
                  /\ n = c \/ js[n - c].verdict # k.type

Judgement == [frame : 0 .. MaxFrames, verdict : Verdicts]
Streak == [type : Verdicts, count : Nat]

(* The script leaves a type and a count.                                   *)
LEMMA BumpedType ==
  ASSUME NEW k \in Streak, NEW v \in Verdicts PROVE Bumped(k, v) \in Streak
BY DEF Bumped, Streak, NoStreak, Verdicts

(* What the Lua script makes of the hash of a run is the hash of the run   *)
(* with one verdict more.                                                  *)
LEMMA RunGrows ==
  ASSUME NEW js \in Seq(Judgement), NEW k \in Streak, Run(js, k), NEW x \in Judgement
  PROVE  Run(Append(js, x), Bumped(k, x.verdict))
<1> DEFINE n == Len(js)
           c == k.count
           v == x.verdict
           ks == Append(js, x)
           b == Bumped(k, v)
<1> SUFFICES Run(ks, b)
  OBVIOUS
<1>1. n \in Nat /\ c \in Nat /\ v \in Verdicts
  BY DEF Streak, Judgement
<1>2. Len(ks) = n + 1 /\ ks[n + 1] = x /\ \A i \in 1 .. n : ks[i] = js[i]
  <2> HIDE DEF Judgement
  <2> QED OBVIOUS
<1>3. /\ c <= n
      /\ c = 0 <=> n = 0 \/ js[n].verdict = "none"
      /\ c > 0 => \A i \in n - c + 1 .. n : js[i].verdict = k.type
      /\ c > 0 => n = c \/ js[n - c].verdict # k.type
  BY DEF Run
<1>4. CASE v = "none"
  <2>1. b.count = 0
    BY <1>4 DEF Bumped, NoStreak
  <2> HIDE DEF ks, b, v
  <2> QED BY <1>1, <1>2, <1>4, <2>1 DEF Run, v
<1>5. CASE v # "none" /\ k.type = v /\ c > 0
  <2>1. b.count = c + 1 /\ b.type = v
    BY <1>5 DEF Bumped
  <2> HIDE DEF ks, b, n, c, v
  <2>2. \A i \in n + 1 - (c + 1) + 1 .. n + 1 : ks[i].verdict = v
    BY <1>1, <1>2, <1>3, <1>5 DEF v
  <2>3. n + 1 = c + 1 \/ ks[n + 1 - (c + 1)].verdict # v
    BY <1>1, <1>2, <1>3, <1>5
  <2>4. ks[n + 1].verdict # "none"
    BY <1>2, <1>5 DEF v
  <2> QED BY <1>1, <1>2, <1>3, <2>1, <2>2, <2>3, <2>4 DEF Run
<1>6. CASE v # "none" /\ (k.type # v \/ c = 0)
  <2>1. b.count = 1 /\ b.type = v
    BY <1>1, <1>6 DEF Bumped
  <2> HIDE DEF ks, b, n, c, v
  <2>2. n = 0 \/ js[n].verdict # v
    <3>1. CASE c = 0
      BY <1>3, <1>6, <3>1
    <3>2. CASE c # 0
      <4>1. c > 0 /\ n \in n - c + 1 .. n
        BY <1>1, <3>2
      <4>2. js[n].verdict = k.type
        BY <1>3, <4>1
      <4> QED BY <1>6, <3>2, <4>2
    <3> QED BY <3>1, <3>2
  <2>3. n + 1 = 1 \/ ks[n].verdict # v
    BY <1>1, <1>2, <2>2
  <2>4. ks[n + 1].verdict = v
    BY <1>2 DEF v
  <2> QED BY <1>1, <1>2, <1>6, <2>1, <2>3, <2>4 DEF Run
<1> QED BY <1>1, <1>4, <1>5, <1>6

(* An alarm is raised exactly when the last verdict has earned it.         *)
EarnedIn(js, i) ==
  /\ js[i].verdict # "none" /\ i >= Debounce
  /\ \A k \in i - Debounce + 1 .. i : js[k].verdict = js[i].verdict

(* The count reaches the limit exactly when the last Debounce verdicts are *)
(* equal and are a violation.                                              *)
LEMMA AlarmIsEarned ==
  ASSUME NEW js \in Seq(Judgement), NEW k \in Streak, Run(js, k), Len(js) > 0
  PROVE  Alarm(k.count) <=> EarnedIn(js, Len(js))
<1> DEFINE n == Len(js)
           c == k.count
           E == EarnedIn(js, n)
<1> SUFFICES c >= Debounce <=> E
  BY DEF Alarm
<1>1. n \in Nat /\ n > 0 /\ c \in Nat /\ Debounce \in Nat /\ Debounce > 0
  BY Sizes DEF Streak
<1>2. /\ c <= n
      /\ c = 0 <=> n = 0 \/ js[n].verdict = "none"
      /\ c > 0 => \A i \in n - c + 1 .. n : js[i].verdict = k.type
      /\ c > 0 => n = c \/ js[n - c].verdict # k.type
  BY DEF Run
<1>3. E <=> /\ js[n].verdict # "none" /\ n >= Debounce
            /\ \A i \in n - Debounce + 1 .. n : js[i].verdict = js[n].verdict
  BY DEF EarnedIn
<1> HIDE DEF n, c, E
<1>4. ASSUME c >= Debounce PROVE E
  BY <1>1, <1>2, <1>3, <1>4
<1>5. ASSUME E PROVE c >= Debounce
  <2>1. c > 0 /\ js[n].verdict = k.type
    <3>1. c # 0
      BY <1>1, <1>2, <1>3, <1>5
    <3>2. c > 0 /\ n \in n - c + 1 .. n
      BY <1>1, <3>1
    <3> QED BY <1>2, <3>2
  <2>2. SUFFICES ASSUME c < Debounce PROVE FALSE
    BY <1>1
  <2>3. n - c \in n - Debounce + 1 .. n /\ n # c
    BY <1>1, <1>2, <1>3, <1>5, <2>2
  <2> QED BY <1>2, <1>3, <1>5, <2>1, <2>3
<1> QED BY <1>4, <1>5

(* What was earned once stays earned.                                      *)
LEMMA EarnedStays ==
  ASSUME NEW js \in Seq(Judgement), NEW x \in Judgement, NEW i \in DOMAIN js
  PROVE  /\ i \in DOMAIN Append(js, x) /\ Append(js, x)[i] = js[i]
         /\ EarnedIn(Append(js, x), i) <=> EarnedIn(js, i)
<1> DEFINE ks == Append(js, x)
           n == Len(js)
<1>1. n \in Nat /\ DOMAIN js = 1 .. n /\ DOMAIN ks = 1 .. n + 1 /\ \A m \in 1 .. n : ks[m] = js[m]
  <2> HIDE DEF Judgement
  <2> QED OBVIOUS
<1>2. i \in 1 .. n /\ Debounce \in Nat /\ Debounce > 0
  BY <1>1, Sizes
<1>3. i \in DOMAIN ks /\ ks[i] = js[i]
  BY <1>1, <1>2
<1> HIDE DEF ks, n
<1>4. i >= Debounce => \A m \in i - Debounce + 1 .. i : ks[m] = js[m]
  BY <1>1, <1>2
<1>5. EarnedIn(ks, i) <=> EarnedIn(js, i)
  BY <1>3, <1>4 DEF EarnedIn
<1> QED BY <1>3, <1>5 DEF ks

-----------------------------------------------------------------------------
(* Steps                                                                   *)

(* StreakIsRun in terms of the judged verdicts and the hash                *)
LEMMA Typed ==
  TypeOK => /\ streak \in Streak /\ judged \in Seq(Judgement)
            /\ StreakIsRun <=> Run(judged, streak)
BY DEF TypeOK, Streak, Judgement, StreakIsRun, Run

(* EvidenceLog reads the same verdicts.                                    *)
LEMMA EarnedHere == \A i : Evidence!Earned(i) <=> EarnedIn(judged, i)
BY DEF Evidence!Earned, EarnedIn

(* What Bump does to the streak and to the verdicts judged                 *)
LEMMA BumpGrows ==
  ASSUME Inv, NEW h \in Handlers, Bump(h)
  PROVE  \E x \in Judgement :
           /\ x.frame = frame[h] /\ x.verdict = result[h].verdict
           /\ judged' = Append(judged, x) /\ streak' = Bumped(streak, x.verdict)
<1> DEFINE x == [frame |-> frame[h], verdict |-> result[h].verdict]
<1>1. frame[h] \in 0 .. MaxFrames /\ result[h].verdict \in Verdicts
  BY DEF Inv, TypeOK
<1>2. x \in Judgement
  BY <1>1 DEF Judgement
<1>3. judged' = Append(judged, x) /\ streak' = Bumped(streak, x.verdict)
  BY DEF Bump
<1>4. x.frame = frame[h] /\ x.verdict = result[h].verdict
  OBVIOUS
<1> HIDE DEF x
<1> QED BY <1>2, <1>3, <1>4

(* A hash that is lost starts a new run, like a clean frame.               *)
LEMMA ExpireGrows ==
  ASSUME Inv, Expire
  PROVE  \E x \in Judgement :
           x.verdict = "none" /\ judged' = Append(judged, x) /\ streak' = Bumped(streak, x.verdict)
<1> DEFINE x == [frame |-> 0, verdict |-> "none"]
<1>1. x \in Judgement
  BY Sizes DEF Judgement, Verdicts
<1>2. judged' = Append(judged, x) /\ streak' = Bumped(streak, x.verdict)
  BY DEF Expire, Bumped
<1>3. x.verdict = "none"
  OBVIOUS
<1> HIDE DEF x
<1> QED BY <1>1, <1>2, <1>3

(* The streak and the verdicts judged, in every step                       *)
LEMMA Grows ==
  ASSUME Inv, [Next]_vars
  PROVE  \/ UNCHANGED <<streak, judged>>
         \/ \E x \in Judgement : judged' = Append(judged, x) /\ streak' = Bumped(streak, x.verdict)
<1>1. CASE UNCHANGED <<streak, judged>>
  BY <1>1
<1>2. ASSUME NEW h \in Handlers, Bump(h)
      PROVE  \E x \in Judgement : judged' = Append(judged, x) /\ streak' = Bumped(streak, x.verdict)
  BY <1>2, BumpGrows
<1>3. CASE Expire
  BY <1>3, ExpireGrows
<1> QED BY <1>1, <1>2, <1>3 DEF Next, vars, Request, Analyze, Upload, Store, Fail

(* After every step the hash is that of the run.                           *)
LEMMA RunStep ==
  ASSUME Inv, [Next]_vars
  PROVE  streak' \in Streak /\ judged' \in Seq(Judgement) /\ Run(judged', streak')
<1>1. streak \in Streak /\ judged \in Seq(Judgement) /\ Run(judged, streak)
  BY Typed DEF Inv
<1>2. CASE UNCHANGED <<streak, judged>>
  BY <1>1, <1>2
<1>3. ASSUME NEW x \in Judgement, judged' = Append(judged, x), streak' = Bumped(streak, x.verdict)
      PROVE  streak' \in Streak /\ judged' \in Seq(Judgement) /\ Run(judged', streak')
  <2>1. x.verdict \in Verdicts
    BY DEF Judgement
  <2>2. Append(judged, x) \in Seq(Judgement)
    <3> HIDE DEF Judgement
    <3> QED BY <1>1
  <2> QED BY <1>1, <1>3, <2>1, <2>2, BumpedType, RunGrows
<1> QED BY <1>2, <1>3, Grows

(* A handler's result explains itself, whatever the picture.               *)
LEMMA AnalyzeTells ==
  ASSUME Inv, NEW h \in Handlers, NEW o \in Observations, Analyze(h, o)
  PROVE  \E v \in Verdicts, c \in Int, k \in Facts :
           /\ result' = [result EXCEPT ![h] = [verdict |-> v, confidence |-> c, measured |-> k]]
           /\ Explained(v, k) /\ Sure(v, c)
<1> DEFINE v == Verdict(o, mode)
           c == Confidence(o, mode)
           k == Measured(o)
<1>1. o \in Pictures /\ mode \in Modes
  BY Shapes DEF Inv, TypeOK
<1>2. v \in Verdicts /\ k \in Facts /\ Explained(v, k)
  BY <1>1, VerdictTells DEF Explained
<1>3. c \in Int /\ Sure(v, c)
  BY <1>1, ConfidenceTells DEF Sure
<1>4. result' = [result EXCEPT ![h] = [verdict |-> v, confidence |-> c, measured |-> k]]
  BY DEF Analyze
<1> HIDE DEF v, c, k
<1> QED BY <1>2, <1>3, <1>4

Result == [verdict : Verdicts, confidence : Int, measured : Facts]

LEMMA TypeStep ==
  ASSUME Inv, [Next]_vars
  PROVE  TypeOK'
<1> DEFINE Rest ==
      /\ mode \in Modes /\ sent \in 0 .. MaxFrames
      /\ step \in [Handlers -> {"idle", "infer", "bump", "upload", "store"}]
      /\ frame \in [Handlers -> 0 .. MaxFrames]
      /\ result \in [Handlers -> Result] /\ count \in [Handlers -> Nat]
      /\ snapshots \subseteq Numbers
      /\ rows \subseteq [frame : Numbers, verdict : Verdicts, measured : Facts]
      /\ violations \subseteq [frame : Numbers, type : Types, confidence : Int]
      /\ failures \in Nat
<1>1. Rest /\ streak \in Streak /\ judged \in Seq(Judgement)
  BY DEF Inv, TypeOK, Streak, Judgement, Result
<1>2. SUFFICES Rest'
  BY RunStep DEF TypeOK, Streak, Judgement, Result
<1>3. ASSUME NEW h \in Handlers, step[h] # "idle" PROVE frame[h] \in Numbers
  BY <1>1, <1>3, Sizes DEF Inv, Own, Numbers
<1>4. NoResult \in Result
  BY DEF NoResult, Result, Verdicts, Facts
<1>5. ASSUME NEW h \in Handlers, Idle(h)
      PROVE  /\ step' \in [Handlers -> {"idle", "infer", "bump", "upload", "store"}]
             /\ frame' \in [Handlers -> 0 .. MaxFrames]
             /\ result' \in [Handlers -> Result] /\ count' \in [Handlers -> Nat]
  <2> HIDE DEF Result
  <2> QED BY <1>1, <1>4, <1>5, Sizes DEF Idle, Result
<1>6. ASSUME NEW h \in Handlers, Request(h) PROVE Rest'
  BY <1>1, <1>6, Sizes DEF Request, tables
<1>7. ASSUME NEW h \in Handlers, NEW o \in Observations, Analyze(h, o) PROVE Rest'
  <2>1. PICK v \in Verdicts, c \in Int, k \in Facts :
           result' = [result EXCEPT ![h] = [verdict |-> v, confidence |-> c, measured |-> k]]
    BY <1>7, AnalyzeTells
  <2>2. [verdict |-> v, confidence |-> c, measured |-> k] \in Result
    BY DEF Result
  <2>3. result' \in [Handlers -> Result]
    BY <1>1, <2>1, <2>2
  <2> QED BY <1>1, <1>7, <2>3 DEF Analyze, tables
<1>8. ASSUME NEW h \in Handlers, Bump(h) PROVE Rest'
  <2>1. Bumped(streak, result[h].verdict) \in Streak
    BY <1>1, BumpedType DEF Result
  <2>2. Bumped(streak, result[h].verdict).count \in Nat
    BY <2>1 DEF Streak
  <2> QED BY <1>1, <1>8, <2>2 DEF Bump, tables
<1>9. ASSUME NEW h \in Handlers, Upload(h) PROVE Rest'
  BY <1>1, <1>3, <1>9 DEF Upload, tables
<1>10. ASSUME NEW h \in Handlers, Store(h) PROVE Rest'
  <2>1. step[h] = "store" /\ Idle(h)
    BY <1>10 DEF Store, Ready
  <2>2. frame[h] \in Numbers /\ result[h] \in Result
    BY <1>1, <1>3, <2>1
  <2>3. Row(h) \in [frame : Numbers, verdict : Verdicts, measured : Facts]
    BY <2>2 DEF Row, Result
  <2>4. ASSUME Alarm(count[h]) PROVE Violation(h) \in [frame : Numbers, type : Types, confidence : Int]
    <3>1. result[h].verdict # "none"
      BY <2>1, <2>4, EarnedHere DEF Inv, Counted, EarnedIn
    <3> QED BY <2>2, <3>1 DEF Violation, Result, Verdicts
  <2>5. /\ rows' \subseteq [frame : Numbers, verdict : Verdicts, measured : Facts]
        /\ violations' \subseteq [frame : Numbers, type : Types, confidence : Int]
    BY <1>1, <1>10, <2>3, <2>4 DEF Store
  <2> QED BY <1>1, <1>5, <1>10, <2>1, <2>5 DEF Store
<1>11. ASSUME NEW h \in Handlers, Fail(h) PROVE Rest'
  BY <1>1, <1>5, <1>11 DEF Fail, tables
<1>12. CASE Expire
  BY <1>1, <1>12 DEF Expire, handlers, tables
<1>13. CASE UNCHANGED vars
  BY <1>1, <1>13 DEF vars, handlers, tables
<1> QED BY <1>6, <1>7, <1>8, <1>9, <1>10, <1>11, <1>12, <1>13 DEF Next

LEMMA HandlersStep ==
  ASSUME Inv, [Next]_vars
  PROVE  Analyzed' /\ Pictured' /\ Own'
<1> USE DEF Inv
<1> DEFINE P == Analyzed' /\ Pictured' /\ Own'
<1>1. /\ sent \in Nat /\ step \in [Handlers -> {"idle", "infer", "bump", "upload", "store"}]
      /\ frame \in [Handlers -> 0 .. MaxFrames] /\ DOMAIN result = Handlers /\ DOMAIN count = Handlers
  BY Sizes DEF TypeOK
<1>2. ASSUME NEW h \in Handlers, Request(h) PROVE P
  <2>1. Analyzed' /\ Pictured'
    BY <1>1, <1>2 DEF Request, tables, Analyzed, Pictured, Explained
  <2>2. Own'
    BY <1>1, <1>2 DEF Request, tables, Own
  <2> QED BY <2>1, <2>2
<1>3. ASSUME NEW h \in Handlers, NEW o \in Observations, Analyze(h, o) PROVE P
  <2>1. PICK v \in Verdicts, c \in Int, k \in Facts :
           /\ result' = [result EXCEPT ![h] = [verdict |-> v, confidence |-> c, measured |-> k]]
           /\ Explained(v, k) /\ Sure(v, c)
    BY <1>3, AnalyzeTells
  <2>2. mode' = mode /\ step' = [step EXCEPT ![h] = "bump"]
    BY <1>3 DEF Analyze
  <2>3. Analyzed'
    BY <1>1, <2>1, <2>2 DEF Analyzed, Explained, Sure
  <2>4. Pictured' /\ Own'
    BY <1>1, <1>3 DEF Analyze, tables, Pictured, Own
  <2> QED BY <2>3, <2>4
<1>4. ASSUME NEW h \in Handlers, Bump(h) PROVE P
  <2>1. mode' = mode /\ result' = result /\ step[h] = "bump" /\ \A g \in Handlers \ {h} : step'[g] = step[g]
    BY <1>1, <1>4 DEF Bump
  <2>2. Analyzed'
    BY <1>1, <2>1 DEF Analyzed, Explained, Sure
  <2>3. Pictured' /\ Own'
    BY <1>1, <1>4 DEF Bump, tables, Pictured, Own
  <2> QED BY <2>2, <2>3
<1>5. ASSUME NEW h \in Handlers, Upload(h) PROVE P
  <2>1. Analyzed'
    BY <1>1, <1>5 DEF Upload, Analyzed, Explained
  <2>2. Pictured' /\ Own'
    BY <1>1, <1>5 DEF Upload, tables, Pictured, Own
  <2> QED BY <2>1, <2>2
<1>6. ASSUME NEW h \in Handlers, Store(h) PROVE P
  <2>1. /\ mode' = mode /\ sent' = sent /\ snapshots' = snapshots /\ step[h] = "store" /\ step'[h] = "idle"
        /\ \A g \in Handlers \ {h} :
             step'[g] = step[g] /\ frame'[g] = frame[g] /\ result'[g] = result[g] /\ count'[g] = count[g]
    BY <1>1, <1>6 DEF Store, Ready, Idle
  <2>2. \A r \in rows' : r \in rows \/ r.frame = frame[h]
    BY <1>6 DEF Store, Row
  <2>3. Analyzed' /\ Pictured'
    BY <2>1 DEF Analyzed, Pictured, Explained
  <2>4. Own'
    BY <2>1, <2>2 DEF Own
  <2> QED BY <2>3, <2>4
<1>7. ASSUME NEW h \in Handlers, Fail(h) PROVE P
  <2>1. /\ mode' = mode /\ sent' = sent /\ snapshots' = snapshots /\ rows' = rows /\ step'[h] = "idle"
        /\ \A g \in Handlers \ {h} :
             step'[g] = step[g] /\ frame'[g] = frame[g] /\ result'[g] = result[g] /\ count'[g] = count[g]
    BY <1>1, <1>7 DEF Fail, Idle, tables
  <2>2. Analyzed' /\ Pictured' /\ Own'
    BY <2>1 DEF Analyzed, Pictured, Own, Explained
  <2> QED BY <2>2
<1>8. CASE Expire
  BY <1>8 DEF Expire, handlers, tables, Analyzed, Pictured, Own, Explained
<1>9. CASE UNCHANGED vars
  BY <1>9 DEF vars, handlers, tables, Analyzed, Pictured, Own, Explained
<1> QED BY <1>2, <1>3, <1>4, <1>5, <1>6, <1>7, <1>8, <1>9 DEF Next

(* A place among the verdicts judged is kept when others are added.        *)
LEMMA CountedStep ==
  ASSUME Inv, [Next]_vars
  PROVE  Counted'
<1> SUFFICES ASSUME NEW g \in Handlers, step'[g] \in {"upload", "store"}
             PROVE  \E i \in DOMAIN judged' :
                      /\ judged'[i].frame = frame'[g] /\ judged'[i].verdict = result'[g].verdict
                      /\ Alarm(count'[g]) <=> EarnedIn(judged', i)
  BY DEF Counted, Evidence!Earned, EarnedIn
<1> DEFINE Placed == \E i \in DOMAIN judged' :
                      /\ judged'[i].frame = frame'[g] /\ judged'[i].verdict = result'[g].verdict
                      /\ Alarm(count'[g]) <=> EarnedIn(judged', i)
<1>1. /\ step \in [Handlers -> {"idle", "infer", "bump", "upload", "store"}]
      /\ DOMAIN frame = Handlers /\ DOMAIN result = Handlers /\ DOMAIN count = Handlers
      /\ judged \in Seq(Judgement)
  BY Typed DEF Inv, TypeOK
<1>2. ASSUME NEW h \in Handlers, Bump(h), g = h
      PROVE  Placed
  <2>1. PICK x \in Judgement :
           /\ x.frame = frame[h] /\ x.verdict = result[h].verdict
           /\ judged' = Append(judged, x)
    BY <1>2, BumpGrows
  <2>2. judged' \in Seq(Judgement) /\ streak' \in Streak /\ Run(judged', streak')
    BY <1>2, RunStep
  <2>3. Len(judged') > 0 /\ Len(judged') \in DOMAIN judged' /\ judged'[Len(judged')] = x
    <3> HIDE DEF Judgement
    <3> QED BY <1>1, <2>1
  <2>4. frame'[g] = frame[h] /\ result'[g] = result[h] /\ count'[g] = streak'.count
    BY <1>1, <1>2 DEF Bump
  <2>5. Alarm(count'[g]) <=> EarnedIn(judged', Len(judged'))
    BY <2>2, <2>3, <2>4, AlarmIsEarned
  <2> QED BY <2>1, <2>3, <2>4, <2>5
<1>3. ASSUME /\ step[g] \in {"upload", "store"}
             /\ frame'[g] = frame[g] /\ result'[g] = result[g] /\ count'[g] = count[g]
      PROVE  Placed
  <2>1. PICK i \in DOMAIN judged :
                      /\ judged[i].frame = frame[g] /\ judged[i].verdict = result[g].verdict
                      /\ Alarm(count[g]) <=> EarnedIn(judged, i)
    BY <1>3, EarnedHere DEF Inv, Counted
  <2>2. CASE judged' = judged
    BY <1>3, <2>1, <2>2
  <2>3. ASSUME NEW x \in Judgement, judged' = Append(judged, x)
        PROVE  /\ i \in DOMAIN judged' /\ judged'[i] = judged[i]
               /\ EarnedIn(judged', i) <=> EarnedIn(judged, i)
    BY <1>1, <2>3, EarnedStays
  <2>4. /\ i \in DOMAIN judged' /\ judged'[i] = judged[i]
        /\ EarnedIn(judged', i) <=> EarnedIn(judged, i)
    BY <2>2, <2>3, Grows
  <2> QED BY <1>3, <2>1, <2>4
<1>4. ASSUME NEW h \in Handlers, Idle(h)
      PROVE  /\ step[g] \in {"upload", "store"}
             /\ frame'[g] = frame[g] /\ result'[g] = result[g] /\ count'[g] = count[g]
  BY <1>1, <1>4 DEF Idle
<1> DEFINE Stays == /\ step[g] \in {"upload", "store"}
                     /\ frame'[g] = frame[g] /\ result'[g] = result[g] /\ count'[g] = count[g]
<1> HIDE DEF Placed
<1>6. ASSUME NEW h \in Handlers, Bump(h) PROVE Placed
  <2>1. CASE g = h
    BY <1>2, <1>6, <2>1
  <2>2. CASE g # h
    <3>1. Stays
      BY <1>1, <1>6, <2>2 DEF Bump
    <3> QED BY <1>3, <3>1
  <2> QED BY <2>1, <2>2
<1>7. ASSUME NEW h \in Handlers, Request(h) PROVE Stays
  BY <1>1, <1>7 DEF Request
<1>8. ASSUME NEW h \in Handlers, NEW o \in Observations, Analyze(h, o) PROVE Stays
  BY <1>1, <1>8 DEF Analyze
<1>9. ASSUME NEW h \in Handlers, Upload(h) PROVE Stays
  BY <1>1, <1>9 DEF Upload
<1>10. ASSUME NEW h \in Handlers, Store(h) \/ Fail(h) PROVE Stays
  BY <1>4, <1>10 DEF Store, Fail
<1>11. ASSUME Expire \/ UNCHANGED vars PROVE Stays
  BY <1>11 DEF Expire, vars, handlers
<1>12. Stays => Placed
  BY <1>3
<1> HIDE DEF Stays
<1>13. Placed
  BY <1>6, <1>7, <1>8, <1>9, <1>10, <1>11, <1>12 DEF Next
<1> QED BY <1>13 DEF Placed

LEMMA TablesStep ==
  ASSUME Inv, [Next]_vars
  PROVE  SnapshotsStored' /\ RowsTellWhy' /\ ConfidenceFollows'
<1> USE DEF Inv
<1> DEFINE P == SnapshotsStored' /\ RowsTellWhy' /\ ConfidenceFollows'
<1>1. ASSUME NEW h \in Handlers, Store(h) PROVE P
  <2>1. /\ step[h] = "store" /\ mode' = mode /\ snapshots' = snapshots /\ rows' = rows \cup {Row(h)}
        /\ violations' = IF Alarm(count[h]) THEN violations \cup {Violation(h)} ELSE violations
    BY <1>1 DEF Store, Ready
  <2>2. SnapshotsStored'
    <3>1. ASSUME NEW v \in violations' \ violations
          PROVE  v.frame \in snapshots' /\ \E r \in rows' : r.frame = v.frame /\ r.verdict = v.type
      <4>1. v = Violation(h) /\ Alarm(count[h]) /\ Row(h) \in rows'
        BY <2>1
      <4>2. v.frame = frame[h] /\ v.type = result[h].verdict
        BY <4>1 DEF Violation
      <4>3. Row(h).frame = frame[h] /\ Row(h).verdict = result[h].verdict
        BY DEF Row
      <4> QED BY <2>1, <4>1, <4>2, <4>3 DEF Pictured
    <3>2. ASSUME NEW v \in violations
          PROVE  v.frame \in snapshots' /\ \E r \in rows' : r.frame = v.frame /\ r.verdict = v.type
      BY <2>1 DEF SnapshotsStored
    <3> QED BY <3>1, <3>2 DEF SnapshotsStored
  <2>3. Explained(Row(h).verdict, Row(h).measured)
    BY <2>1 DEF Analyzed, Row
  <2>4. RowsTellWhy'
    BY <2>1, <2>3 DEF RowsTellWhy, Explained
  <2>5. Sure(Violation(h).type, Violation(h).confidence)
    BY <2>1 DEF Analyzed, Violation
  <2>6. ConfidenceFollows'
    BY <2>1, <2>5 DEF ConfidenceFollows, Sure
  <2> QED BY <2>2, <2>4, <2>6
<1>2. ASSUME mode' = mode, rows' = rows, violations' = violations, snapshots \subseteq snapshots' PROVE P
  <2>1. SnapshotsStored'
    BY <1>2 DEF SnapshotsStored
  <2>2. RowsTellWhy' /\ ConfidenceFollows'
    BY <1>2 DEF RowsTellWhy, ConfidenceFollows
  <2> QED BY <2>1, <2>2
<1>3. CASE UNCHANGED vars
  BY <1>2, <1>3 DEF vars, tables
<1> QED BY <1>1, <1>2, <1>3 DEF Next, Request, Analyze, Bump, Upload, Fail, Expire, tables

(* The invariant holds in every reachable state.                           *)
LEMMA InvAlways == Spec => []Inv
<1>1. Inv /\ [Next]_vars => Inv'
  <2> SUFFICES ASSUME Inv, [Next]_vars PROVE Inv'
    OBVIOUS
  <2>1. TypeOK'
    BY TypeStep
  <2>2. StreakIsRun'
    BY RunStep DEF StreakIsRun, Run
  <2> QED BY <2>1, <2>2, HandlersStep, CountedStep, TablesStep DEF Inv
<1> QED BY InvInit, <1>1, PTL DEF Spec

-----------------------------------------------------------------------------
(* Results                                                                 *)

(* Types                                                                   *)
THEOREM Typing == Spec => []TypeOK
BY InvAlways, PTL DEF Inv

(* The hash in Redis is the run of equal verdicts at the end.              *)
THEOREM RunKept == Spec => []StreakIsRun
BY InvAlways, PTL DEF Inv

(* Violations have their snapshot and their frame.                         *)
THEOREM EvidenceStored == Spec => []SnapshotsStored
BY InvAlways, PTL DEF Inv

(* A stored verdict and the measurements beside it agree.                  *)
THEOREM RowsExplained == Spec => []RowsTellWhy
BY InvAlways, PTL DEF Inv

(* Confidences of mismatches and spoofs follow from their scores.          *)
THEOREM ConfidenceStored == Spec => []ConfidenceFollows
BY InvAlways, PTL DEF Inv

-----------------------------------------------------------------------------
(* What stands behind a violation                                          *)

(* A frame has at most one place among the verdicts, 0 is the place of a   *)
(* lost key, and a frame that still waits for its place has none.          *)
JudgedOnce ==
  \A i, j \in DOMAIN judged : i # j /\ judged[i].frame # 0 => judged[i].frame # judged[j].frame

Placed ==
  /\ JudgedOnce
  /\ \A i \in DOMAIN judged :
       judged[i].frame \in 0 .. sent /\ (judged[i].frame = 0 => judged[i].verdict = "none")
  /\ \A h \in Handlers : step[h] \in {"infer", "bump"} =>
       \A i \in DOMAIN judged : judged[i].frame # frame[h]

(* A place in a log with one entry more is an old one or the last.         *)
LEMMA Appended ==
  ASSUME NEW js \in Seq(Judgement), NEW x \in Judgement
  PROVE  LET ks == Append(js, x)
         IN  \A i \in DOMAIN ks : (i \in DOMAIN js /\ ks[i] = js[i]) \/ (i \notin DOMAIN js /\ i = Len(js) + 1 /\ ks[i] = x)
<1> HIDE DEF Judgement
<1> QED OBVIOUS

LEMMA PlacedInit == Init => Placed
BY DEF Init, Placed, JudgedOnce

LEMMA PlacedStep == Inv /\ Placed /\ [Next]_vars => Placed'
<1> SUFFICES ASSUME Inv, Placed, [Next]_vars PROVE Placed'
  OBVIOUS
<1>0. /\ sent \in Nat /\ judged \in Seq(Judgement)
      /\ step \in [Handlers -> {"idle", "infer", "bump", "upload", "store"}]
      /\ frame \in [Handlers -> 0 .. MaxFrames]
      /\ \A h \in Handlers : step[h] # "idle" => frame[h] \in 1 .. sent
      /\ \A g, h \in Handlers : g # h /\ step[g] # "idle" /\ step[h] # "idle" => frame[g] # frame[h]
  BY Typed, Sizes DEF Inv, TypeOK, Own
<1>1. ASSUME judged' = judged, sent' = sent,
             \A h \in Handlers : step'[h] \in {"infer", "bump"} =>
                                   step[h] \in {"infer", "bump"} /\ frame'[h] = frame[h]
      PROVE  Placed'
  BY <1>1 DEF Placed, JudgedOnce
<1>2. ASSUME NEW h \in Handlers, Request(h) PROVE Placed'
  <2>1. /\ judged' = judged /\ sent' = sent + 1 /\ frame'[h] = sent + 1
        /\ \A g \in Handlers \ {h} : step'[g] = step[g] /\ frame'[g] = frame[g]
    BY <1>0, <1>2 DEF Request
  <2>2. \A i \in DOMAIN judged : judged[i].frame \in 0 .. sent
    BY DEF Placed
  <2>3. \A i \in DOMAIN judged : judged[i].frame \in 0 .. sent + 1 /\ judged[i].frame # sent + 1
    BY <1>0, <2>2
  <2> QED BY <1>0, <2>1, <2>3 DEF Placed, JudgedOnce
<1>3. ASSUME NEW h \in Handlers, Bump(h) PROVE Placed'
  <2>1. PICK x \in Judgement : x.frame = frame[h] /\ judged' = Append(judged, x)
    BY <1>3, BumpGrows
  <2>2. /\ sent' = sent /\ frame' = frame /\ step[h] = "bump"
        /\ step'[h] \in {"upload", "store"}
        /\ \A g \in Handlers \ {h} : step'[g] = step[g]
    BY <1>0, <1>3 DEF Bump
  <2>3. /\ frame[h] \in 1 .. sent /\ \A i \in DOMAIN judged : judged[i].frame # frame[h]
        /\ \A g \in Handlers \ {h} : step[g] # "idle" => frame[g] # frame[h]
    BY <1>0, <2>2 DEF Placed
  <2>4. \A i \in DOMAIN judged' : \/ i \in DOMAIN judged /\ judged'[i] = judged[i]
                                  \/ i \notin DOMAIN judged /\ i = Len(judged) + 1 /\ judged'[i] = x
    BY <1>0, <2>1, Appended
  <2>5. JudgedOnce'
    BY <2>1, <2>3, <2>4 DEF Placed, JudgedOnce
  <2>6. \A i \in DOMAIN judged' :
          judged'[i].frame \in 0 .. sent' /\ (judged'[i].frame = 0 => judged'[i].verdict = "none")
    BY <1>0, <2>1, <2>2, <2>3, <2>4 DEF Placed
  <2>7. \A g \in Handlers : step'[g] \in {"infer", "bump"} =>
          \A i \in DOMAIN judged' : judged'[i].frame # frame'[g]
    BY <2>1, <2>2, <2>3, <2>4 DEF Placed
  <2> QED BY <2>5, <2>6, <2>7 DEF Placed
<1>4. CASE Expire
  <2>1. PICK x \in Judgement : x.verdict = "none" /\ x.frame = 0 /\ judged' = Append(judged, x)
    <3>1. PICK x \in Judgement : x.verdict = "none" /\ judged' = Append(judged, x)
      BY <1>4, ExpireGrows
    <3>2. judged' = Append(judged, [frame |-> 0, verdict |-> "none"])
      BY <1>4 DEF Expire
    <3>3. [frame |-> 0, verdict |-> "none"] \in Judgement
      BY Sizes DEF Judgement, Verdicts
    <3> QED BY <3>2, <3>3
  <2>2. sent' = sent /\ frame' = frame /\ step' = step
    BY <1>4 DEF Expire, handlers
  <2>3. \A i \in DOMAIN judged' : \/ i \in DOMAIN judged /\ judged'[i] = judged[i]
                                  \/ i \notin DOMAIN judged /\ i = Len(judged) + 1 /\ judged'[i] = x
    BY <1>0, <2>1, Appended
  <2>4. JudgedOnce'
    BY <2>1, <2>3 DEF Placed, JudgedOnce
  <2>5. \A i \in DOMAIN judged' :
          judged'[i].frame \in 0 .. sent' /\ (judged'[i].frame = 0 => judged'[i].verdict = "none")
    BY <1>0, <2>1, <2>2, <2>3 DEF Placed
  <2>6. \A g \in Handlers : step'[g] \in {"infer", "bump"} =>
          \A i \in DOMAIN judged' : judged'[i].frame # frame'[g]
    BY <1>0, <2>1, <2>2, <2>3 DEF Placed
  <2> QED BY <2>4, <2>5, <2>6 DEF Placed
<1>5. ASSUME NEW h \in Handlers, NEW o \in Observations, Analyze(h, o) PROVE Placed'
  BY <1>0, <1>1, <1>5 DEF Analyze
<1>6. ASSUME NEW h \in Handlers, Upload(h) PROVE Placed'
  BY <1>0, <1>1, <1>6 DEF Upload
<1>7. ASSUME NEW h \in Handlers, Store(h) \/ Fail(h) PROVE Placed'
  BY <1>0, <1>1, <1>7 DEF Store, Fail, Idle
<1>8. CASE UNCHANGED vars
  BY <1>1, <1>8 DEF vars, handlers
<1> QED BY <1>2, <1>3, <1>4, <1>5, <1>6, <1>7, <1>8 DEF Next

LEMMA PlacedAlways == Spec => [](Inv /\ Placed)
<1>1. Inv /\ Placed /\ [Next]_vars => Placed'
  BY PlacedStep
<1> QED BY <1>1, PlacedInit, InvAlways, PTL DEF Spec

(* No frame is counted twice, whatever fails or expires.                   *)
THEOREM CountedOnce == Spec => []JudgedOnce
BY PlacedAlways, PTL DEF Placed

(* The i-th verdict is v, and so are the Debounce - 1 before it: frames    *)
(* the client sent, no two of them the same                                *)
Stands(js, n, i, v) ==
  /\ i >= Debounce
  /\ \A k \in i - Debounce + 1 .. i : js[k].verdict = v /\ js[k].frame \in 1 .. n
  /\ \A j, k \in i - Debounce + 1 .. i : j # k => js[j].frame # js[k].frame

FlagsStand ==
  \A x \in violations : \E i \in DOMAIN judged :
    judged[i].frame = x.frame /\ Stands(judged, sent, i, x.type)

(* An alarm that was earned stands on different frames.                    *)
LEMMA EarnedStands ==
  ASSUME Inv, Placed, NEW i \in DOMAIN judged, EarnedIn(judged, i)
  PROVE  Stands(judged, sent, i, judged[i].verdict)
<1> DEFINE v == judged[i].verdict
           K == i - Debounce + 1 .. i
<1>0. /\ judged \in Seq(Judgement) /\ sent \in Nat /\ i \in 1 .. Len(judged) /\ Len(judged) \in Nat
      /\ Debounce \in Nat \ {0}
  BY Typed, Sizes DEF Inv, TypeOK
<1>1. v # "none" /\ i >= Debounce /\ \A k \in K : judged[k].verdict = v
  BY DEF EarnedIn
<1>2. K \subseteq DOMAIN judged
  <2>1. K \subseteq 1 .. Len(judged)
    BY <1>0, <1>1
  <2> QED BY <1>0, <2>1
<1>3. \A k \in K : judged[k].frame \in 0 .. sent /\ judged[k].frame # 0
  BY <1>1, <1>2 DEF Placed
<1> HIDE DEF K, v
<1>4. \A k \in K : judged[k].frame \in 1 .. sent
  BY <1>0, <1>3
<1>5. \A j, k \in K : j # k => judged[j].frame # judged[k].frame
  BY <1>2, <1>3 DEF Placed, JudgedOnce
<1> QED BY <1>1, <1>4, <1>5 DEF Stands, K, v

(* What stands keeps standing as verdicts and frames are added.            *)
LEMMA StandsOn ==
  ASSUME Inv, [Next]_vars, NEW i \in DOMAIN judged, NEW v, Stands(judged, sent, i, v)
  PROVE  i \in DOMAIN judged' /\ judged'[i] = judged[i] /\ Stands(judged', sent', i, v)
<1> DEFINE K == i - Debounce + 1 .. i
<1>0. /\ judged \in Seq(Judgement) /\ sent \in Nat /\ i \in 1 .. Len(judged) /\ Len(judged) \in Nat
      /\ Debounce \in Nat \ {0}
  BY Typed, Sizes DEF Inv, TypeOK
<1>1. /\ i >= Debounce
      /\ \A k \in K : judged[k].verdict = v /\ judged[k].frame \in 1 .. sent
      /\ \A j, k \in K : j # k => judged[j].frame # judged[k].frame
  BY DEF Stands
<1>2. K \subseteq 1 .. Len(judged)
  BY <1>0, <1>1
<1>3. DOMAIN judged \subseteq DOMAIN judged' /\ \A k \in 1 .. Len(judged) : judged'[k] = judged[k]
  <2>1. CASE judged' = judged
    BY <2>1
  <2>2. ASSUME NEW x \in Judgement, judged' = Append(judged, x)
        PROVE  DOMAIN judged \subseteq DOMAIN judged' /\ \A k \in 1 .. Len(judged) : judged'[k] = judged[k]
    <3> HIDE DEF Judgement
    <3> QED BY <1>0, <2>2
  <2> QED BY <2>1, <2>2, Grows
<1>4. sent' \in {sent, sent + 1}
  BY DEF Next, vars, Request, Analyze, Bump, Upload, Store, Fail, Expire
<1> HIDE DEF K
<1>5. \A k \in K : judged'[k] = judged[k]
  BY <1>2, <1>3
<1>6. \A k \in K : judged'[k].frame \in 1 .. sent'
  BY <1>0, <1>1, <1>4, <1>5
<1> QED BY <1>0, <1>1, <1>3, <1>5, <1>6 DEF Stands, K

LEMMA FlagsInit == Init => FlagsStand
BY DEF Init, FlagsStand

LEMMA FlagsStep == Inv /\ Placed /\ FlagsStand /\ [Next]_vars => FlagsStand'
<1> SUFFICES ASSUME Inv, Placed, FlagsStand, [Next]_vars, NEW x \in violations'
             PROVE  \E i \in DOMAIN judged' :
                      judged'[i].frame = x.frame /\ Stands(judged', sent', i, x.type)
  BY DEF FlagsStand
<1>1. SUFFICES \E i \in DOMAIN judged :
                 judged[i].frame = x.frame /\ Stands(judged, sent, i, x.type)
  BY StandsOn
<1>2. CASE x \in violations
  BY <1>2 DEF FlagsStand
<1>3. ASSUME x \notin violations
      PROVE  \E h \in Handlers : step[h] = "store" /\ Alarm(count[h]) /\ x = Violation(h)
  BY <1>3 DEF Next, vars, tables, Request, Analyze, Bump, Upload, Store, Ready, Fail, Expire
<1>4. ASSUME NEW h \in Handlers, step[h] = "store", Alarm(count[h]), x = Violation(h)
      PROVE  \E i \in DOMAIN judged :
               judged[i].frame = x.frame /\ Stands(judged, sent, i, x.type)
  <2>1. PICK i \in DOMAIN judged :
           judged[i].frame = frame[h] /\ judged[i].verdict = result[h].verdict /\ EarnedIn(judged, i)
    BY <1>4, EarnedHere DEF Inv, Counted
  <2>2. x.frame = frame[h] /\ x.type = result[h].verdict
    BY <1>4 DEF Violation
  <2> QED BY <2>1, <2>2, EarnedStands
<1> QED BY <1>2, <1>3, <1>4

(* Every violation raised by frames rests on Debounce different frames of  *)
(* its type, judged one after the other, and is dated by the last of them: *)
(* no retry, failure, expiry or second handler makes up a run.             *)
THEOREM FlagsBacked == Spec => []FlagsStand
<1>1. Inv /\ Placed /\ FlagsStand /\ [Next]_vars => FlagsStand'
  BY FlagsStep
<1> QED BY <1>1, FlagsInit, PlacedAlways, PTL DEF Spec

(* A session served by one socket is judged in the order of its frames.    *)
OneHandler == \A g, h \in Handlers : g = h
InOrder ==
  OneHandler => \A i, j \in DOMAIN judged :
    i < j /\ judged[i].frame # 0 /\ judged[j].frame # 0 => judged[i].frame < judged[j].frame

(* ... since the frame under way is the last one sent                      *)
Latest ==
  OneHandler => \A h \in Handlers : step[h] \in {"infer", "bump"} => frame[h] = sent

LEMMA OrderStep == Inv /\ Placed /\ InOrder /\ Latest /\ [Next]_vars => (InOrder /\ Latest)'
<1> SUFFICES ASSUME Inv, Placed, InOrder, Latest, [Next]_vars, OneHandler
             PROVE  (InOrder /\ Latest)'
  BY DEF InOrder, Latest, OneHandler
<1> DEFINE Sorted(js) == \A i, j \in DOMAIN js :
                           i < j /\ js[i].frame # 0 /\ js[j].frame # 0 => js[i].frame < js[j].frame
<1>0. /\ sent \in Nat /\ judged \in Seq(Judgement)
      /\ step \in [Handlers -> {"idle", "infer", "bump", "upload", "store"}]
      /\ frame \in [Handlers -> 0 .. MaxFrames]
      /\ Sorted(judged) /\ \A h \in Handlers : step[h] \in {"infer", "bump"} => frame[h] = sent
  BY Typed, Sizes DEF Inv, TypeOK, InOrder, Latest
<1>1. Latest'
  <2>1. ASSUME NEW h \in Handlers, Request(h) PROVE Latest'
    BY <1>0, <2>1 DEF Request, Latest, OneHandler
  <2>2. ASSUME NEW h \in Handlers, NEW o \in Observations, Analyze(h, o) PROVE Latest'
    BY <1>0, <2>2 DEF Analyze, Latest
  <2>3. ASSUME NEW h \in Handlers, Bump(h) \/ Upload(h) PROVE Latest'
    BY <1>0, <2>3 DEF Bump, Upload, Latest
  <2>4. ASSUME NEW h \in Handlers, Store(h) \/ Fail(h) PROVE Latest'
    BY <1>0, <2>4 DEF Store, Fail, Idle, Latest
  <2>5. CASE Expire \/ UNCHANGED vars
    BY <1>0, <2>5 DEF Expire, vars, handlers, Latest
  <2> QED BY <2>1, <2>2, <2>3, <2>4, <2>5 DEF Next
<1>2. ASSUME NEW x \in Judgement, judged' = Append(judged, x),
             x.frame # 0 => \A i \in DOMAIN judged : judged[i].frame < x.frame
      PROVE  Sorted(judged')
  <2>1. \A i \in DOMAIN judged' : \/ i \in DOMAIN judged /\ judged'[i] = judged[i]
                                  \/ i \notin DOMAIN judged /\ i = Len(judged) + 1 /\ judged'[i] = x
    BY <1>0, <1>2, Appended
  <2>2. Len(judged) \in Nat /\ DOMAIN judged = 1 .. Len(judged)
    BY <1>0
  <2>3. \A i \in DOMAIN judged : ~(Len(judged) + 1 < i)
    BY <2>2
  <2> QED BY <1>0, <1>2, <2>1, <2>2, <2>3
<1>3. ASSUME NEW h \in Handlers, Bump(h) PROVE Sorted(judged')
  <2>1. PICK x \in Judgement : x.frame = frame[h] /\ judged' = Append(judged, x)
    BY <1>3, BumpGrows
  <2>2. frame[h] = sent /\ \A i \in DOMAIN judged : judged[i].frame # frame[h]
    BY <1>0, <1>3 DEF Bump, Placed
  <2>3. \A i \in DOMAIN judged : judged[i].frame \in 0 .. sent
    BY DEF Placed
  <2>4. \A i \in DOMAIN judged : judged[i].frame < x.frame
    BY <1>0, <2>1, <2>2, <2>3
  <2> QED BY <1>2, <2>1, <2>4
<1>4. ASSUME Expire PROVE Sorted(judged')
  <2> DEFINE x == [frame |-> 0, verdict |-> "none"]
  <2>1. x \in Judgement /\ x.frame = 0
    BY Sizes DEF Judgement, Verdicts
  <2>2. judged' = Append(judged, x)
    BY <1>4 DEF Expire
  <2> HIDE DEF x, Sorted
  <2> QED BY <1>2, <2>1, <2>2
<1>5. ASSUME judged' = judged PROVE Sorted(judged')
  BY <1>0, <1>5
<1>6. Sorted(judged')
  <2>1. judged' = judged \/ Expire \/ \E h \in Handlers : Bump(h)
    BY DEF Next, vars, Request, Analyze, Upload, Store, Fail
  <2> HIDE DEF Sorted
  <2> QED BY <1>3, <1>4, <1>5, <2>1
<1> QED BY <1>1, <1>6 DEF InOrder

(* One socket: no frame is judged before an earlier one, so a run of equal *)
(* verdicts is a run in time.  Several REST requests may overtake.         *)
THEOREM JudgedInOrder == Spec => []InOrder
<1>1. Init => InOrder /\ Latest
  BY DEF Init, InOrder, Latest
<1>2. Inv /\ Placed /\ InOrder /\ Latest /\ [Next]_vars => (InOrder /\ Latest)'
  BY OrderStep
<1> QED BY <1>1, <1>2, PlacedAlways, PTL DEF Spec

-----------------------------------------------------------------------------
(* FrameStream implements EvidenceLog.                                     *)

FramesIn(S) == {r.frame : r \in S}

LEMMA FrameAdded == ASSUME NEW S, NEW e PROVE FramesIn(S \cup {e}) = FramesIn(S) \cup {e.frame}
BY DEF FramesIn

LEMMA RefineInit == Init => Evidence!Init
BY DEF Init, Evidence!Init

(* One more verdict is a step of EvidenceLog, and so is a stored frame.    *)
LEMMA RefineJudge ==
  ASSUME NEW x \in Judgement, judged' = Append(judged, x), UNCHANGED tables
  PROVE  Evidence!Next
<1>1. x = [frame |-> x.frame, verdict |-> x.verdict] /\ x.frame \in Numbers \cup {0} /\ x.verdict \in Verdicts
  BY Sizes DEF Judgement, Numbers
<1>2. Evidence!Judge(x.frame, x.verdict)
  BY <1>1 DEF Evidence!Judge, tables
<1> QED BY <1>1, <1>2 DEF Evidence!Next

LEMMA RefineStore ==
  ASSUME Inv, NEW h \in Handlers, Store(h)
  PROVE  Evidence!Next
<1>1. /\ step[h] = "store" /\ rows' = rows \cup {Row(h)} /\ judged' = judged
      /\ violations' = IF Alarm(count[h]) THEN violations \cup {Violation(h)} ELSE violations
  BY DEF Store, Ready
<1>2. PICK i \in DOMAIN judged : judged[i].frame = frame[h] /\ (Alarm(count[h]) <=> Evidence!Earned(i))
  BY <1>1 DEF Inv, Counted
<1>3. frame[h] \in Numbers \ FramesIn(rows)
  <2>1. sent \in 0 .. MaxFrames /\ frame[h] \in 1 .. sent /\ \A r \in rows : r.frame # frame[h]
    BY <1>1 DEF Inv, Own, TypeOK
  <2> QED BY <2>1, Sizes DEF Numbers, FramesIn
<1>4. FramesIn(rows') = FramesIn(rows) \cup {frame[h]}
  <2>1. Row(h).frame = frame[h]
    BY DEF Row
  <2> QED BY <1>1, <2>1, FrameAdded
<1>5. FramesIn(violations') =
        IF Evidence!Earned(i) THEN FramesIn(violations) \cup {frame[h]} ELSE FramesIn(violations)
  <2>1. Violation(h).frame = frame[h]
    BY DEF Violation
  <2> QED BY <1>1, <1>2, <2>1, FrameAdded
<1>6. Evidence!Store(i)
  BY <1>1, <1>2, <1>3, <1>4, <1>5 DEF Evidence!Store, FramesIn
<1> QED BY <1>6 DEF Evidence!Next

LEMMA RefineStep == Inv /\ [Next]_vars => [Evidence!Next]_(Evidence!vars)
<1> SUFFICES ASSUME Inv, [Next]_vars PROVE [Evidence!Next]_(Evidence!vars)
  OBVIOUS
<1>1. ASSUME NEW h \in Handlers, Bump(h) PROVE Evidence!Next
  <2>1. PICK x \in Judgement : judged' = Append(judged, x)
    BY <1>1, BumpGrows
  <2> QED BY <1>1, <2>1, RefineJudge DEF Bump
<1>2. ASSUME Expire PROVE Evidence!Next
  <2>1. PICK x \in Judgement : judged' = Append(judged, x)
    BY <1>2, ExpireGrows
  <2> QED BY <1>2, <2>1, RefineJudge DEF Expire
<1>3. ASSUME NEW h \in Handlers, Store(h) PROVE Evidence!Next
  BY <1>3, RefineStore
<1>4. CASE UNCHANGED <<judged, rows, violations>>
  BY <1>4 DEF Evidence!vars
<1> QED BY <1>1, <1>2, <1>3, <1>4 DEF Next, vars, tables, Request, Analyze, Upload, Fail

(* Violations are flagged for runs of Debounce verdicts, and for these     *)
(* only, in the order in which they were judged.                           *)
THEOREM EvidenceImplemented == Spec => FlagsRuns
BY RefineInit, RefineStep, InvAlways, PTL DEF Spec, FlagsRuns, Evidence!Spec
=============================================================================
