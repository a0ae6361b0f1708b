--------------------------- MODULE MCFrameStream ---------------------------
(***************************************************************************)
(* FrameStream for TLC: pictures that differ in one thing each.            *)
(***************************************************************************)
EXTENDS FrameStream, TLC

Person   == [area |-> 300, conf |-> 900]
InPoster == [area |-> 19, conf |-> 950]

Eyes(p) == <<[pupil |-> p, a |-> 0, b |-> 10], [pupil |-> p, a |-> 10, b |-> 0]>>

Frontal == [area |-> 200, similarity |-> 380, real |-> <<400, 600>>, landmarks |-> TRUE,
            yaw |-> 25, pitch |-> -20, ear |-> 300, eyesX |-> Eyes(7), eyesY |-> Eyes(2)]

Seen(boxes, faces) == [boxes |-> boxes, faces |-> faces]

MCObservations ==
  {Seen(<<Person, InPoster>>, <<Frontal>>),
   Seen(<<Person>>, <<[Frontal EXCEPT !.ear = 180, !.eyesX = Eyes(0)]>>),
   Seen(<<Person>>, <<[Frontal EXCEPT !.eyesY = Eyes(6)]>>),
   Seen(<<Person>>, <<[Frontal EXCEPT !.similarity = -100]>>),
   Seen(<<Person>>, <<[Frontal EXCEPT !.real = <<700, 290>>]>>),
   Seen(<<Person, Person>>, <<Frontal>>),
   Seen(<<InPoster>>, << >>)}

Symmetry == Permutations(Handlers)
=============================================================================
