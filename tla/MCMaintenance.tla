--------------------------- MODULE MCMaintenance ---------------------------
(* Maintenance for TLC: two sessions, the frames are all of the first.     *)
EXTENDS Maintenance
CONSTANTS s1, s2
TwoSessions == {s1, s2}
FirstOnly == {s1}
OneFrame == {<<s1, 1>>}
=============================================================================
