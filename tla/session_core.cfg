SPECIFICATION Spec
CONSTANTS
  Sessions = {s1}
  Subscribed = {s1}
  Learners = {learner}
  Partners = {partner}
  Sweepers = {sweeper}
  RestHandlers = {rest}
  Sockets = {socket}
  Types = {face_mismatch}
  NoType = NoType
  Nobody = Nobody
  NoSession = NoSession
  Debounce = 2
  IdleTimeout = 0
  SweepLimit = 1
  MaxTime = 2
  MaxWork = 2
  MaxCrashes = 1
INVARIANTS TypeOK OneEventPerEnd ReadsStand PerfectListsNothing
PROPERTIES EndsAtomically EndCoversEvidence
