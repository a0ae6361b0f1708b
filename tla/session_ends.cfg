SPECIFICATION FairSpec
CONSTANTS
  Sessions = {s1, s2}
  Subscribed = {s1}
  Learners = {}
  Partners = {}
  Sweepers = {sweeper}
  RestHandlers = {}
  Sockets = {socket}
  Types = {face_mismatch}
  NoType = NoType
  Nobody = Nobody
  NoSession = NoSession
  Debounce = 2
  IdleTimeout = 0
  SweepLimit = 1
  MaxTime = 2
  MaxWork = 2
  MaxCrashes = 1
INVARIANTS LateFramesBounded
PROPERTIES EverySessionEnds
