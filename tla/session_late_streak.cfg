SPECIFICATION Spec
CONSTANTS
  Sessions = {s1}
  Subscribed = {s1}
  Learners = {learner}
  Partners = {}
  Sweepers = {sweeper}
  RestHandlers = {rest}
  Sockets = {}
  Types = {face_mismatch}
  NoType = NoType
  Nobody = Nobody
  NoSession = NoSession
  Debounce = 2
  IdleTimeout = 0
  SweepLimit = 1
  MaxTime = 2
  MaxWork = 2
  MaxCrashes = 0
INVARIANTS StreakClearedOnEnd
