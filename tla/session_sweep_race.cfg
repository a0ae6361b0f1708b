SPECIFICATION Spec
CONSTANTS
  Sessions = {s1}
  Subscribed = {s1}
  Learners = {}
  Partners = {}
  Sweepers = {sweeper}
  RestHandlers = {rest}
  Sockets = {}
  Types = {face_mismatch}
  NoType = NoType
  Nobody = Nobody
  NoSession = NoSession
  Debounce = 2
  IdleTimeout = 1
  SweepLimit = 1
  MaxTime = 3
  MaxWork = 2
  MaxCrashes = 0
PROPERTIES AbandonedOnlyIfIdle
