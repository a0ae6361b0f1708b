SPECIFICATION FairSpec
CONSTANTS
  Workers = {w1, w2}
  s1 = s1
  s2 = s2
  Sessions <- TwoSessions
  Frames <- OneFrame
  Subscribed <- FirstOnly
  NoWorker = NoWorker
  IdleTimeout = 0
  Retention = 2
  SweepLimit = 1
  PurgeBatch = 1
  MaxExam = 1
  MaxRun = 1
  MaxTime = 3
  MaxFaults = 1
INVARIANTS TypeOK OneMaintainer 
PROPERTIES FollowsPolicy OldFramesGo
