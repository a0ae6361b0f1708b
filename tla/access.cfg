SPECIFICATION MCSpec
CONSTANTS
  o1 = o1
  o2 = o2
  x1 = x1
  x2 = x2
  r1 = r1
  r2 = r2
  r3 = r3
  ip = ip
  mail = mail
  NoOne = NoOne
  Orgs <- TwoOrgs
  Candidates <- TwoCandidates
  Owner <- OwnerOf
  Sessions = {s1, s2}
  Callers = {c1, c2}
  Admins = {a1, a2}
  Sockets = {k1}
  RateLimit = 1
  WindowLife = 2
  TokenLife = 1
  MaxDelay = 1
  MaxTime = 2
  MaxKeys = 2
  MaxUses = 3
  Requests <- ThreeRequests
  Identities <- Pairs
  Clients = {l1, l2}
  Counters <- TwoCounters
  Logins <- LoginKinds
  MaxFailures = 2
  FailWindow = 2
  MaxWait = 1
  MaxClock = 5
  MaxAttempts = 4
SYMMETRY Symmetry
INVARIANTS AccessTypes RateLimited TenantIsolation RevocationSettles
INVARIANTS RegistrationTypes OneCandidatePerEmail LoginTypes FailuresBounded LockoutEnds
CHECK_DEADLOCK FALSE
