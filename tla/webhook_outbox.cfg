SPECIFICATION TwoPartners
CONSTANTS
  d1 = d1
  d2 = d2
  acme = acme
  zeta = zeta
  Deliveries = {d1, d2}
  Orgs = {acme, zeta}
  Workers = {w1, w2}
  Nobody = Nobody
  Urls = {"none", "good", "invalid"}
  BatchSize = 2
  MaxAttempts = 2
  BaseBackoff = 1
  MaxBackoff = 2
  MaxChanges = 1
  MaxCrashes = 1
  MaxStrays = 1
INVARIANTS TypeOK DisjointBatches AttemptsAccounted DuplicatesExplained
PROPERTIES SettledForGood KeepsPromise SettlesUnlessPoisoned
