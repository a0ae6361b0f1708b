SPECIFICATION Spec
CONSTANTS
  d1 = d1
  d2 = d2
  acme = acme
  zeta = zeta
  Deliveries = {d1}
  Orgs = {acme}
  Workers = {w1}
  Nobody = Nobody
  Urls = {"none", "good"}
  BatchSize = 20
  MaxAttempts = 8
  BaseBackoff = 30
  MaxBackoff = 21600
  MaxChanges = 0
  MaxCrashes = 0
  MaxStrays = 0
INVARIANT RetriesLastSeventeenHours
