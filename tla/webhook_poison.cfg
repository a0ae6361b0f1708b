SPECIFICATION FairSpec
CONSTANTS
  d1 = d1
  d2 = d2
  acme = acme
  zeta = zeta
  Deliveries = {d1, d2}
  Orgs = {acme, zeta}
  Workers = {w1}
  Nobody = Nobody
  Urls = {"good", "invalid"}
  BatchSize = 2
  MaxAttempts = 2
  BaseBackoff = 1
  MaxBackoff = 2
  MaxChanges = 0
  MaxCrashes = 0
  MaxStrays = 1
PROPERTIES EverySettles
