SPECIFICATION Spec
CONSTANTS
  k1 = k1
  k2 = k2
  Request = {r1, r2}
  Key = {k1}
  RouteOf <- MCAuctions
  HighProfile = {}
  Ttl <- MCShort
  HighTtl <- MCShortHigh
  ErrorTtl <- MCErrorTtl
  RedisConfigured = TRUE
  RedisMayFail = FALSE
  PlayersEnabled = TRUE
  MaxLatency = 1
  MaxVersion = 1
INVARIANT
  OkCarriesBody
