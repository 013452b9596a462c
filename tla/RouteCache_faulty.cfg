SPECIFICATION Spec
CONSTANTS
  k1 = k1
  k2 = k2
  Request = {r1, r2}
  Key = {k1, k2}
  RouteOf <- MCGardenAndAuctions
  HighProfile = {k1}
  Ttl <- MCShort
  HighTtl <- MCShortHigh
  ErrorTtl <- MCShortError
  RedisConfigured = TRUE
  RedisMayFail = TRUE
  PlayersEnabled = TRUE
  MaxLatency = 1
  MaxVersion = 1
SYMMETRY Symmetry
INVARIANTS
  FreshnessBound
PROPERTY
  NoLateRegress
