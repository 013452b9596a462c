SPECIFICATION FairSpec
CONSTANTS
  k1 = k1
  k2 = k2
  Request = {r1, r2}
  Key = {k1}
  RouteOf <- MCProfiles
  HighProfile = {}
  Ttl <- MCShort
  HighTtl <- MCShortHigh
  ErrorTtl <- MCErrorTtl
  RedisConfigured = TRUE
  RedisMayFail = TRUE
  PlayersEnabled = TRUE
  MaxLatency = 1
  MaxVersion = 0
PROPERTIES
  RequestsEnd
  ErrorsHeal
