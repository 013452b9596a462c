SPECIFICATION Spec
CONSTANTS
  k1 = k1
  k2 = k2
  Request = {r1, r2}
  Key = {k1, k2}
  RouteOf <- MCProfilesAndPlayer
  HighProfile = {}
  Ttl <- MCTtl
  HighTtl <- MCHighTtl
  ErrorTtl <- MCErrorTtl
  RedisConfigured = TRUE
  RedisMayFail = FALSE
  PlayersEnabled = FALSE
  MaxLatency = 2
  MaxVersion = 1
SYMMETRY Symmetry
INVARIANTS
  TypeOK
  FreshnessBound
  MarkerShieldsUpstream
  ExpireInBounds
PROPERTIES
  NoLateRegress
  FeedsSnapshots
