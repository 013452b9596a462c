SPECIFICATION FairSpec
CONSTANTS
  Auction = {a1, a2, a3}
  PageSize = 1
  Interval = 3
  Lifetime = 6
  MaxFetch = 2
  MaxChanges = 2
  RedisMayFail = TRUE
INVARIANTS
  TypeOK
  DriftBounded
  NoGap
PROPERTIES
  PublishesOnlyOffered
  Recovers
