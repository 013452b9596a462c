SPECIFICATION Spec
CONSTANTS
  Auction = {a1}
  PageSize = 1
  Interval = 3
  Lifetime = 6
  MaxFetch = 2
  MaxChanges = 0
  RedisMayFail = FALSE
INVARIANT
  SurvivesOneFailure
