SPECIFICATION Spec
CONSTANTS
  r1 = r1
  r2 = r2
  p1 = p1
  p2 = p2
  Request = {r1, r2}
  Player = {p1, p2}
  TokenLife = 2
  MaxReplies = 3
  Roster <- MCRoster
  Scene <- MCScene
SYMMETRY RequestSymmetry
INVARIANTS
  TypeOK
  RightsLapse
  OwnGuild
  AnswerIsStored
PROPERTIES
  CacheShields
  OrderedUnlessOverlapped
  LimitsOfOneReply
  LimitsInOrder
