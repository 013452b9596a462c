SPECIFICATION FairSpec
CONSTANTS
  a1 = a1
  a2 = a2
  a3 = a3
  a4 = a4
  pet = pet
  badpet = badpet
  rune = rune
  runes0 = runes0
  stack = stack
  none = none
  notag = notag
  garbled = garbled
  bid = bid
  badgzip = badgzip
  norunes = norunes
  nolist = nolist
  noone = noone
  Listing <- MCListing
  PetInfo <- MCPetInfo
  Scene <- MCScene
  IndexLifetime = 3
  EntryLifetime = 2
  MaxKills = 1
  Decoded <- DecodedBytes
INVARIANTS
  TypeOK
  DecodesAsSold
  PricesMatch
  MedianSplits
  CachedReadComplete
PROPERTY
  MarkReplaced
