CONSTANTS
  a = a
  b = b
  i1 = i1
  i2 = i2
  i3 = i3
  i4 = i4
  Party <- MCParty
  Item = {i1, i2, i3}
  Sender <- MCSender
  DirOf <- MCDirOf
  Type <- ProposeFirst
  Instant <- TwiceForA
  Diligent = {a}
SPECIFICATION SyncingSpec
INVARIANTS
  FiledOnce
PROPERTIES
  SharedHistoryGrows
  EventuallyShared
