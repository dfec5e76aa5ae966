CONSTANTS
  a = a
  b = b
  i1 = i1
  i2 = i2
  i3 = i3
  i4 = i4
  Party <- MCParty
  Item = {i1, i2, i4}
  Sender <- MCSender
  DirOf <- MCDirOf
  Type <- AllAssert
  Instant <- Once
  Diligent = {a}
SPECIFICATION TornSpec
PROPERTY SharedHistoryGrows
CHECK_DEADLOCK FALSE
