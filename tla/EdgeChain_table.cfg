CONSTANTS
  o = o
  p = p
  x = x
  ownerKey = o
  owedToKey = p
  Signers = {o, p}
  WireAt = {0, 1}
  ExpireAt = {0, 1, 2}
  FirstAt = {0, 1}
  Key <- MCKey
  Lineage <- MCLineage
  Edge <- MCEdge
  Wire <- MCWire
  DISPUTE_WINDOW = 1
  EXPIRY_SKEW = 0
  MaxNow = 2
  MaxChain = 6
SPECIFICATION FairSpec
INVARIANTS
  TypeOK
  ConfirmFirst
  ClosureEarned
  SupersededByBoth
  ContestIsConcurrent
  ExpiryEarned
  ReplayStable
  OffersMatchTable
  NothingFiledAway
PROPERTIES
  ReopenedOnlyByContest
  DeadlockEnds
CHECK_DEADLOCK FALSE
