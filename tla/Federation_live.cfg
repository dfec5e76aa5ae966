CONSTANTS
  owner = owner
  creditor = creditor
  edgeId = "e"
  Key <- MCKey
  Acts <- OwnerActs
  Due = 1
  Window = 1
  DISPUTE_WINDOW = 1
  EXPIRY_SKEW = 1
  MaxNow = 0
  MaxChain = 3
  MaxNet = 2
SPECIFICATION SyncingSpec
PROPERTIES
  ProposeArrives
  HalfReceivedCompleted
  EventuallyAgree
CHECK_DEADLOCK FALSE
