CONSTANTS
  owner = owner
  creditor = creditor
  edgeId = "e"
  Key <- MCKey
  Acts <- ThreeActs
  Due = 1
  Window = 1
  DISPUTE_WINDOW = 1
  EXPIRY_SKEW = 1
  MaxNow = 1
  MaxChain = 4
  MaxNet = 2
SPECIFICATION Spec
INVARIANTS
  TypeOK
  AcknowledgedMeansHeld
  SettledAgree
  SameSetSameState
CHECK_DEADLOCK FALSE
