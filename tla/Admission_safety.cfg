CONSTANTS
  Node = alice
  Elsewhere = carol
  bob = bob
  honest = honest
  faithless = faithless
  Sender = {bob}
  Proposal = {e1, e2}
  Proposer <- MCProposer
  HubOrder <- MCHubOrder
  Faithless = {faithless}
  Reader = {r1, r2}
  TTL = 0
  RecordLifetime = 0
  MaxTime = 1
  MaxNonce = 2
  MaxQueue <- MCMaxQueue
  levelZeroCap = 1
  perUnknownSenderLimit = 1
  windowMs = 1
SPECIFICATION Spec
INVARIANTS
  BudgetCountsProposals
PROPERTIES
  BlindCourier
SYMMETRY Symmetry
CHECK_DEADLOCK FALSE
