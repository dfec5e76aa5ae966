CONSTANTS
  old = old
  new = new
  peer = peer
  stranger = stranger
  Own = {old, new}
  Key <- MCKey
  Edges <- MCEdges
  HeldChains <- MCHeldChains
  PeerMade <- MCPeerMade
  DISPUTE_WINDOW = 2
  EXPIRY_SKEW = 0
  RotatedAt = 3
  Now = 4
  MaxChallenge = 1
  MaxAnswers = 2
  MaxHanded = 3
SPECIFICATION Spec
INVARIANTS AnsweredToTheHolderOnce RestoredAsHeld
CHECK_DEADLOCK FALSE
