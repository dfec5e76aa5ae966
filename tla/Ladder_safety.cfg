CONSTANTS
  key = key
  o1 = o1
  o2 = o2
  Subject = key
  Lost = lost
  Org = {o1, o2}
  Attestation <- MCAttestation
  Revocation <- MCRevocation
  Publication <- MCPublication
  Channel = {gist}
  Call = {c1, c2}
  MAX_ANCHOR_TTL_SECONDS = 2
  MaxTime = 2
SPECIFICATION Spec
INVARIANTS
  AnchorIsRecent
  NameIsEarned
  RecoveryMatchesLadder
  RevokedStaysRevoked
SYMMETRY Symmetry
CHECK_DEADLOCK FALSE
