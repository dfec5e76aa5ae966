CONSTANTS
  Proc = {p1, p2}
  Device = {laptop}
  Profile <- MCProfile
  MaxKey = 1
  MaxSeq = 2
  MaxFaults = 1
  MaxSteps = 2
SPECIFICATION Spec
INVARIANTS
  AcknowledgedAppendKept
  CommittedVaultOpens
  RevokedReadsNothingNew
SYMMETRY Symmetry
CHECK_DEADLOCK FALSE
