CONSTANTS
  s = s
  t = t
  auth = auth
  manifest = manifest
  ci = ci
  r1 = r1
  r2 = r2
  File <- MCFile
  PlaceOf <- MCPlaceOf
  SensitiveFile = {auth, ci}
  TestOf <- MCTestOf
  Start0 <- MCStart
  Edits <- MCEdits
  Rogue <- MCRogue
  Runner = {r1, r2}
  Asks <- MCAsks
  Reviewer = {p1, p2}
  Reviews <- MCReviews
  PROMOTION_THRESHOLDS <- MCThresholds
  MaxChangedLines <- MCMaxChangedLines
  MaxChangedFiles <- MCMaxChangedFiles
  MAX_FILE_LINES = 2
  MAX_SNAPSHOT_FILES = 3
  MaxEdits = 1
  MaxReviews = 3
SPECIFICATION ExecutorSpec
SYMMETRY Symmetry
INVARIANTS
  AutonomyIsEarned
  ArtifactWithinItsWorld
