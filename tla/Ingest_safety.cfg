CONSTANTS
    e1 = e1  e2 = e2  p1 = p1  p2 = p2
    Envelopes = {e1, e2}
    Own = {e1, e2}
    Says <- MCSays
    Persona = "me"
    Known <- MCKnown
    Processes = {p1, p2}
    MaxBytes = 1
    BatchSize = 1
    MaxRounds = 2
    MaxFaults = 2
SPECIFICATION Spec
SYMMETRY Symmetry
INVARIANTS NothingSkipped EveryFindingSurfaces NotReproposed
