SPECIFICATION Spec
CONSTANTS
    k1 = k1
    k2 = k2
    Keys = {k1, k2}
    Values = {v1, v2}
    Writers = {w1, w2}
    None = None
    Settings <- MCSettings
INVARIANTS AtLeastOnce DrainedMirrors PolledRowsApplied
SYMMETRY MCSymmetry
CHECK_DEADLOCK FALSE
