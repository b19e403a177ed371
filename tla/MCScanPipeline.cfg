SPECIFICATION KeptSpec
CONSTANTS
    ScanIds = {s1, s2}
    JobIds = {j1, j2}
    Images = {i1, i2}
    NoImage = NoImage
    MaxTries = 2
    MaxStops = 2
SYMMETRY Keys
INVARIANTS
    BusyHasJob
    DoneHasOwnResult
