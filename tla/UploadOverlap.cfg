CONSTANTS
    s1 = s1
    s2 = s2
    Session = {s1, s2}
    Name <- MCNameShared
    Size <- MCSize
    Request = {r1, r2}
    Deleter = {}
    Cron = cron
    ChunkSize = 2
    MaxFileSize = 3
    Quota = 3
    MaxIndex = 1
    Overlap = TRUE
    MaxCuts = 0
    MaxTxFails = 1
    MaxCancels = 0
    MaxRestarts = 0
    NoRow = NoRow
    NoBlob = NoBlob
    Idle = Idle
SPECIFICATION Spec
INVARIANTS
    OvershootBounded
SYMMETRY MCSymmetry
CHECK_DEADLOCK FALSE
