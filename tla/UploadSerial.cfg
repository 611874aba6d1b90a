CONSTANTS
    s1 = s1
    s2 = s2
    Session = {s1, s2}
    Name <- MCName
    Size <- MCSize
    Request = {r1, r2}
    Deleter = {d1}
    Cron = cron
    ChunkSize = 2
    MaxFileSize = 3
    Quota = 4
    MaxIndex = 2
    Overlap = FALSE
    MaxCuts = 1
    MaxTxFails = 0
    MaxCancels = 0
    MaxRestarts = 1
    NoRow = NoRow
    NoBlob = NoBlob
    Idle = Idle
SPECIFICATION Spec
INVARIANTS
    TypeOK
    Ledger
    FinishedIntact
    BlobHasRow
SYMMETRY MCSymmetry
CHECK_DEADLOCK FALSE
