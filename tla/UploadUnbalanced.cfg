CONSTANTS
    s1 = s1
    s2 = s2
    Session = {s1}
    Name <- MCNameOne
    Size <- MCSizeOne
    Request = {r1, r2}
    Deleter = {}
    Cron = cron
    ChunkSize = 2
    MaxFileSize = 3
    Quota = 4
    MaxIndex = 1
    Overlap = TRUE
    MaxCuts = 0
    MaxTxFails = 0
    MaxCancels = 0
    MaxRestarts = 0
    NoRow = NoRow
    NoBlob = NoBlob
    Idle = Idle
SPECIFICATION Spec
PROPERTIES
    BalancedCharge
CHECK_DEADLOCK FALSE
