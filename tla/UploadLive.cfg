CONSTANTS
    s1 = s1
    s2 = s2
    Session = {s1}
    Name <- MCNameOne
    Size <- MCSizeShort
    Request = {r1}
    Deleter = {d1}
    Cron = cron
    ChunkSize = 2
    MaxFileSize = 3
    Quota = 4
    MaxIndex = 1
    Overlap = TRUE
    MaxCuts = 0
    MaxTxFails = 2
    MaxCancels = 1
    MaxRestarts = 1
    NoRow = NoRow
    NoBlob = NoBlob
    Idle = Idle
SPECIFICATION FairSpec
PROPERTIES
    PlaceholderResolved
CHECK_DEADLOCK FALSE
