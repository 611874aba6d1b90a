CONSTANTS
    d1 = d1
    d2 = d2
    Download = {d1}
    Owner = {d1}
    Magnet = {d1}
    Files = 2
    MaxWorkers = 1
    MaxTasks = 3
    MaxRetry = 1
    MaxPollFails = 2
    MaxAriaFails = 1
    MaxDbFails = 1
    MaxStoreFails = 1
    MaxDeletes = 1
    MaxRestarts = 1
    NoTask = NoTask
    NoDownload = NoDownload
SPECIFICATION FairSpec
INVARIANTS
    TypeOK
    WorkersConserved
    JobsHeld
    TransferComplete
PROPERTIES
    FinalStays
    DownloadEnds
    JobsEnd
CHECK_DEADLOCK FALSE
