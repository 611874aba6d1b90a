CONSTANTS
    d1 = d1
    d2 = d2
    Download = {d1, d2}
    Owner = {d1, d2}
    Magnet = {d1}
    Files = 1
    MaxWorkers = 1
    MaxTasks = 4
    MaxRetry = 1
    MaxPollFails = 0
    MaxAriaFails = 0
    MaxDbFails = 0
    MaxStoreFails = 1
    MaxDeletes = 0
    MaxRestarts = 0
    NoTask = NoTask
    NoDownload = NoDownload
SPECIFICATION FairSpec
PROPERTIES
    TransferKeepsSource
    FolderRecycled
CHECK_DEADLOCK FALSE
