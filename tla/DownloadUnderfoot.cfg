CONSTANTS
    d1 = d1
    d2 = d2
    Download = {d1}
    Owner = {d1}
    Magnet = {}
    Files = 1
    MaxWorkers = 1
    MaxTasks = 3
    MaxRetry = 1
    MaxPollFails = 0
    MaxAriaFails = 0
    MaxDbFails = 0
    MaxStoreFails = 0
    MaxDeletes = 1
    MaxRestarts = 0
    NoTask = NoTask
    NoDownload = NoDownload
SPECIFICATION FairSpec
PROPERTIES
    TransferKeepsSource
CHECK_DEADLOCK FALSE
