CONSTANTS
    i1 = i1
    i2 = i2
    i3 = i3
    i4 = i4
    i5 = i5
    i6 = i6
    Items = {i1, i2, i3, i4, i5, i6}
    Uploaders = {i1, i2, i3, i4, i5, i6}
    FileOf <- MCFileOf
    Limits = {1, 2}
    PolicyOf <- MCPolicyOf
    Allowed = {1, 2, 3, 4}
    Chunks = {1, 2}
    MaxSessions = 2
    MaxFaults = 3
    MaxEdits = 1
    MaxRequests = 3
    Rows = {1, 2, 3}
    Sizes = {1, 2}
    MaxClicks = 3
    Objects = {i1, i2, i3}
    Home <- MCHome
    Found = {i1}
    PageSizes <- MCPageSizes
    MaxCalls = 3
    MaxTyping = 1
    MaxCalled = 3
    MaxOthers = 1
    Accounts = {i1, i2, i3}
    Old = {i1, i2}
    Keys = {i4}
    MaxChanges = 2
SPECIFICATION MCSpec
INVARIANTS
    FinishedUploaded
    CtxTruthful
    RemovedIsQuiet
    NoSelfDelete
    CardsServed
    PlacesCounted
    NoTwins
    QueueServed
    SavedComplete
    SavedShown
    EditKeeps
    SelectedListed
    ListCurrent
    FolderShown
    PickedShown
    DialogsFreed
    PageExists
    OptionsKept
    OptionsShown
    OptionsApplied
    SettingsShown
    AccountsShown
    ButtonsFreed
PROPERTIES
    KeepsContract
    StartsWithinLimit
CHECK_DEADLOCK FALSE
