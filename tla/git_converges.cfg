CONSTANTS
    d1 = d1  d2 = d2  f1 = f1  f2 = f2  e1 = e1  e2 = e2  e3 = e3  e4 = e4
    None = None
    Devices <- TwoDevices
    Files <- TwoFiles
    Meta = f1
    Cloned = FALSE
    Interrupted <- InSetup
    Edits <- FourEdits
    Calls <- SyncOnly
    SameEdits = FALSE
    SyncOverConflict = FALSE
    SaveOverConflict = FALSE
    MaxAttempts = 2
    MaxFailures = 1
    Founder = d1
    MaxFaults = 1
    MaxRestarts = 1
SPECIFICATION FairSpec
INVARIANTS SavedEditsSurvive
PROPERTIES Converges
