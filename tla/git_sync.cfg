CONSTANTS
    d1 = d1  d2 = d2  f1 = f1  f2 = f2  e1 = e1  e2 = e2  e3 = e3  e4 = e4
    None = None
    Devices <- TwoDevices
    Files <- OneFile
    Meta = None
    Cloned = TRUE
    Interrupted <- Everywhere
    Edits <- ThreeEdits
    Calls <- AllCalls
    SameEdits = FALSE
    SyncOverConflict = TRUE
    SaveOverConflict = TRUE
    MaxAttempts = 2
    MaxFailures = 1
    Founder = None
    MaxFaults = 2
    MaxRestarts = 1
SPECIFICATION Spec
INVARIANTS CommittedEditsSurvive SyncedMeansPublished MarkersNeverPublished
PROPERTIES ImplementsSharedHistory
SYMMETRY Symmetry
