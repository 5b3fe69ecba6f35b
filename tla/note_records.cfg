CONSTANTS
    n1 = n1  n2 = n2  t1 = t1  t2 = t2
    None = None
    Root = Root  Sub = Sub
    Notes <- OneNote
    Place <- InSub
    Outsider = Outsider
    TagNames <- TwoTags
    FileNames = {"a"}
    Repeats = FALSE
    MovesAttached = FALSE
    MaxCalls = 3
    MaxOpens = 2
    MaxFaults = 1
SPECIFICATION Spec
INVARIANTS TagsOfNotesExist SkippedTagSyncIsSafe QueriesAnswerRecords ListedAttachmentsExist InsertedFilesStay
CHECK_DEADLOCK FALSE
SYMMETRY Symmetry
