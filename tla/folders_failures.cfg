CONSTANTS
    a = a  b = b  z = z  x = x  y = y
    None = None  RootName = root  root = root
    Names <- ThreeNames
    Files <- TwoFiles
    MaxDepth = 2
    StartFolders <- FlatFolders
    StartNotes <- FlatNotes
    StartId <- FlatIds
    MaxId = 6
    MaxCalls = 2
    MaxFaults = 1
    NestedCalls <- NoNestedCalls
    WriteRemains <- Old
SPECIFICATION Spec
INVARIANTS NothingLost KnownNodesStay CacheIsCurrent RowsFollowCache
