CONSTANTS
    r1 = r1  r2 = r2  n1 = n1  n2 = n2  n3 = n3  b1 = b1  b2 = b2  w1 = w1
    None = None
    Torn = Torn
    Roots <- TwoRoots
    Notebooks <- ThreeNotebooks
    Bufs <- TwoBufs
    Workspaces <- OneWorkspace
    Copies = FALSE
    MaxCalls = 4
    MaxStarts = 3
    MaxFaults = 1
    MaxOutside = 1
SPECIFICATION Spec
INVARIANTS BuffersHaveTheirNotebook KnownNotebooksStay SnapshotSurvivesTeardown
PROPERTIES StartRestores
CHECK_DEADLOCK FALSE
SYMMETRY Symmetry
