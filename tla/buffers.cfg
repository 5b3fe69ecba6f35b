CONSTANTS
    n1 = n1  n2 = n2  p1 = p1  p2 = p2  b1 = b1  b2 = b2
    None = None
    Notes <- TwoNotes
    Paths <- TwoPaths
    Ids <- TwoIds
    Versions <- TwoVersions
    Consumer <- Cares
    MaxFaults = 1
    MaxForeign = 1
    MaxRestarts = 1
SPECIFICATION Spec
INVARIANTS TextsStayWithTheirNote CleanBuffersShowTheFile KeptTextsStay
SYMMETRY Symmetry
