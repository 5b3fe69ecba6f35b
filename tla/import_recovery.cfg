CONSTANTS
    n1 = n1  n2 = n2  t1 = t1  t2 = t2  t3 = t3  s1 = s1  s2 = s2
    None = None
    Names <- TwoNames
    Trees <- TwoTrees
    Stagings <- TwoStagings
    WriteRemains <- OldOrTorn
    RemovalLeaves <- Removed
    RestoreLeaves <- Restored
    MaxFailures = 1
    MaxCrashes = 2
SPECIFICATION FairSpec
INVARIANTS NothingIsLeftBehind
PROPERTIES ImplementsAtomicFolders Repaired
