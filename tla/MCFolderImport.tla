--------------------------- MODULE MCFolderImport ---------------------------
(* Instances of FolderImport for TLC *)
EXTENDS FolderImport, TLC

CONSTANTS n1, n2, t1, t2, t3, s1, s2

TwoNames == {n1, n2}
TwoTrees == {t1, t2}
ThreeTrees == {t1, t2, t3}
TwoStagings == {s1, s2}
OldOrTorn == {"old", "torn"}
Removed == {"nothing"}
MayBeKept == {"nothing", "staging"}
Restored == {"saved"}
MayBeTorn == {"saved", "torn"}
AnyRemains == {"old", "torn", "new"}
==============================================================================
