------------------------------ MODULE MCGitSync ------------------------------
(* Instances of GitSync for TLC *)
EXTENDS GitSync, TLC

CONSTANTS d1, d2, f1, f2, e1, e2, e3, e4

TwoDevices == {d1, d2}
OneFile == {f1}
TwoFiles == {f1, f2}
TwoEdits == {e1, e2}
ThreeEdits == {e1, e2, e3}
FourEdits == {e1, e2, e3, e4}
AllCalls == {"sync", "stage", "network"}
SyncOnly == {"sync"}
Everywhere == {"idle", "sync", "stage", "network", "resolve", "init", "clone"}
InSetup == {"init", "clone"}
SplitPhases == {"stage", "network"}

\* Devices, notes and edits are interchangeable.
Symmetry == Permutations(Devices) \cup Permutations(Files) \cup Permutations(Edits)
==============================================================================
