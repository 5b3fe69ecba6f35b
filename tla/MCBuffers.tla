------------------------------ MODULE MCBuffers ------------------------------
(* Instances of Buffers for TLC *)
EXTENDS Buffers, TLC

CONSTANTS n1, n2, p1, p2, b1, b2

TwoNotes == {n1, n2}
TwoPaths == {p1, p2}
TwoIds == {b1, b2}
TwoVersions == {1, 2}

\* Notes, paths and buffers are interchangeable.
Symmetry == Permutations(Notes) \cup Permutations(Paths) \cup Permutations(Ids)
==============================================================================
