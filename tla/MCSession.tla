------------------------------ MODULE MCSession ------------------------------
(* Instances of Session for TLC *)
EXTENDS Session, TLC

CONSTANTS r1, r2, n1, n2, n3, b1, b2, w1

TwoRoots == {r1, r2}
ThreeNotebooks == {n1, n2, n3}
TwoBufs == {b1, b2}
OneWorkspace == {w1}

\* With one workspace nothing tells the elements of the sets apart.
Symmetry == Permutations(Roots) \cup Permutations(Notebooks) \cup Permutations(Bufs)
==============================================================================
