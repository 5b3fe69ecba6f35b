------------------------------ MODULE MCRawFolder ------------------------------
(***************************************************************************)
(* Instances of RawFolder for TLC.                                         *)
(***************************************************************************)
EXTENDS RawFolder

SymmetryOfNames == Permutations(Names)
===============================================================================
