---------------------------- MODULE MCProjectFiles ----------------------------
(***************************************************************************)
(* Instances of ProjectFiles for TLC.                                      *)
(***************************************************************************)
EXTENDS ProjectFiles, TLC

CONSTANTS p1, p2, c1, c2, l1, l2

MCSymmetry == Permutations(Path) \cup Permutations(Content) \cup Permutations(Label)
=============================================================================
