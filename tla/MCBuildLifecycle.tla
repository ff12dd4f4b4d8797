-------------------------- MODULE MCBuildLifecycle --------------------------
(***************************************************************************)
(* Instances of BuildLifecycle for TLC: two requests race for one project. *)
(***************************************************************************)
EXTENDS BuildLifecycle, TLC

CONSTANTS s1, s2, p1

MCSession == {s1, s2}
MCProject == {p1}
Symmetry  == Permutations(MCSession)
=============================================================================
