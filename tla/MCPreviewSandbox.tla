---------------------------- MODULE MCPreviewSandbox ------------------------
(***************************************************************************)
(* An instance of PreviewSandbox for TLC: two sandboxes, two requests at a *)
(* time, one tab.                                                          *)
(***************************************************************************)
EXTENDS PreviewSandbox, TLC

CONSTANTS v1, v2, k1, k2, t1

MCSymmetry == Permutations(Vm) \cup Permutations(Call)
=============================================================================
