----------------------------- MODULE MCApprovals -----------------------------
(***************************************************************************)
(* Instances of Approvals for TLC: a user with the workspace open in two   *)
(* tabs (tab1, tab2 on session s1), or two users (tab1 and other, on s2).  *)
(***************************************************************************)
EXTENDS Approvals, TLC

CONSTANTS s1, s2, tab1, tab2, other, i1, i2, i3

MCMayJoin == [c \in Socket |-> IF c = other THEN {s2} ELSE {s1}]
=============================================================================
