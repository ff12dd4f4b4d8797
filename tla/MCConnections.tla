---------------------------- MODULE MCConnections ----------------------------
(***************************************************************************)
(* Instance of Connections for TLC.                                        *)
(***************************************************************************)
EXTENDS Connections, TLC

CONSTANTS t1, t2, r1, r2, b1, b2, k1, k2, k3

\* The second build has one connection, the first has two that are alike.
MCSlotsOf == [b \in Build |-> IF b = b1 THEN {k1, k2} ELSE {k3}]

Alike == Permutations({k1, k2})
=============================================================================
