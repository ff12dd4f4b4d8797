------------------------------ MODULE MCBilling ------------------------------
(***************************************************************************)
(* Instances of Billing for TLC: a free plan of 1 and a plan of 2 whose    *)
(* unused money carries over, and top-ups of two items.                    *)
(***************************************************************************)
EXTENDS Billing, TLC

CONSTANTS k1, k2, k3, e1, e2, e3, t1

MCPlanUsage == [p \in Plan |-> IF p = "free" THEN 1 ELSE 2]
MCRolloverCap == [p \in Plan |-> IF p = "free" THEN 0 ELSE 1]
MCOneItem == [t \in Txn |-> 1]
MCTwoItems == [t \in Txn |-> 2]
MCAmount == [t \in Txn |-> 2]

MCSymmetry == Permutations(Call) \cup Permutations(Event)
=============================================================================
