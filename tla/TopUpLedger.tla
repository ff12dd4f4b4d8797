----------------------------- MODULE TopUpLedger -----------------------------
(***************************************************************************)
(* What the billing code promises about top-up money: every item of a      *)
(* transaction is added to the balance at most once, and from then on the  *)
(* balance only goes down by being spent, never below zero.                *)
(***************************************************************************)
EXTENDS Naturals

CONSTANTS Txn, Items, Amount

VARIABLES balance, credited

ledger == <<balance, credited>>

Init ==
  /\ balance = 0
  /\ credited = [t \in Txn |-> 0]

Credit(t) ==
  /\ credited[t] < Items[t]
  /\ credited' = [credited EXCEPT ![t] = @ + 1]
  /\ balance' = balance + Amount[t]

Spend ==
  /\ \E n \in 1..balance : balance' = balance - n
  /\ UNCHANGED credited

Next == Spend \/ \E t \in Txn : Credit(t)

Spec == Init /\ [][Next]_ledger
=============================================================================
