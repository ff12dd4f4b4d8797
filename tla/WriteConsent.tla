----------------------------- MODULE WriteConsent -----------------------------
(***************************************************************************)
(* What the approval gate promises of every write a model asks for: it     *)
(* runs at most once, only after the user said yes to it, and never once   *)
(* it was refused.  How the gate keeps the promise is in Approvals.        *)
(***************************************************************************)
CONSTANT Call

VARIABLES stage,  \* how far each call has come
          yes     \* the calls the user said yes to, in time or too late

vars == <<stage, yes>>

Init == /\ stage = [c \in Call |-> "none"]
        /\ yes = {}

Move(c, from, to) == /\ stage[c] = from
                     /\ stage' = [stage EXCEPT ![c] = to]

Ask(c)     == Move(c, "none", "asked") /\ UNCHANGED yes
Dismiss(c) == Move(c, "none", "refused") /\ UNCHANGED yes
Approve(c) == Move(c, "asked", "approved") /\ yes' = yes \cup {c}
Refuse(c)  == Move(c, "asked", "refused") /\ UNCHANGED yes
Run(c)     == Move(c, "approved", "ran") /\ UNCHANGED yes

\* A yes that changes nothing: the call was decided already.
TooLate(c) == /\ stage[c] \notin {"none", "asked"}
              /\ yes' = yes \cup {c}
              /\ UNCHANGED stage

Next == \E c \in Call : Ask(c) \/ Dismiss(c) \/ Approve(c) \/ Refuse(c) \/ Run(c) \/ TooLate(c)

Spec == Init /\ [][Next]_vars
=============================================================================
