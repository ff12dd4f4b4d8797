-------------------------- MODULE MCBuildEvidence --------------------------
(***************************************************************************)
(* Two checks, the two that BuildEvidence.tla treats differently.  Three   *)
(* changes are one by the model, one by the preview chain and the audit's  *)
(* repair; two rounds and two calls of a reply are a check and a write     *)
(* after it, and a reply that has no round left.                           *)
(*                                                                         *)
(* Storage fails in behaviours of their own, for what is stored depends on *)
(* no verdict and on nothing before the first upload of everything: there  *)
(* one reply comes, without calls, and the three changes are the repairs'. *)
(***************************************************************************)
EXTENDS BuildEvidence

VARIABLE storageFails

MCInit == Init /\ storageFails \in BOOLEAN

MCNext ==
  /\ Next /\ UNCHANGED storageFails
  /\ IF storageFails
     THEN pc = "reply" => pc' \notin {"reply", "tools"} /\ ~leftOn'
     ELSE "lost" \notin unstored'

MCSpec == MCInit /\ [][MCNext]_<<vars, storageFails>>
=============================================================================
