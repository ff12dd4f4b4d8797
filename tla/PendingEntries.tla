---------------------------- MODULE PendingEntries ----------------------------
(***************************************************************************)
(* The in-process Map of src/agents/pending-approvals.ts: who waits for a  *)
(* decision under which tool-call id.  A map is a function from ids to the *)
(* waiting session, or Nobody.  pending-answers.ts is the same map.        *)
(***************************************************************************)
CONSTANT Nobody

\* createPendingApproval(): Map.set, which replaces an entry of the same id.
Register(map, id, session) == [map EXCEPT ![id] = session]

\* resolveApproval(): only the session stored with the id may settle it.
MaySettle(map, id, session) == map[id] = session

Settle(map, id, session) ==
  IF MaySettle(map, id, session) THEN [map EXCEPT ![id] = Nobody] ELSE map

\* sweepBySession()
Sweep(map, session) ==
  [id \in DOMAIN map |-> IF map[id] = session THEN Nobody ELSE map[id]]
=============================================================================
