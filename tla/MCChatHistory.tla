--------------------------- MODULE MCChatHistory ---------------------------
(***************************************************************************)
(* One socket, for sockets do not meet: each has its own place and view.   *)
(* Three events are a text, what closes it and what comes after a retry or *)
(* the end; one fault of a behaviour can fall on any step of it.  One      *)
(* request to cancel is enough for the end to be told by another than the  *)
(* runner, and for the runner to go on after it.                           *)
(*                                                                         *)
(* A behaviour has a fault, or its end is told by a cancel or a shutdown,  *)
(* which the process may not survive.  Then the socket is in the room and  *)
(* stays, or is out and joins when everything has come to rest.            *)
(***************************************************************************)
EXTENDS ChatHistory

CONSTANTS s1, c1

EndedByOther == stopping # "no" \/ \E c \in Cancel : cancel[c] # "none"
AtRest == runner = "gone" /\ pushing = <<>> /\ inserts = {}

MCNext ==
  /\ Next
  /\ ~EndedByOther /\ EndedByOther' =>
       faults' = 0 /\ \A s \in Socket : place[s] \in {"in", "out"}
  /\ EndedByOther =>
       /\ faults' # faults => Restart
       /\ \A s \in Socket : ~Leave(s) /\ (Join(s) => AtRest)

MCSpec == Init /\ [][MCNext]_vars
=============================================================================
