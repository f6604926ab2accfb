--------------------------- MODULE MCObservation ---------------------------
(* One watch of a connection. *)
EXTENDS Observation

CONSTANTS a, c

OwnerOf == [x \in Calls |-> c]
TargetOf == <<>>
============================================================================
