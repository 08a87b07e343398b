------------------------------- MODULE MCZone -------------------------------
(* Zone for TLC: every AI instance has a character, and an id, of its own. *)
EXTENDS Zone

OwnId == [a \in AIs |-> a]
============================================================================
