----------------------------- MODULE MCZoneTick -----------------------------
(* ZoneTick for TLC: the jobs of the game, the debugger and the operator.   *)
EXTENDS ZoneTick

Everything == {"tick", "pause", "resume", "step", "reset", "reload"}
============================================================================
