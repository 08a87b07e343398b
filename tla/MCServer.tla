------------------------------ MODULE MCServer ------------------------------
(* Server for TLC: what clients and owners of zones may do in a run.        *)
EXTENDS Server

Everything == {"addZone", "removeZone", "leave", "setDebug", "pause", "resume", "select", "step", "reset", "edit"}
============================================================================
