-------------------------- MODULE MCServerShutdown --------------------------
(* Three requests may be in flight when the process is asked to stop.      *)
EXTENDS ServerShutdown

CONSTANTS r1, r2, r3
=============================================================================
