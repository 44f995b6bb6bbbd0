--------------------------- MODULE MCOrchestrator ---------------------------
(* Two starts, and one instance more than the managed pair needs: for a    *)
(* request that races the shutdown, or for the pair of the second start.   *)
EXTENDS Orchestrator

CONSTANTS i1, i2, i3
=============================================================================
