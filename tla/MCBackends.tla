----------------------------- MODULE MCBackends -----------------------------
(* Three spawns of two names, three requests at a time.                    *)
EXTENDS Backends, TLC

CONSTANTS i1, i2, i3, w1, w2, w3

MCSymmetry == Permutations(Workers) \cup Permutations(Ids)
=============================================================================
