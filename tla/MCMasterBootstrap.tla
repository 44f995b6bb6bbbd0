------------------------- MODULE MCMasterBootstrap -------------------------
(* Both users may be configured as master; a is master in the old table, b *)
(* is a second master, or a moderator, or has no row yet.                  *)
EXTENDS MasterBootstrap, TLC

CONSTANTS a, b, p1, t1, w1, w2

RowOf(role) == [role |-> role, pw |-> p1]

MCInitialStores ==
    {[u \in Users |-> IF u = a THEN RowOf("master_admin") ELSE x] :
         x \in {None, RowOf("moderator"), RowOf("master_admin")}}

MCSymmetry == Permutations(Workers)
=============================================================================
