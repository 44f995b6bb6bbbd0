--------------------------- MODULE MCAccountsRaces ---------------------------
(* A moderator, and a guest or an address without an account, who becomes  *)
(* registered; both can reset their passwords while roles are assigned and *)
(* payments arrive.  Nobody here can become master, so the index on        *)
(* masters never acts and is fixed.                                        *)
EXTENDS AccountsRaces, TLC

CONSTANTS mod, user, p1, p2, t1, w1, w2

RowOf(role) == [role |-> role, pw |-> p1]

MCInitialStores ==
    {[u \in Users |-> IF u = mod THEN RowOf("moderator") ELSE x] :
         x \in {None, RowOf("guest")}}

MCInit == RInit /\ indexed

MCSpec == MCInit /\ [][RNext]_rvars

MCSymmetry == Permutations(Workers)
=============================================================================
