----------------------------- MODULE MCAccounts -----------------------------
(* Two scenarios, chosen at the start.  "roles": roles and payments of an   *)
(* administrator, and of a user who has no row, or a guest's, or one with   *)
(* the alias of an old release; no reset tokens and one password.           *)
(* "resets": registration and password resets of one registered user and    *)
(* one address without an account.                                          *)
EXTENDS AccountsProvenance, TLC

CONSTANTS u1, u2, p1, p2, t1, w1, w2

VARIABLE scenario

RowOf(role) == [role |-> role, pw |-> p1]

StoreOf(role, row) == [u \in Users |-> IF u = u1 THEN RowOf(role) ELSE row]

MCInitialStores == {StoreOf("admin", row) : row \in {None, RowOf("systop"), RowOf("guest")}}
                   \cup {StoreOf("registered", None)}

MCRequestedRoles == {"registered", "member", "moderator", "admin", "owner"}

MCInit ==
    /\ HInit
    /\ scenario = IF users[u1].role = "admin" THEN "roles" ELSE "resets"

InScenario ==
    \/ /\ scenario = "roles"
       /\ \A u \in Users : chosen'[u] \subseteq {p1}
       /\ \A w \in Workers : req'[w].at # "createToken"
    \/ /\ scenario = "resets"
       /\ \A w \in Workers : req'[w].role \in {None, "subscriber"}

MCNext == HNext /\ InScenario /\ UNCHANGED scenario

MCSpec == MCInit /\ [][MCNext]_<<hvars, scenario>>

MCSymmetry == Permutations(Workers)
=============================================================================
