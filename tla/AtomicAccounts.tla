---------------------------- MODULE AtomicAccounts ----------------------------
(***************************************************************************)
(* What the account handlers promise of the users table and of the reset   *)
(* tokens: every change of an account is one step that changes one column, *)
(* though the code makes it of a read and a write of the whole row.  Rows  *)
(* that two such updates have crossed on are no longer accounted for, and  *)
(* tokens whose reset was cut off, or entered twice at once, are forfeited *)
(* and may work again.                                                     *)
(***************************************************************************)
CONSTANTS
    Users, Passwords, Tokens, None,
    InitialStores,   \* the user tables the system may start from
    Assignable       \* the roles that may be handed out

VARIABLES
    rows,       \* user -> row, or None: those accounted for
    owner,      \* token -> whom it was made for, or None
    spent,      \* tokens that set a password
    forfeited   \* tokens that may set another

atomicVars == <<rows, owner, spent, forfeited>>

Init ==
    /\ rows \in InitialStores
    /\ owner = [t \in Tokens |-> None]
    /\ spent = {} /\ forfeited = {}

Without(u) == [v \in DOMAIN rows \ {u} |-> rows[v]]

Register(u) ==
    /\ u \in DOMAIN rows /\ rows[u] = None
    /\ \E p \in Passwords : rows' = [rows EXCEPT ![u] = [role |-> "registered", pw |-> p]]
    /\ UNCHANGED <<owner, spent, forfeited>>

(* A guest becomes registered before it becomes anything else.             *)
AssignRole(u) ==
    /\ u \in DOMAIN rows /\ rows[u] # None
    /\ \E r \in IF rows[u].role = "guest" THEN {"registered"} ELSE Assignable :
          rows' = [rows EXCEPT ![u].role = r]
    /\ UNCHANGED <<owner, spent, forfeited>>

(* A token is made for an account that exists.                             *)
IssueToken(t, u) ==
    /\ owner[t] = None
    /\ u \in DOMAIN rows => rows[u] # None
    /\ owner' = [owner EXCEPT ![t] = u]
    /\ UNCHANGED <<rows, spent, forfeited>>

(* A token sets its owner's password, once.                                *)
ResetPassword(t, p) ==
    /\ owner[t] # None
    /\ t \in spent => t \in forfeited
    /\ spent' = spent \cup {t}
    /\ IF owner[t] \in DOMAIN rows
       THEN rows' = [rows EXCEPT ![owner[t]].pw = p] \/ rows' = Without(owner[t])
       ELSE rows' = rows
    /\ UNCHANGED <<owner, forfeited>>

LoseRow(u) ==
    /\ rows' = Without(u)
    /\ UNCHANGED <<owner, spent, forfeited>>

Forfeit(T) ==
    /\ forfeited' = forfeited \cup T
    /\ UNCHANGED <<rows, owner, spent>>

Next ==
    \/ \E u \in Users : Register(u) \/ AssignRole(u) \/ LoseRow(u)
    \/ \E t \in Tokens : \/ \E u \in Users : IssueToken(t, u)
                         \/ \E p \in Passwords : ResetPassword(t, p)
    \/ \E T \in SUBSET Tokens : Forfeit(T)

Spec == Init /\ [][Next]_atomicVars
=============================================================================
