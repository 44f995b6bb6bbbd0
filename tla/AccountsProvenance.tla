------------------------- MODULE AccountsProvenance -------------------------
(***************************************************************************)
(* Accounts with a history of who was entitled to what.  The entitlement   *)
(* is judged here independently of the guards of the handlers: a role is   *)
(* granted by a registration, by a payment of a registered user, or by a   *)
(* token whose role outranks it; a password is chosen by its owner, at     *)
(* registration or with a live, unused token mailed to that owner.         *)
(***************************************************************************)
EXTENDS Accounts

VARIABLES
    granted,   \* user -> roles the user was ever entitled to
    chosen     \* user -> passwords the user ever chose

hvars == <<vars, granted, chosen>>

HTypeOK ==
    /\ TypeOK
    /\ granted \in [Users -> SUBSET CanonicalRoles]
    /\ chosen \in [Users -> SUBSET Passwords]

StoredRole(u) == {NormalizeRole(users[v].role) : v \in {x \in {u} : users[x] # None}}
StoredPw(u)   == {users[v].pw : v \in {x \in {u} : users[x] # None}}

HInit ==
    /\ Init
    /\ granted = [u \in Users |-> StoredRole(u)]
    /\ chosen = [u \in Users |-> StoredPw(u)]

Grant(u, role, entitled) ==
    granted' = IF entitled THEN [granted EXCEPT ![u] = @ \cup {role}] ELSE granted

Choose(u, p, entitled) ==
    chosen' = IF entitled THEN [chosen EXCEPT ![u] = @ \cup {p}] ELSE chosen

HRegister(u, p, r) ==
    /\ Register(u, p, r)
    /\ Grant(u, "registered", TRUE)
    /\ Choose(u, p, TRUE)

Outranks(s, role) ==
    /\ Priority(s.role) > Priority(role)
    /\ Priority(s.role) >= Priority("moderator")

HRequestRole(w, s, u, r) ==
    /\ RequestRole(w, s, u, r)
    /\ Grant(u, NormalizeRole(r), Outranks(s, r))
    /\ UNCHANGED chosen

HWebhook(w, u) ==
    /\ Webhook(w, u)
    /\ Grant(u, "subscriber", Priority(users[u].role) >= Priority("registered"))
    /\ UNCHANGED chosen

HResetPassword(w, t, p) ==
    /\ ResetPassword(w, t, p)
    /\ Choose(resetTokens[t].user, p,
              t \in mailed /\ ~resetTokens[t].used /\ resetTokens[t].live)
    /\ UNCHANGED granted

(* Every other step decides nothing about roles or passwords.              *)
Undecided ==
    \/ \E u \in Users, p \in Passwords : Login(u, p)
    \/ \E s \in sessions : RefreshToken(s) \/ ExpireSession(s)
    \/ \E w \in Workers, u \in Users : ForgotPassword(w, u)
    \/ \E w \in Workers, t \in Tokens : CreateToken(w, t)
    \/ \E w \in Workers : GetRow(w) \/ SetRow(w) \/ SendMail(w) \/ MarkUsed(w)
                          \/ Fail(w)
    \/ \E t \in Tokens : ExpireToken(t)
    \/ Crash

HNext ==
    \/ \E u \in Users, p \in Passwords, r \in RequestedRoles : HRegister(u, p, r)
    \/ \E w \in Workers, s \in sessions, u \in Users, r \in RequestedRoles :
           HRequestRole(w, s, u, r)
    \/ \E w \in Workers, u \in Users : HWebhook(w, u)
    \/ \E w \in Workers, t \in Tokens, p \in Passwords : HResetPassword(w, t, p)
    \/ Undecided /\ UNCHANGED <<granted, chosen>>

HSpec == HInit /\ [][HNext]_hvars

-----------------------------------------------------------------------------
(* However role writes, resets, failures and restarts interleave, a role   *)
(* in the store or in an unexpired access token is one its user was        *)
(* entitled to at some time: a stale row written back, or a token kept for *)
(* its 24 hours, may revive an old role but never invent one.              *)
RoleProvenance ==
    /\ \A u \in Users :
           users[u] # None => NormalizeRole(users[u].role) \in granted[u]
    /\ \A s \in sessions : NormalizeRole(s.role) \in granted[s.user]

(* The password that opens an account was chosen by the owner of the       *)
(* account: a whole-row write for one user never carries the password of   *)
(* another user, nor one asked for with a token that was spent or expired. *)
PasswordProvenance ==
    \A u \in Users : users[u] # None => users[u].pw \in chosen[u]

-----------------------------------------------------------------------------
(* The inductive strengthening: a request in flight names what its next    *)
(* call needs, and what it is about to write is already accounted for.     *)
Accounted(r) ==
    /\ r.at \in {"createToken", "getRow", "setRow"} => r.user # None
    /\ r.at = "sendMail" => r.token # None
    /\ r.at = "markUsed" => r.pw # None
    /\ r.at \in {"getRow", "setRow", "markUsed"} =>
           IF r.pw = None
             THEN r.role # None /\ r.role \in granted[r.user]
             ELSE /\ r.token # None /\ resetTokens[r.token] # None
                  /\ r.at # "markUsed" => r.pw \in chosen[r.user]
    /\ r.at = "setRow" => /\ r.row # None
                          /\ NormalizeRole(r.row.role) \in granted[r.user]
                          /\ r.row.pw \in chosen[r.user]

PendingProvenance == \A w \in Workers : Accounted(req[w])

IInv == HTypeOK /\ RoleProvenance /\ PasswordProvenance /\ PendingProvenance
=============================================================================
