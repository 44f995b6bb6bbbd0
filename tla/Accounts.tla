------------------------------ MODULE Accounts ------------------------------
(***************************************************************************)
(* The account handlers of the API process and the datastore they share:   *)
(* registration, login, token refresh, password reset by mail, the role    *)
(* endpoint of the administrators and the payment webhook that promotes    *)
(* subscribers.                                                            *)
(*                                                                         *)
(* Every request runs on a worker (a goroutine of net/http).  The store    *)
(* and the mail server are reached by calls, and requests interleave       *)
(* between calls, so each call is one action.  UpdateRole and              *)
(* UpdatePassword read the whole row, change one column and write the      *)
(* whole row back: two actions, GetRow and SetRow.  A row is never         *)
(* deleted, and a user's id and e-mail determine each other, so a user     *)
(* stands for both.  The datastore library is outside the repository: one  *)
(* Get or Set of it is atomic and a Get returns the last Set (the schemas  *)
(* ask for WriteThrough).                                                  *)
(***************************************************************************)
EXTENDS Roles, FiniteSets

CONSTANTS
    Users,           \* e-mail addresses, one account each
    Passwords,
    Tokens,          \* reset tokens that can ever be generated
    Workers,         \* requests in flight at once
    None,
    InitialStores,   \* the user tables the system may start from
    RequestedRoles,  \* role names that clients write in payloads
    SMTPConfigured,  \* all five SMTP_* settings are present
    MaxSessions      \* bound: access tokens unexpired at once

Row    == [role : RoleNames, pw : Passwords]
Stores == [Users -> Row \cup {None}]

Session    == [user : Users, role : RoleNames]
ResetToken == [user : Users, used : BOOLEAN, live : BOOLEAN]

MastersOf(store) ==
    {u \in Users : store[u] # None /\ store[u].role = "master_admin"}

ASSUME AccountsAssumption ==
    /\ None \notin Users \cup Passwords \cup Tokens \cup RoleNames
    /\ None \notin Row \cup ResetToken
    /\ InitialStores \subseteq Stores
    /\ RequestedRoles \subseteq RoleNames \cup UnknownRoles
    /\ SMTPConfigured \in BOOLEAN

VARIABLES
    users,        \* the users table: user -> row, or None
    resetTokens,  \* the password_reset_tokens table: token -> row, or None
    mailed,       \* raw tokens that reached their owner by mail
    sessions,     \* claims of the unexpired access tokens
    indexed,      \* the users table has users_one_master_admin_idx
    req           \* what each worker is doing

vars == <<users, resetTokens, mailed, sessions, indexed, req>>

(* A request names the call it makes next.  role is the role UpdateRole    *)
(* was called with, pw the password UpdatePassword was called with, row    *)
(* what its Get returned.                                                  *)
Calls   == {"idle", "getRow", "setRow", "markUsed", "createToken", "sendMail"}
Request == [at    : Calls,
            user  : Users \cup {None},
            role  : CanonicalRoles \cup {None},
            pw    : Passwords \cup {None},
            token : Tokens \cup {None},
            row   : Row \cup {None}]

Idle == [at |-> "idle", user |-> None, role |-> None, pw |-> None,
         token |-> None, row |-> None]

TypeOK ==
    /\ users \in Stores
    /\ resetTokens \in [Tokens -> ResetToken \cup {None}]
    /\ mailed \subseteq Tokens
    /\ sessions \subseteq Session
    /\ indexed \in BOOLEAN
    /\ req \in [Workers -> Request]

Init ==
    /\ users \in {store \in InitialStores : Cardinality(MastersOf(store)) <= 1}
    /\ resetTokens = [t \in Tokens |-> None]
    /\ mailed = {}
    /\ sessions = {}
    /\ indexed \in BOOLEAN
    /\ req = [w \in Workers |-> Idle]

-----------------------------------------------------------------------------
(* Mutant of IndexAllows: the migration did not create the index.         *)
NoIndex(u, role) == TRUE

(* The partial unique index users_one_master_admin_idx rejects a write of  *)
(* u's row that would make a second master_admin.                          *)
IndexAllows(u, role) ==
    indexed /\ role = "master_admin" => MastersOf(users) \subseteq {u}

Issue(u, role) ==
    /\ sessions' = sessions \cup {[user |-> u, role |-> role]}
    /\ Cardinality(sessions') <= MaxSessions

Free(w)        == req[w].at = "idle"
Continue(w, r) == req' = [req EXCEPT ![w] = r]
Finish(w)      == Continue(w, Idle)

StartUpdate(w, u, role, pw, t) ==
    Continue(w, [Idle EXCEPT !.at = "getRow", !.user = u, !.role = role,
                             !.pw = pw, !.token = t])

(* Mutant of CreateRow: the e-mail column is not unique.                   *)
UpsertRow(u, p, role) ==
    /\ IndexAllows(u, role)
    /\ users' = [users EXCEPT ![u] = [role |-> role, pw |-> p]]

(* Repository Create: the e-mail column is unique.                         *)
CreateRow(u, p, role) ==
    /\ users[u] = None
    /\ IndexAllows(u, role)
    /\ users' = [users EXCEPT ![u] = [role |-> role, pw |-> p]]

(* The handler takes no role but registered; the service needs SMTP.       *)
Register(u, p, role) ==
    /\ SMTPConfigured
    /\ NormalizeRole(role) = "registered"
    /\ CreateRow(u, p, NormalizeRole(role))
    /\ Issue(u, NormalizeRole(role))
    /\ UNCHANGED <<resetTokens, mailed, req, indexed>>

Login(u, p) ==
    /\ users[u] # None
    /\ users[u].pw = p
    /\ Issue(u, users[u].role)
    /\ UNCHANGED <<users, resetTokens, mailed, req, indexed>>

(* The new claims are read from the store, not copied from the old token.  *)
RefreshToken(s) ==
    /\ s \in sessions
    /\ users[s.user] # None
    /\ Issue(s.user, users[s.user].role)
    /\ UNCHANGED <<users, resetTokens, mailed, req, indexed>>

(* 24 hours pass.                                                          *)
ExpireSession(s) ==
    /\ s \in sessions
    /\ sessions' = sessions \ {s}
    /\ UNCHANGED <<users, resetTokens, mailed, req, indexed>>

-----------------------------------------------------------------------------
(* PATCH /admin/users/{id}/role: authority is judged on the claims, the    *)
(* target on the row its ByID reads; then UpdateRole.                      *)
RequestRole(w, s, u, role) ==
    /\ Free(w)
    /\ s \in sessions
    /\ CanActAs(s.role, "moderator")
    /\ IsValidRole(role)
    /\ CanAssignRole(s.role, role)
    /\ users[u] # None
    /\ NormalizeRole(role) \in NeedsRegisteredTarget
           => IsRegisteredUser(users[u].role)
    /\ StartUpdate(w, u, NormalizeRole(role), None, None)
    /\ UNCHANGED <<users, resetTokens, mailed, sessions, indexed>>

(* An accepted payment event of u: promoteSubscriberIfEligible.            *)
Webhook(w, u) ==
    /\ Free(w)
    /\ users[u] # None
    /\ IsRegisteredUser(users[u].role)
    /\ NormalizeRole(users[u].role) # "subscriber"
    /\ StartUpdate(w, u, "subscriber", None, None)
    /\ UNCHANGED <<users, resetTokens, mailed, sessions, indexed>>

(* UpdateRole and UpdatePassword: the Get ...                              *)
GetRow(w) ==
    /\ req[w].at = "getRow"
    /\ users[req[w].user] # None
    /\ Continue(w, [req[w] EXCEPT !.at = "setRow", !.row = users[req[w].user]])
    /\ UNCHANGED <<users, resetTokens, mailed, sessions, indexed>>

(* Mutant of UpdatedRow: the two columns are swapped.                      *)
SwappedRow(r) ==
    IF r.pw = None THEN [r.row EXCEPT !.pw = r.pw] ELSE [r.row EXCEPT !.role = r.role]

(* ... one column of the copy changed ...                                  *)
UpdatedRow(r) ==
    IF r.pw = None THEN [r.row EXCEPT !.role = r.role]
                   ELSE [r.row EXCEPT !.pw = r.pw]

(* ... and the Set of the whole row.                                       *)
SetRow(w) ==
    /\ req[w].at = "setRow"
    /\ IndexAllows(req[w].user, UpdatedRow(req[w]).role)
    /\ users' = [users EXCEPT ![req[w].user] = UpdatedRow(req[w])]
    /\ IF req[w].pw = None
         THEN Finish(w)
         ELSE Continue(w, [req[w] EXCEPT !.at = "markUsed", !.row = None])
    /\ UNCHANGED <<resetTokens, mailed, sessions, indexed>>

-----------------------------------------------------------------------------
(* ForgotPassword: look the user up, store a token, mail it.  An unknown   *)
(* address is answered like a known one and changes nothing.               *)
ForgotPassword(w, u) ==
    /\ Free(w)
    /\ SMTPConfigured
    /\ users[u] # None
    /\ Continue(w, [Idle EXCEPT !.at = "createToken", !.user = u])
    /\ UNCHANGED <<users, resetTokens, mailed, sessions, indexed>>

CreateToken(w, t) ==
    /\ req[w].at = "createToken"
    /\ resetTokens[t] = None
    /\ resetTokens' = [resetTokens EXCEPT ![t] =
           [user |-> req[w].user, used |-> FALSE, live |-> TRUE]]
    /\ Continue(w, [req[w] EXCEPT !.at = "sendMail", !.token = t])
    /\ UNCHANGED <<users, mailed, sessions, indexed>>

SendMail(w) ==
    /\ req[w].at = "sendMail"
    /\ mailed' = mailed \cup {req[w].token}
    /\ Finish(w)
    /\ UNCHANGED <<users, resetTokens, sessions, indexed>>

(* The 30 minutes of a token pass: GetValidByHash finds it no more.        *)
ExpireToken(t) ==
    /\ resetTokens[t] # None
    /\ resetTokens[t].live
    /\ resetTokens' = [resetTokens EXCEPT ![t].live = FALSE]
    /\ UNCHANGED <<users, mailed, sessions, req, indexed>>

(* Mutant of ValidToken: GetValidByHash does not ask whether it is used.   *)
UnexpiredToken(t) == resetTokens[t] # None /\ resetTokens[t].live

ValidToken(t) ==
    /\ resetTokens[t] # None
    /\ ~resetTokens[t].used
    /\ resetTokens[t].live

(* ResetPassword up to its first call; only the mail tells a raw token.    *)
ResetPassword(w, t, p) ==
    /\ Free(w)
    /\ SMTPConfigured
    /\ t \in mailed
    /\ ValidToken(t)
    /\ StartUpdate(w, resetTokens[t].user, None, p, t)
    /\ UNCHANGED <<users, resetTokens, mailed, sessions, indexed>>

(* MarkUsed also reads and writes a whole row, but nothing else rewrites   *)
(* a token's row, so its two calls are one action.                         *)
MarkUsed(w) ==
    /\ req[w].at = "markUsed"
    /\ resetTokens' = [resetTokens EXCEPT ![req[w].token].used = TRUE]
    /\ Finish(w)
    /\ UNCHANGED <<users, mailed, sessions, indexed>>

-----------------------------------------------------------------------------
(* Any call may return an error (store or mail server down, the request's  *)
(* context expired, the unique index): the handler returns it and stops.   *)
Fail(w) ==
    /\ ~Free(w)
    /\ Finish(w)
    /\ UNCHANGED <<users, resetTokens, mailed, sessions, indexed>>

(* The process dies and is started again: requests vanish, the tables, the *)
(* mails sent and the signed access tokens remain.                         *)
Crash ==
    /\ req' = [w \in Workers |-> Idle]
    /\ UNCHANGED <<users, resetTokens, mailed, sessions, indexed>>

Next ==
    \/ \E u \in Users, p \in Passwords, r \in RequestedRoles : Register(u, p, r)
    \/ \E u \in Users, p \in Passwords : Login(u, p)
    \/ \E s \in sessions : RefreshToken(s) \/ ExpireSession(s)
    \/ \E w \in Workers, s \in sessions, u \in Users, r \in RequestedRoles :
           RequestRole(w, s, u, r)
    \/ \E w \in Workers, u \in Users : Webhook(w, u) \/ ForgotPassword(w, u)
    \/ \E w \in Workers, t \in Tokens : CreateToken(w, t)
    \/ \E w \in Workers, t \in Tokens, p \in Passwords : ResetPassword(w, t, p)
    \/ \E w \in Workers : GetRow(w) \/ SetRow(w) \/ SendMail(w) \/ MarkUsed(w)
                          \/ Fail(w)
    \/ \E t \in Tokens : ExpireToken(t)
    \/ Crash

Spec == Init /\ [][Next]_vars
=============================================================================
