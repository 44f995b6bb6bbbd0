---------------------------- MODULE AccountsRaces ----------------------------
(***************************************************************************)
(* Accounts with a history of what was written last and of what raced: the *)
(* whole-row writes of UpdateRole and UpdatePassword may overtake each     *)
(* other, and a reset marks its token only after it set the password.      *)
(***************************************************************************)
EXTENDS Accounts

VARIABLES
    latest,     \* user -> the columns as the last writer of each wanted them
    raced,      \* users with a write between another request's Get and Set
    spent,      \* tokens that set a password
    respent,    \* tokens that set a password twice
    disturbed   \* tokens whose reset was cut off or entered twice at once

rvars == <<vars, latest, raced, spent, respent, disturbed>>

RTypeOK ==
    /\ TypeOK
    /\ latest \in Stores
    /\ raced \subseteq Users
    /\ respent \subseteq spent
    /\ spent \subseteq Tokens
    /\ disturbed \subseteq Tokens

RInit ==
    /\ Init
    /\ latest = users
    /\ raced = {}
    /\ spent = {}
    /\ respent = {}
    /\ disturbed = {}

(* Workers between the Get and the Set of an update of the other column of *)
(* the row that w updates.                                                 *)
Crossing(w) ==
    {v \in Workers \ {w} : /\ req[v].at = "setRow"
                           /\ req[v].user = req[w].user
                           /\ (req[v].pw = None) # (req[w].pw = None)}

RSetRow(w) ==
    /\ SetRow(w)
    /\ latest' = [latest EXCEPT ![req[w].user] =
                     UpdatedRow([req[w] EXCEPT !.row = latest[req[w].user]])]
    /\ raced' = IF Crossing(w) = {} THEN raced ELSE raced \cup {req[w].user}
    /\ LET used == {req[w].token} \ {None} IN
       /\ spent' = spent \cup used
       /\ respent' = respent \cup (used \cap spent)
    /\ UNCHANGED disturbed

RRegister(u, p, r) ==
    /\ Register(u, p, r)
    /\ latest' = [latest EXCEPT ![u] = [role |-> "registered", pw |-> p]]
    /\ UNCHANGED <<raced, spent, respent, disturbed>>

(* Tokens that the workers in W are resetting a password with.             *)
Resetting(W) ==
    {req[w].token : w \in {v \in W : req[v].at \in {"getRow", "setRow", "markUsed"}}}
        \ {None}

RResetPassword(w, t, p) ==
    /\ ResetPassword(w, t, p)
    /\ disturbed' = disturbed \cup ({t} \cap Resetting(Workers))
    /\ UNCHANGED <<latest, raced, spent, respent>>

RFail(w) ==
    /\ Fail(w)
    /\ disturbed' = disturbed \cup Resetting({w})
    /\ UNCHANGED <<latest, raced, spent, respent>>

RCrash ==
    /\ Crash
    /\ disturbed' = disturbed \cup Resetting(Workers)
    /\ UNCHANGED <<latest, raced, spent, respent>>

Harmless ==
    \/ \E u \in Users, p \in Passwords : Login(u, p)
    \/ \E s \in sessions : RefreshToken(s) \/ ExpireSession(s)
    \/ \E w \in Workers, s \in sessions, u \in Users, r \in RequestedRoles :
           RequestRole(w, s, u, r)
    \/ \E w \in Workers, u \in Users : Webhook(w, u) \/ ForgotPassword(w, u)
    \/ \E w \in Workers, t \in Tokens : CreateToken(w, t)
    \/ \E w \in Workers : GetRow(w) \/ SendMail(w) \/ MarkUsed(w)
    \/ \E t \in Tokens : ExpireToken(t)

RNext ==
    \/ \E w \in Workers : RSetRow(w) \/ RFail(w)
    \/ \E u \in Users, p \in Passwords, r \in RequestedRoles : RRegister(u, p, r)
    \/ \E w \in Workers, t \in Tokens, p \in Passwords : RResetPassword(w, t, p)
    \/ RCrash
    \/ Harmless /\ UNCHANGED <<latest, raced, spent, respent, disturbed>>

RSpec == RInit /\ [][RNext]_rvars

-----------------------------------------------------------------------------
(* A role given by the endpoint or by a payment, and a password set by a   *)
(* reset, stay until somebody changes that column again: the whole-row     *)
(* writes lose an update only when a role update and a password update of  *)
(* the same user overlap; overlapping updates of one column lose nothing   *)
(* of the other.                                                           *)
UpdatesStick == \A u \in Users \ raced : users[u] = latest[u]

(* A reset token sets a password at most once, unless two requests carried *)
(* it at the same time or one failed after it had been validated.          *)
TokenSpentOnce == respent \subseteq disturbed

(* A token that set a password is already marked, or a request is about to *)
(* mark it, unless its reset was cut off.                                  *)
SpentIsMarked ==
    \A t \in spent \ disturbed :
        \/ resetTokens[t].used
        \/ \E w \in Workers : req[w].at = "markUsed" /\ req[w].token = t

(* The users without a race, and whom each token was made for.             *)
RowsKept    == [u \in Users \ raced |-> users[u]]
TokenOwners == [t \in Tokens |-> IF resetTokens[t] = None THEN None ELSE resetTokens[t].user]

Atomic == INSTANCE AtomicAccounts WITH
              rows <- RowsKept, owner <- TokenOwners, spent <- spent,
              forfeited <- disturbed, Assignable <- CanonicalRoles \ {"guest", "master_admin"}

(* The handlers, whose updates are reads and writes of whole rows and      *)
(* whose resets are five calls, implement a table whose accounts change in *)
(* single steps, one column at a time: no guest becomes more than          *)
(* registered at once, no token sets two passwords or another's, and the   *)
(* rows and tokens that a race or a failure takes out of this are exactly  *)
(* those of raced and disturbed.                                           *)
UpdatesAreAtomic == Atomic!Spec

(* A guest becomes registered before anything else: no single write turns  *)
(* a guest into a subscriber, a moderator or an administrator, unless a    *)
(* stale row brought the guest back after the endpoint had looked.         *)
GuestGate ==
    [][\A u \in Users \ raced' :
           users[u] # None /\ users'[u].role # users[u].role
               /\ users[u].role = "guest"
           => users'[u].role = "registered"]_rvars

-----------------------------------------------------------------------------
(* What the reset flow test says of the program: once a reset has set the  *)
(* password, the old password stops working (it is the last one set).      *)
ResetSticks ==
    \A u \in Users : users[u] # None => users[u].pw = latest[u].pw

(* What the role list of README.md says of payments: the webhook promotes. *)
WebhookPromotes ==
    [][\A w \in Workers, u \in Users :
           Webhook(w, u) => Priority(users[u].role) < Priority("subscriber")]_rvars
=============================================================================
