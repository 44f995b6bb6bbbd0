------------------------- MODULE AccountsStoreProofs -------------------------
(***************************************************************************)
(* Theorems about what the account handlers write into the store, and      *)
(* about the start of the API process around them, for any users, tokens   *)
(* and number of requests in flight.  Both rest on the shape of a request  *)
(* under way, which the first part shows every handler to keep.            *)
(***************************************************************************)
EXTENDS AccountsRaces, MasterBootstrap, FiniteSetTheorems, TLAPS

-----------------------------------------------------------------------------
(* The shape of requests                                                   *)

Updating(r) == r.at \in {"getRow", "setRow"}

(* A request that updates a row has either a role or a password and the    *)
(* token that allows it; no request brings the role of a guest or of the   *)
(* master admin.                                                           *)
WellFormed(r) ==
    /\ Updating(r) =>
          /\ r.user \in Users
          /\ r.pw = None => r.token = None /\ r.role \in CanonicalRoles \ {"guest", "master_admin"}
          /\ r.pw # None => r.token # None
    /\ r.at = "setRow" => r.row # None /\ users[r.user] # None
    /\ r.at = "createToken" => r.user # None
    /\ r.at \in {"sendMail", "markUsed"} => r.token # None
    /\ r.at # "createToken" /\ r.token # None => resetTokens[r.token] # None

AInv == TypeOK /\ \A w \in Workers : WellFormed(req[w])

(* Rows and tokens are never deleted.                                      *)
Grown ==
    /\ \A u \in Users : users[u] # None => users'[u] # None
    /\ \A t \in Tokens : resetTokens[t] # None => resetTokens'[t] # None

TablesTyped ==
    /\ users \in Stores
    /\ resetTokens \in [Tokens -> ResetToken \cup {None}]
    /\ mailed \subseteq Tokens
    /\ sessions \subseteq Session
    /\ indexed \in BOOLEAN

LEMMA IdleWellFormed == Idle \in Request /\ WellFormed(Idle)
BY DEF Idle, Request, Calls, WellFormed, Updating

LEMMA KeepsShape ==
    ASSUME NEW r \in Request, WellFormed(r), Grown
    PROVE  WellFormed(r)'
BY DEF WellFormed, Updating, Grown, Request

LEMMA Moves ==
    ASSUME AInv, NEW w \in Workers, NEW r \in Request, Continue(w, r), TablesTyped', Grown,
           WellFormed(r)'
    PROVE  AInv' /\ req'[w] = r /\ \A v \in Workers \ {w} : req'[v] = req[v]
<1>1. /\ req' \in [Workers -> Request] /\ req'[w] = r
      /\ \A v \in Workers \ {w} : req'[v] = req[v]
      BY DEF AInv, TypeOK, Continue
<1>2. TypeOK'
      BY <1>1 DEF TypeOK, TablesTyped
<1>3. ASSUME NEW v \in Workers PROVE WellFormed(req[v])'
      <2>1. CASE v = w
            BY <1>1, <2>1 DEF WellFormed, Updating
      <2>2. CASE v # w
            <3>1. req[v] \in Request /\ WellFormed(req[v]) /\ req'[v] = req[v]
                  BY <1>1, <2>2 DEF AInv, TypeOK
            <3> QED BY <3>1 DEF WellFormed, Updating, Grown, Request
      <2> QED BY <2>1, <2>2
<1> QED BY <1>1, <1>2, <1>3 DEF AInv

LEMMA Finishes ==
    ASSUME AInv, NEW w \in Workers, Finish(w), TablesTyped', Grown
    PROVE  AInv' /\ req'[w] = Idle /\ \A v \in Workers \ {w} : req'[v] = req[v]
<1>1. WellFormed(Idle)'
      BY DEF Idle, WellFormed, Updating
<1> QED BY <1>1, IdleWellFormed, Moves DEF Finish

LEMMA Stays ==
    ASSUME AInv, UNCHANGED req, TablesTyped', Grown
    PROVE  AInv'
<1>1. TypeOK'
      BY DEF AInv, TypeOK, TablesTyped
<1>2. ASSUME NEW w \in Workers PROVE WellFormed(req[w])'
      <2>1. req[w] \in Request /\ WellFormed(req[w])
            BY DEF AInv, TypeOK
      <2> QED BY <2>1 DEF WellFormed, Updating, Grown, Request
<1> QED BY <1>1, <1>2 DEF AInv

-----------------------------------------------------------------------------
(* The handlers                                                            *)

LEMMA IssueTypes ==
    ASSUME AInv, NEW u \in Users, NEW role \in RoleNames, Issue(u, role)
    PROVE  sessions' \subseteq Session
BY DEF AInv, TypeOK, Issue, Session

LEMMA RegisterShape ==
    ASSUME AInv, NEW u \in Users, NEW p \in Passwords, NEW r \in RequestedRoles,
           Register(u, p, r)
    PROVE  /\ AInv' /\ users[u] = None /\ UNCHANGED <<req, resetTokens, indexed>>
           /\ users' = [users EXCEPT ![u] = [role |-> "registered", pw |-> p]]
<1>1. /\ users[u] = None /\ UNCHANGED <<req, resetTokens, mailed, indexed>>
      /\ users' = [users EXCEPT ![u] = [role |-> "registered", pw |-> p]]
      /\ Issue(u, "registered")
      BY DEF Register, CreateRow
<1>2. "registered" \in RoleNames
      BY DEF RoleNames, CanonicalRoles
<1>3. TablesTyped'
      BY <1>1, <1>2, IssueTypes DEF TablesTyped, AInv, TypeOK, Stores, Row
<1>4. Grown
      BY <1>1, AccountsAssumption DEF Grown, AInv, TypeOK, Stores
<1> QED BY <1>1, <1>3, <1>4, Stays

(* Nothing but sessions, or the time of a token, has changed.              *)
LEMMA SessionShape ==
    ASSUME AInv, UNCHANGED <<users, resetTokens, mailed, req, indexed>>,
           sessions' \subseteq Session
    PROVE  AInv'
BY Stays DEF TablesTyped, Grown, AInv, TypeOK

LEMMA LoginShape ==
    ASSUME AInv, NEW u \in Users, NEW p \in Passwords, Login(u, p)
    PROVE  AInv'
<1>1. users[u].role \in RoleNames
      BY DEF Login, AInv, TypeOK, Stores, Row
<1> QED BY <1>1, IssueTypes, SessionShape DEF Login

LEMMA RefreshTokenShape ==
    ASSUME AInv, NEW s \in sessions, RefreshToken(s)
    PROVE  AInv'
<1>1. s.user \in Users
      BY DEF AInv, TypeOK, Session
<1>2. users[s.user].role \in RoleNames
      BY <1>1 DEF RefreshToken, AInv, TypeOK, Stores, Row
<1> QED BY <1>1, <1>2, IssueTypes, SessionShape DEF RefreshToken

LEMMA ExpireTokenShape ==
    ASSUME AInv, NEW t \in Tokens, ExpireToken(t)
    PROVE  /\ AInv' /\ UNCHANGED <<users, req, indexed>> /\ Grown
           /\ \A s \in Tokens : resetTokens[s] # None =>
                 resetTokens'[s].used = resetTokens[s].used
<1>1. resetTokens[t] # None /\ resetTokens[t] \in ResetToken
      BY DEF ExpireToken, AInv, TypeOK
<1> DEFINE new == [resetTokens[t] EXCEPT !.live = FALSE]
<1>2. new \in ResetToken /\ new.used = resetTokens[t].used /\ new # None
      BY <1>1, AccountsAssumption DEF ResetToken
<1>3. /\ resetTokens' = [resetTokens EXCEPT ![t] = new]
      /\ UNCHANGED <<users, mailed, sessions, req, indexed>>
      BY DEF ExpireToken
<1> HIDE DEF new
<1>4. TablesTyped' /\ Grown
      BY <1>2, <1>3 DEF TablesTyped, Grown, AInv, TypeOK
<1>5. \A s \in Tokens : resetTokens[s] # None => resetTokens'[s].used = resetTokens[s].used
      BY <1>2, <1>3 DEF AInv, TypeOK
<1> QED BY <1>3, <1>4, <1>5, Stays

(* A request has begun, or moved on to its next call, without a write.     *)
LEMMA MovesOn ==
    ASSUME AInv, NEW w \in Workers, NEW r \in Request, Continue(w, r),
           UNCHANGED <<users, resetTokens, mailed, sessions, indexed>>, WellFormed(r)
    PROVE  AInv' /\ req'[w] = r /\ \A v \in Workers \ {w} : req'[v] = req[v]
<1>1. TablesTyped' /\ Grown
      BY DEF TablesTyped, Grown, AInv, TypeOK
<1>2. WellFormed(r)'
      BY <1>1, KeepsShape
<1> QED BY <1>1, <1>2, Moves

LEMMA AssignedRole ==
    ASSUME NEW assigner, NEW role, CanAssignRole(assigner, role)
    PROVE  NormalizeRole(role) \in CanonicalRoles \ {"guest", "master_admin"}
<1>1. NormalizeRole(role) \in DOMAIN AssignersOf
      BY DEF CanAssignRole
<1> QED BY <1>1 DEF AssignersOf, CanonicalRoles

(* RequestRole and Webhook: an update of the role begins.                  *)
LEMMA RoleUpdateShape ==
    ASSUME AInv, NEW w \in Workers, NEW u \in Users,
           NEW role \in CanonicalRoles \ {"guest", "master_admin"},
           StartUpdate(w, u, role, None, None),
           UNCHANGED <<users, resetTokens, mailed, sessions, indexed>>
    PROVE  /\ AInv' /\ req'[w].at = "getRow" /\ req'[w].token = None
           /\ req'[w].user = u /\ req'[w].pw = None /\ req'[w].role = role
           /\ \A v \in Workers \ {w} : req'[v] = req[v]
<1> PICK r : r = [Idle EXCEPT !.at = "getRow", !.user = u, !.role = role,
                              !.pw = None, !.token = None]
    OBVIOUS
<1>1. /\ r \in Request
      /\ r.at = "getRow" /\ r.user = u /\ r.role = role /\ r.pw = None /\ r.token = None
      BY DEF Idle, Request, Calls
<1>2. Continue(w, r)
      BY DEF StartUpdate
<1>3. WellFormed(r)
      BY <1>1 DEF WellFormed, Updating
<1> QED BY <1>1, <1>2, <1>3, MovesOn

LEMMA RequestRoleShape ==
    ASSUME AInv, NEW w \in Workers, NEW s \in sessions, NEW u \in Users,
           NEW role \in RequestedRoles, RequestRole(w, s, u, role)
    PROVE  /\ AInv' /\ req'[w].at = "getRow" /\ req'[w].token = None
           /\ req'[w].user = u /\ req'[w].pw = None /\ req'[w].role = NormalizeRole(role)
           /\ \A v \in Workers \ {w} : req'[v] = req[v]
BY AssignedRole, RoleUpdateShape DEF RequestRole

LEMMA WebhookShape ==
    ASSUME AInv, NEW w \in Workers, NEW u \in Users, Webhook(w, u)
    PROVE  /\ AInv' /\ req'[w].at = "getRow" /\ req'[w].token = None
           /\ req'[w].user = u /\ req'[w].pw = None /\ req'[w].role = "subscriber"
           /\ \A v \in Workers \ {w} : req'[v] = req[v]
<1>1. "subscriber" \in CanonicalRoles \ {"guest", "master_admin"}
      BY DEF CanonicalRoles
<1> QED BY <1>1, RoleUpdateShape DEF Webhook

LEMMA ResetPasswordShape ==
    ASSUME AInv, NEW w \in Workers, NEW t \in Tokens, NEW p \in Passwords,
           ResetPassword(w, t, p)
    PROVE  /\ AInv' /\ req'[w].at = "getRow" /\ req'[w].token = t
           /\ \A v \in Workers \ {w} : req'[v] = req[v]
           /\ req'[w].pw = p /\ UNCHANGED <<users, resetTokens, indexed>>
           /\ resetTokens[t] # None /\ ~resetTokens[t].used
<1> PICK u : u = resetTokens[t].user
    OBVIOUS
<1> PICK r : r = [Idle EXCEPT !.at = "getRow", !.user = u, !.role = None,
                              !.pw = p, !.token = t]
    OBVIOUS
<1>1. resetTokens[t] # None /\ ~resetTokens[t].used /\ u \in Users /\ p # None /\ t # None
      BY AccountsAssumption DEF ResetPassword, ValidToken, AInv, TypeOK, ResetToken
<1>2. /\ r \in Request
      /\ r.at = "getRow" /\ r.user = u /\ r.role = None /\ r.pw = p /\ r.token = t
      BY <1>1 DEF Idle, Request, Calls
<1>3. Continue(w, r)
      BY DEF ResetPassword, StartUpdate
<1>4. WellFormed(r)
      BY <1>1, <1>2 DEF WellFormed, Updating
<1> QED BY <1>1, <1>2, <1>3, <1>4, MovesOn DEF ResetPassword

LEMMA ForgotPasswordShape ==
    ASSUME AInv, NEW w \in Workers, NEW u \in Users, ForgotPassword(w, u)
    PROVE  /\ AInv' /\ req'[w].at = "createToken" /\ req'[w].token = None
           /\ \A v \in Workers \ {w} : req'[v] = req[v]
<1> DEFINE r == [Idle EXCEPT !.at = "createToken", !.user = u]
<1>1. r \in Request /\ r.at = "createToken" /\ r.user = u /\ u # None /\ r.token = None
      BY AccountsAssumption DEF Idle, Request, Calls
<1>2. Continue(w, r)
      BY DEF ForgotPassword
<1> HIDE DEF r
<1>3. WellFormed(r)
      BY <1>1 DEF WellFormed, Updating
<1> QED BY <1>1, <1>2, <1>3, MovesOn DEF ForgotPassword

LEMMA GetRowShape ==
    ASSUME AInv, NEW w \in Workers, GetRow(w)
    PROVE  /\ AInv' /\ UNCHANGED <<users, resetTokens, indexed>>
           /\ \A v \in Workers \ {w} : req'[v] = req[v]
           /\ req[w].at = "getRow" /\ req'[w].at = "setRow"
           /\ req'[w].user = req[w].user /\ req'[w].pw = req[w].pw
           /\ req'[w].role = req[w].role /\ req'[w].token = req[w].token
           /\ req[w].user \in Users /\ users[req[w].user] \in Row
           /\ req'[w].row = users[req[w].user]
<1> PICK q : q = req[w]
    OBVIOUS
<1> DEFINE r == [q EXCEPT !.at = "setRow", !.row = users[q.user]]
<1>1. q \in Request /\ q.at = "getRow" /\ WellFormed(q)
      BY DEF GetRow, AInv, TypeOK
<1>2. q.user \in Users /\ users[q.user] # None /\ users[q.user] \in Row
      BY <1>1 DEF GetRow, WellFormed, Updating, AInv, TypeOK, Stores
<1>3. /\ r \in Request /\ r.at = "setRow" /\ r.user = q.user /\ r.pw = q.pw
      /\ r.role = q.role /\ r.token = q.token /\ r.row = users[q.user]
      BY <1>1, <1>2 DEF Request, Calls
<1>4. Continue(w, r) /\ UNCHANGED <<users, resetTokens, mailed, sessions, indexed>>
      BY DEF GetRow
<1> HIDE DEF r
<1>5. WellFormed(r)
      BY <1>1, <1>2, <1>3 DEF WellFormed, Updating
<1>6. AInv' /\ req'[w] = r /\ \A v \in Workers \ {w} : req'[v] = req[v]
      BY <1>3, <1>4, <1>5, MovesOn
<1> QED BY <1>1, <1>2, <1>3, <1>4, <1>6

(* The only write of an existing row: one column from the request, one as  *)
(* it was read.                                                            *)
LEMMA SetRowShape ==
    ASSUME AInv, NEW w \in Workers, SetRow(w)
    PROVE  /\ AInv' /\ UNCHANGED <<resetTokens, indexed>>
           /\ \A v \in Workers \ {w} : req'[v] = req[v]
           /\ req[w].at = "setRow" /\ req[w] \in Request /\ WellFormed(req[w])
           /\ req[w].user \in Users /\ req[w].row \in Row
           /\ users' = [users EXCEPT ![req[w].user] = UpdatedRow(req[w])]
           /\ UpdatedRow(req[w]) \in Row
           /\ IF req[w].pw = None
                THEN /\ req'[w] = Idle
                     /\ UpdatedRow(req[w]).role = req[w].role
                     /\ UpdatedRow(req[w]).pw = req[w].row.pw
                ELSE /\ req'[w].at = "markUsed" /\ req'[w].token = req[w].token
                     /\ UpdatedRow(req[w]).role = req[w].row.role
                     /\ UpdatedRow(req[w]).pw = req[w].pw
<1> PICK q : q = req[w]
    OBVIOUS
<1> DEFINE row == UpdatedRow(q)
           r   == [q EXCEPT !.at = "markUsed", !.row = None]
<1>1. q \in Request /\ q.at = "setRow" /\ WellFormed(q)
      BY DEF SetRow, AInv, TypeOK
<1>2. /\ q.user \in Users /\ q.row \in Row
      /\ q.pw = None => q.role \in CanonicalRoles /\ q.token = None
      /\ q.pw # None => q.pw \in Passwords /\ q.token \in Tokens
      BY <1>1 DEF WellFormed, Updating, Request
<1>3. /\ row \in Row
      /\ q.pw = None => row.role = q.role /\ row.pw = q.row.pw
      /\ q.pw # None => row.role = q.row.role /\ row.pw = q.pw
      BY <1>2 DEF UpdatedRow, Row, RoleNames
<1>4. /\ r \in Request /\ r.at = "markUsed" /\ r.token = q.token /\ r.pw = q.pw
      BY <1>1 DEF Request, Calls
<1>5. /\ users' = [users EXCEPT ![q.user] = row]
      /\ UNCHANGED <<resetTokens, mailed, sessions, indexed>>
      /\ IF q.pw = None THEN Finish(w) ELSE Continue(w, r)
      BY DEF SetRow
<1> HIDE DEF row, r
<1>6. TablesTyped' /\ Grown
      BY <1>2, <1>3, <1>5, AccountsAssumption DEF TablesTyped, Grown, AInv, TypeOK, Stores
<1>7. CASE q.pw = None
      BY <1>1, <1>2, <1>3, <1>5, <1>6, <1>7, Finishes DEF row
<1>8. CASE q.pw # None
      <2>1. WellFormed(r)'
            BY <1>1, <1>2, <1>4, <1>5, <1>8 DEF WellFormed, Updating
      <2>2. AInv' /\ req'[w] = r /\ \A v \in Workers \ {w} : req'[v] = req[v]
            BY <1>4, <1>5, <1>6, <1>8, <2>1, Moves
      <2> QED BY <1>1, <1>2, <1>3, <1>4, <1>5, <1>8, <2>2 DEF row
<1> QED BY <1>7, <1>8

LEMMA CreateTokenShape ==
    ASSUME AInv, NEW w \in Workers, NEW t \in Tokens, CreateToken(w, t)
    PROVE  /\ AInv' /\ UNCHANGED <<users, indexed>>
           /\ \A v \in Workers \ {w} : req'[v] = req[v]
           /\ req[w].at = "createToken" /\ req'[w].at = "sendMail"
           /\ resetTokens[t] = None
           /\ \A s \in Tokens \ {t} : resetTokens'[s] = resetTokens[s]
<1> PICK q : q = req[w]
    OBVIOUS
<1> DEFINE r   == [q EXCEPT !.at = "sendMail", !.token = t]
           new == [user |-> q.user, used |-> FALSE, live |-> TRUE]
<1>1. q \in Request /\ q.at = "createToken" /\ q.user \in Users
      BY DEF CreateToken, AInv, TypeOK, WellFormed, Request
<1>2. r \in Request /\ r.at = "sendMail" /\ r.token = t /\ t # None
      BY <1>1, AccountsAssumption DEF Request, Calls
<1>3. new \in ResetToken /\ new # None
      <2>1. new \in ResetToken
            BY <1>1 DEF ResetToken
      <2> QED BY <2>1, AccountsAssumption
<1>4. /\ resetTokens[t] = None /\ resetTokens' = [resetTokens EXCEPT ![t] = new]
      /\ Continue(w, r) /\ UNCHANGED <<users, mailed, sessions, indexed>>
      BY DEF CreateToken
<1> HIDE DEF r, new
<1>5. TablesTyped' /\ Grown
      BY <1>3, <1>4 DEF TablesTyped, Grown, AInv, TypeOK
<1>6. WellFormed(r)'
      BY <1>2, <1>3, <1>4 DEF WellFormed, Updating, AInv, TypeOK
<1>7. AInv' /\ req'[w] = r /\ \A v \in Workers \ {w} : req'[v] = req[v]
      BY <1>2, <1>4, <1>5, <1>6, Moves
<1> QED BY <1>1, <1>2, <1>4, <1>7 DEF AInv, TypeOK

LEMMA SendMailShape ==
    ASSUME AInv, NEW w \in Workers, SendMail(w)
    PROVE  /\ AInv' /\ UNCHANGED <<users, resetTokens, indexed>> /\ req'[w] = Idle
           /\ \A v \in Workers \ {w} : req'[v] = req[v]
           /\ req[w].at = "sendMail"
<1>1. req[w].token \in Tokens
      BY DEF SendMail, AInv, TypeOK, WellFormed, Request
<1>2. TablesTyped' /\ Grown
      BY <1>1 DEF SendMail, TablesTyped, Grown, AInv, TypeOK
<1> QED BY <1>2, Finishes DEF SendMail

LEMMA MarkUsedShape ==
    ASSUME AInv, NEW w \in Workers, MarkUsed(w)
    PROVE  /\ AInv' /\ UNCHANGED <<users, indexed>> /\ req'[w] = Idle
           /\ \A v \in Workers \ {w} : req'[v] = req[v]
           /\ req[w].at = "markUsed" /\ req[w].token \in Tokens
           /\ resetTokens'[req[w].token].used
           /\ \A s \in Tokens : resetTokens[s] # None /\ resetTokens[s].used =>
                  resetTokens'[s].used
           /\ Grown
<1> PICK t : t = req[w].token
    OBVIOUS
<1> DEFINE new == [resetTokens[t] EXCEPT !.used = TRUE]
<1>1. req[w].at = "markUsed" /\ t \in Tokens /\ resetTokens[t] \in ResetToken
      BY DEF MarkUsed, AInv, TypeOK, WellFormed, Request
<1>2. new \in ResetToken /\ new.used /\ new # None
      BY <1>1, AccountsAssumption DEF ResetToken
<1>3. /\ resetTokens' = [resetTokens EXCEPT ![t] = new]
      /\ Finish(w) /\ UNCHANGED <<users, mailed, sessions, indexed>>
      BY DEF MarkUsed
<1> HIDE DEF new
<1>4. TablesTyped' /\ Grown
      BY <1>1, <1>2, <1>3 DEF TablesTyped, Grown, AInv, TypeOK
<1>5. resetTokens'[t].used
      BY <1>1, <1>2, <1>3 DEF AInv, TypeOK
<1>6. \A s \in Tokens \ {t} : resetTokens'[s] = resetTokens[s]
      BY <1>1, <1>3 DEF AInv, TypeOK
<1> QED BY <1>1, <1>3, <1>4, <1>5, <1>6, Finishes

LEMMA FailShape ==
    ASSUME AInv, NEW w \in Workers, Fail(w)
    PROVE  /\ AInv' /\ UNCHANGED <<users, resetTokens, indexed>> /\ req'[w] = Idle
           /\ \A v \in Workers \ {w} : req'[v] = req[v]
<1>1. TablesTyped' /\ Grown
      BY DEF Fail, TablesTyped, Grown, AInv, TypeOK
<1> QED BY <1>1, Finishes DEF Fail

LEMMA CrashShape ==
    ASSUME AInv, Crash
    PROVE  /\ AInv' /\ UNCHANGED <<users, resetTokens, indexed>>
           /\ \A w \in Workers : req'[w] = Idle
BY IdleWellFormed DEF Crash, AInv, TypeOK, WellFormed, Updating, Idle

-----------------------------------------------------------------------------
(* Resets: a token sets a password once                                    *)

(* w is between the validation of its token and the answer.                *)
Resets(w, t) == req[w].at \in {"getRow", "setRow", "markUsed"} /\ req[w].token = t

(* An undisturbed token is reset with by one request, which has not set    *)
(* the password before its Set.                                            *)
ResetAlone ==
    \A t \in Tokens \ disturbed : \A w \in Workers : Resets(w, t) =>
        /\ \A v \in Workers \ {w} : ~Resets(v, t)
        /\ req[w].at # "markUsed" => t \notin spent

SpentExist == \A t \in spent : resetTokens[t] # None

TokenInv ==
    /\ respent \subseteq spent /\ spent \subseteq Tokens /\ disturbed \subseteq Tokens
    /\ ResetAlone /\ SpentExist /\ SpentIsMarked /\ TokenSpentOnce

(* Updates: what a request will write back of a row it has read is what    *)
(* the last writer of that column wanted.                                  *)
RowsLatest ==
    \A w \in Workers : req[w].at = "setRow" /\ req[w].user \notin raced =>
        IF req[w].pw = None THEN req[w].row.pw = latest[req[w].user].pw
                            ELSE req[w].row.role = latest[req[w].user].role

LatestExist == \A u \in Users : users[u] # None => latest[u] # None

UpdateInv ==
    /\ latest \in Stores /\ raced \subseteq Users
    /\ RowsLatest /\ LatestExist /\ UpdatesStick

RInv == AInv /\ TokenInv /\ UpdateInv

LEMMA RInitInv == RInit => RInv
<1> SUFFICES ASSUME RInit PROVE RInv
    OBVIOUS
<1>1. AInv
      BY IdleWellFormed, AccountsAssumption DEF RInit, Init, AInv, TypeOK
<1>2. \A w \in Workers : req[w].at = "idle"
      BY DEF RInit, Init, Idle
<1> QED BY <1>1, <1>2
        DEF RInit, RInv, TokenInv, ResetAlone, Resets, SpentExist, SpentIsMarked,
            TokenSpentOnce, UpdateInv, RowsLatest, LatestExist, UpdatesStick, AInv, TypeOK

(* No request begins to reset or sets a password, and one that leaves the  *)
(* marking of its token behind has marked it or is counted as disturbed.   *)
QuietTokens ==
    /\ UNCHANGED <<spent, respent>>
    /\ disturbed \subseteq disturbed' /\ disturbed' \subseteq Tokens
    /\ \A t \in Tokens : resetTokens[t] # None =>
          resetTokens'[t] # None /\ (resetTokens[t].used => resetTokens'[t].used)
    /\ \A w \in Workers : \A t \in Tokens : Resets(w, t)' =>
          Resets(w, t) /\ (req[w].at = "markUsed" => req'[w].at = "markUsed")
    /\ \A w \in Workers : req[w].at = "markUsed" =>
          \/ req'[w] = req[w]
          \/ req[w].token \in disturbed'
          \/ resetTokens'[req[w].token].used

LEMMA QuietTokensKeep ==
    ASSUME TokenInv, QuietTokens
    PROVE  TokenInv'
<1>1. ResetAlone'
      BY DEF QuietTokens, TokenInv, ResetAlone, Resets
<1>2. SpentIsMarked'
      <2> SUFFICES ASSUME NEW t \in spent \ disturbed'
                   PROVE  \/ resetTokens'[t].used
                          \/ \E w \in Workers : req'[w].at = "markUsed" /\ req'[w].token = t
          BY DEF SpentIsMarked, QuietTokens
      <2>1. t \in Tokens /\ t \in spent \ disturbed /\ resetTokens[t] # None
            BY DEF TokenInv, SpentExist, QuietTokens
      <2>2. CASE resetTokens[t].used
            BY <2>1, <2>2 DEF QuietTokens
      <2>3. CASE \E w \in Workers : req[w].at = "markUsed" /\ req[w].token = t
            BY <2>3 DEF QuietTokens
      <2> QED BY <2>1, <2>2, <2>3 DEF TokenInv, SpentIsMarked
<1> QED BY <1>1, <1>2 DEF QuietTokens, TokenInv, SpentExist, TokenSpentOnce

(* A step that sets no row and marks or forgets no token keeps both parts, *)
(* if no other request begins to reset or to set than was doing so.        *)
LEMMA QuietStep ==
    ASSUME RInv, AInv', UNCHANGED <<users, latest, raced, spent, respent>>,
           disturbed \subseteq disturbed', disturbed' \subseteq Tokens,
           \A t \in Tokens : resetTokens[t] # None =>
               resetTokens'[t] # None /\ (resetTokens[t].used => resetTokens'[t].used),
           \A w \in Workers :
               \/ req'[w] = req[w]
               \/ /\ req'[w].at \notin {"setRow", "markUsed"}
                  /\ req'[w].at = "getRow" => req'[w].token = None
                  /\ req[w].at = "markUsed" =>
                        \/ req[w].token \in disturbed'
                        \/ resetTokens'[req[w].token].used
    PROVE  RInv'
<1>1. QuietTokens
      BY AccountsAssumption DEF QuietTokens, Resets
<1>2. TokenInv'
      BY <1>1, QuietTokensKeep DEF RInv
<1>3. UpdateInv'
      BY DEF RInv, UpdateInv, RowsLatest, LatestExist, UpdatesStick
<1> QED BY <1>2, <1>3 DEF RInv

LEMMA RegisterKeeps ==
    ASSUME RInv, NEW u \in Users, NEW p \in Passwords, NEW r \in RequestedRoles,
           RRegister(u, p, r)
    PROVE  RInv'
<1>1. /\ AInv' /\ users[u] = None /\ UNCHANGED <<req, resetTokens>>
      /\ users' = [users EXCEPT ![u] = [role |-> "registered", pw |-> p]]
      /\ latest' = [latest EXCEPT ![u] = [role |-> "registered", pw |-> p]]
      /\ UNCHANGED <<raced, spent, respent, disturbed>>
      BY RegisterShape DEF RRegister, RInv
<1>2. TokenInv'
      BY <1>1 DEF RInv, TokenInv, ResetAlone, Resets, SpentExist, SpentIsMarked, TokenSpentOnce
<1>3. [role |-> "registered", pw |-> p] \in Row /\ [role |-> "registered", pw |-> p] # None
      BY AccountsAssumption DEF Row, RoleNames, CanonicalRoles
<1>4. latest \in Stores /\ users \in Stores
      BY DEF RInv, UpdateInv, AInv, TypeOK
<1>5. latest' \in Stores
      BY <1>1, <1>3, <1>4 DEF Stores
<1>6. \A v \in Users \ {u} : latest'[v] = latest[v] /\ users'[v] = users[v]
      BY <1>1, <1>4 DEF Stores
<1>7. latest'[u] = users'[u] /\ latest'[u] # None
      BY <1>1, <1>3, <1>4 DEF Stores
<1>8. \A w \in Workers : req[w].at = "setRow" => req[w].user \in Users \ {u}
      BY <1>1 DEF RInv, AInv, WellFormed, Updating
<1>9. RowsLatest'
      BY <1>1, <1>6, <1>8 DEF RInv, UpdateInv, RowsLatest
<1>10. LatestExist' /\ UpdatesStick'
      BY <1>1, <1>6, <1>7 DEF RInv, UpdateInv, LatestExist, UpdatesStick
<1> QED BY <1>1, <1>2, <1>5, <1>9, <1>10 DEF RInv, UpdateInv

LEMMA GetRowKeeps ==
    ASSUME RInv, NEW w \in Workers, GetRow(w),
           UNCHANGED <<latest, raced, spent, respent, disturbed>>
    PROVE  RInv'
<1>1. /\ AInv' /\ UNCHANGED <<users, resetTokens>>
      /\ \A v \in Workers \ {w} : req'[v] = req[v]
      /\ req[w].at = "getRow" /\ req'[w].at = "setRow"
      /\ req'[w].user = req[w].user /\ req'[w].pw = req[w].pw
      /\ req'[w].token = req[w].token /\ req'[w].row = users[req[w].user]
      /\ req[w].user \in Users
      BY GetRowShape DEF RInv
<1>2. QuietTokens
      BY <1>1 DEF QuietTokens, Resets, RInv, TokenInv
<1>3. TokenInv'
      BY <1>2, QuietTokensKeep DEF RInv
<1>4. RowsLatest'
      BY <1>1 DEF RInv, UpdateInv, RowsLatest, UpdatesStick
<1> QED BY <1>1, <1>3, <1>4 DEF RInv, UpdateInv, LatestExist, UpdatesStick

(* A valid token is unused, so it set no password in peace, and the two    *)
(* requests that carry it at once are counted.                             *)
LEMMA ResetPasswordKeeps ==
    ASSUME RInv, NEW w \in Workers, NEW t \in Tokens, NEW p \in Passwords,
           RResetPassword(w, t, p)
    PROVE  RInv'
<1>1. /\ AInv' /\ req'[w].at = "getRow" /\ req'[w].token = t
      /\ \A v \in Workers \ {w} : req'[v] = req[v]
      /\ UNCHANGED <<users, resetTokens>> /\ ~resetTokens[t].used
      /\ req[w].at = "idle" /\ UNCHANGED <<latest, raced, spent, respent>>
      BY ResetPasswordShape DEF RResetPassword, ResetPassword, Free, RInv
<1>2. disturbed' = disturbed \cup ({t} \cap Resetting(Workers))
      BY DEF RResetPassword
<1>3. t \notin disturbed' => \A v \in Workers : ~Resets(v, t)
      BY <1>2, AccountsAssumption DEF Resetting, Resets
<1>4. t \notin disturbed' => t \notin spent
      BY <1>1, <1>2, <1>3 DEF RInv, TokenInv, SpentIsMarked, Resets
<1>5. ResetAlone'
      <2> SUFFICES ASSUME NEW s \in Tokens \ disturbed', NEW v \in Workers, Resets(v, s)'
                   PROVE  /\ \A x \in Workers \ {v} : ~Resets(x, s)'
                          /\ req'[v].at # "markUsed" => s \notin spent
          BY <1>1 DEF ResetAlone
      <2>1. s \notin disturbed
            BY <1>2
      <2>2. CASE s = t
            <3>1. \A x \in Workers \ {w} : ~Resets(x, s)'
                  BY <1>1, <1>3, <2>2 DEF Resets
            <3> QED BY <1>4, <2>2, <3>1
      <2>3. CASE s # t
            <3>1. ~Resets(w, s)'
                  BY <1>1, <2>3 DEF Resets
            <3>2. \A x \in Workers : Resets(x, s)' => Resets(x, s) /\ req'[x] = req[x]
                  BY <1>1, <3>1 DEF Resets
            <3> QED BY <2>1, <3>2 DEF RInv, TokenInv, ResetAlone
      <2> QED BY <2>2, <2>3
<1>6. TokenInv'
      BY <1>1, <1>2, <1>5 DEF RInv, TokenInv, SpentExist, SpentIsMarked, TokenSpentOnce
<1>7. UpdateInv'
      BY <1>1 DEF RInv, UpdateInv, RowsLatest, LatestExist, UpdatesStick
<1> QED BY <1>1, <1>6, <1>7 DEF RInv

LEMMA SetRowTokens ==
    ASSUME RInv, NEW w \in Workers, RSetRow(w)
    PROVE  TokenInv'
<1> PICK q : q = req[w]
    OBVIOUS
<1>1. /\ AInv' /\ UNCHANGED resetTokens /\ \A v \in Workers \ {w} : req'[v] = req[v]
      /\ q.at = "setRow" /\ q \in Request /\ WellFormed(q)
      /\ q.pw = None => req'[w] = Idle
      /\ q.pw # None => req'[w].at = "markUsed" /\ req'[w].token = q.token
      BY SetRowShape DEF RSetRow, RInv
<1>2. /\ spent' = spent \cup ({q.token} \ {None})
      /\ respent' = respent \cup (({q.token} \ {None}) \cap spent)
      /\ disturbed' = disturbed
      BY DEF RSetRow
<1>3. CASE q.pw = None
      <2>1. q.token = None
            BY <1>1, <1>3 DEF WellFormed, Updating
      <2>2. req'[w].at = "idle"
            BY <1>1, <1>3 DEF Idle
      <2>3. spent' = spent /\ respent' = respent
            BY <1>2, <2>1
      <2>4. QuietTokens
            BY <1>1, <1>2, <2>2, <2>3 DEF QuietTokens, Resets, RInv, TokenInv
      <2> QED BY <2>4, QuietTokensKeep DEF RInv
<1>4. CASE q.pw # None
      <2> PICK t : t = q.token
          OBVIOUS
      <2>1. t # None /\ t \in Tokens /\ resetTokens[t] # None
            BY <1>1, <1>4 DEF WellFormed, Updating, Request
      <2>2. /\ spent' = spent \cup {t} /\ respent' = respent \cup ({t} \cap spent)
            /\ req'[w].at = "markUsed" /\ req'[w].token = t
            BY <1>1, <1>2, <1>4, <2>1
      <2>3. Resets(w, t)
            BY <1>1 DEF Resets
      <2>4. t \notin disturbed => t \notin spent
            BY <1>1, <2>1, <2>3 DEF RInv, TokenInv, ResetAlone
      <2>5. TokenSpentOnce'
            BY <1>2, <2>2, <2>4 DEF TokenSpentOnce, RInv, TokenInv
      <2>6. SpentExist'
            BY <1>1, <2>1, <2>2 DEF SpentExist, RInv, TokenInv
      <2>7. SpentIsMarked'
            <3> SUFFICES ASSUME NEW s \in spent' \ disturbed
                         PROVE  \/ resetTokens[s].used
                                \/ \E v \in Workers : req'[v].at = "markUsed" /\ req'[v].token = s
                BY <1>1, <1>2 DEF SpentIsMarked
            <3>1. CASE s = t
                  BY <2>2, <3>1
            <3>2. CASE s # t
                  <4>1. s \in spent \ disturbed
                        BY <2>2, <3>2
                  <4> QED BY <1>1, <4>1 DEF SpentIsMarked, RInv, TokenInv
            <3> QED BY <3>1, <3>2
      <2>8. \A v \in Workers : \A s \in Tokens : Resets(v, s)' => Resets(v, s)
            BY <1>1, <2>2 DEF Resets
      <2>9. ResetAlone'
            <3> SUFFICES ASSUME NEW s \in Tokens \ disturbed, NEW v \in Workers, Resets(v, s)'
                         PROVE  /\ \A x \in Workers \ {v} : ~Resets(x, s)'
                                /\ req'[v].at # "markUsed" => s \notin spent'
                BY <1>2 DEF ResetAlone
            <3>1. Resets(v, s) /\ \A x \in Workers \ {v} : ~Resets(x, s)
                  BY <2>8 DEF RInv, TokenInv, ResetAlone
            <3>2. CASE v = w
                  BY <2>2, <2>8, <3>1, <3>2
            <3>3. CASE v # w
                  <4>1. s # t
                        BY <2>3, <3>1, <3>3
                  <4>2. req[v].at # "markUsed" => s \notin spent
                        BY <3>1 DEF RInv, TokenInv, ResetAlone
                  <4> QED BY <1>1, <2>2, <2>8, <3>1, <3>3, <4>1, <4>2
            <3> QED BY <3>2, <3>3
      <2> QED BY <1>2, <2>1, <2>2, <2>5, <2>6, <2>7, <2>9 DEF TokenInv, RInv
<1> QED BY <1>3, <1>4

(* A write of one column puts back the other as it was read: the last one  *)
(* wanted, unless a request that updates the other column is in between.   *)
LEMMA SetRowUpdates ==
    ASSUME RInv, NEW w \in Workers, RSetRow(w)
    PROVE  UpdateInv'
<1> PICK q : q = req[w]
    OBVIOUS
<1> PICK u : u = q.user
    OBVIOUS
<1> PICK old : old = latest[u]
    OBVIOUS
<1> PICK written : written = UpdatedRow(q)
    OBVIOUS
<1> PICK wanted : wanted = UpdatedRow([q EXCEPT !.row = old])
    OBVIOUS
<1>1. /\ AInv' /\ \A v \in Workers \ {w} : req'[v] = req[v]
      /\ q.at = "setRow" /\ q \in Request /\ WellFormed(q) /\ req'[w].at # "setRow"
      /\ u \in Users /\ q.row \in Row
      /\ users' = [users EXCEPT ![u] = written] /\ written \in Row
      /\ q.pw = None => written.role = q.role /\ written.pw = q.row.pw
      /\ q.pw # None => written.role = q.row.role /\ written.pw = q.pw
      BY SetRowShape DEF RSetRow, RInv, Idle
<1>2. latest' = [latest EXCEPT ![u] = wanted]
      BY DEF RSetRow
<1>3. old \in Row
      BY <1>1 DEF WellFormed, RInv, UpdateInv, LatestExist, Stores
<1>4. /\ q.pw = None => q.role \in CanonicalRoles
      /\ q.pw # None => q.pw \in Passwords
      BY <1>1 DEF WellFormed, Updating, Request
<1>5. /\ wanted \in Row
      /\ q.pw = None => wanted.role = q.role /\ wanted.pw = old.pw
      /\ q.pw # None => wanted.role = old.role /\ wanted.pw = q.pw
      <2>1. PICK r : r = [q EXCEPT !.row = old]
            OBVIOUS
      <2>2. r.row = old /\ r.pw = q.pw /\ r.role = q.role
            BY <1>1, <2>1 DEF Request
      <2>3. wanted = UpdatedRow(r)
            BY <2>1
      <2> QED BY <1>3, <1>4, <2>2, <2>3 DEF UpdatedRow, Row, RoleNames
<1>6. /\ latest \in Stores /\ users \in Stores
      BY DEF RInv, UpdateInv, AInv, TypeOK
<1>7. /\ latest' \in Stores /\ latest'[u] = wanted /\ users'[u] = written
      /\ \A v \in Users \ {u} : latest'[v] = latest[v] /\ users'[v] = users[v]
      BY <1>1, <1>2, <1>5, <1>6 DEF Stores
<1>8. /\ raced \subseteq raced' /\ raced' \subseteq Users
      /\ u \notin raced' => u \notin raced /\ Crossing(w) = {}
      BY <1>1 DEF RSetRow, RInv, UpdateInv
<1>9. UpdatesStick'
      <2>1. u \notin raced' => written = wanted
            <3>1. SUFFICES ASSUME u \notin raced' PROVE written.role = wanted.role /\ written.pw = wanted.pw
                  BY <1>1, <1>5 DEF Row
            <3>2. IF q.pw = None THEN q.row.pw = old.pw ELSE q.row.role = old.role
                  BY <1>1, <1>8, <3>1 DEF RInv, UpdateInv, RowsLatest
            <3> QED BY <1>1, <1>5, <3>2
      <2> QED BY <1>7, <1>8, <2>1 DEF UpdatesStick, RInv, UpdateInv
<1>10. LatestExist'
      BY <1>5, <1>7, AccountsAssumption DEF LatestExist, RInv, UpdateInv
<1>11. RowsLatest'
      <2> SUFFICES ASSUME NEW v \in Workers, req'[v].at = "setRow", req'[v].user \notin raced'
                   PROVE  IF req'[v].pw = None
                            THEN req'[v].row.pw = latest'[req'[v].user].pw
                            ELSE req'[v].row.role = latest'[req'[v].user].role
          BY DEF RowsLatest
      <2>1. v # w /\ req'[v] = req[v]
            BY <1>1
      <2>2. req[v].user \in Users
            BY <2>1 DEF RInv, AInv, WellFormed, Updating
      <2>3. IF req[v].pw = None THEN req[v].row.pw = latest[req[v].user].pw
                                ELSE req[v].row.role = latest[req[v].user].role
            BY <1>8, <2>1 DEF RInv, UpdateInv, RowsLatest
      <2>4. CASE req[v].user # u
            BY <1>7, <2>1, <2>2, <2>3, <2>4
      <2>5. CASE req[v].user = u
            <3>1. (req[v].pw = None) = (q.pw = None)
                  BY <1>8, <2>1, <2>5 DEF Crossing
            <3> QED BY <1>5, <1>7, <2>1, <2>3, <2>5, <3>1
      <2> QED BY <2>4, <2>5
<1> QED BY <1>7, <1>8, <1>9, <1>10, <1>11 DEF UpdateInv

LEMMA SetRowKeeps ==
    ASSUME RInv, NEW w \in Workers, RSetRow(w)
    PROVE  RInv'
BY SetRowTokens, SetRowUpdates, SetRowShape DEF RInv, RSetRow

LEMMA FailKeeps ==
    ASSUME RInv, NEW w \in Workers, RFail(w)
    PROVE  RInv'
<1>1. /\ AInv' /\ UNCHANGED <<users, resetTokens>> /\ req'[w].at = "idle"
      /\ \A v \in Workers \ {w} : req'[v] = req[v]
      BY FailShape DEF RFail, RInv, Idle
<1>2. /\ disturbed' = disturbed \cup Resetting({w})
      /\ UNCHANGED <<latest, raced, spent, respent>>
      BY DEF RFail
<1>3. Resetting({w}) \subseteq Tokens
      BY DEF Resetting, RInv, AInv, TypeOK, Request
<1>4. req[w].at = "markUsed" => req[w].token \in Resetting({w})
      BY DEF Resetting, RInv, AInv, WellFormed
<1>5. disturbed' \subseteq Tokens
      BY <1>2, <1>3 DEF RInv, TokenInv
<1> QED BY <1>1, <1>2, <1>4, <1>5, QuietStep

LEMMA CrashKeeps ==
    ASSUME RInv, RCrash
    PROVE  RInv'
<1>1. /\ AInv' /\ UNCHANGED <<users, resetTokens>>
      /\ \A v \in Workers : req'[v].at = "idle"
      BY CrashShape DEF RCrash, RInv, Idle
<1>2. /\ disturbed' = disturbed \cup Resetting(Workers)
      /\ UNCHANGED <<latest, raced, spent, respent>>
      BY DEF RCrash
<1>3. Resetting(Workers) \subseteq Tokens
      BY DEF Resetting, RInv, AInv, TypeOK, Request
<1>4. \A w \in Workers : req[w].at = "markUsed" => req[w].token \in Resetting(Workers)
      BY DEF Resetting, RInv, AInv, WellFormed
<1>5. disturbed' \subseteq Tokens
      BY <1>2, <1>3 DEF RInv, TokenInv
<1> QED BY <1>1, <1>2, <1>4, <1>5, QuietStep

LEMMA HarmlessKeeps ==
    ASSUME RInv, Harmless, UNCHANGED <<latest, raced, spent, respent, disturbed>>
    PROVE  RInv'
<1>0. AInv /\ disturbed' \subseteq Tokens
      BY DEF RInv, TokenInv
<1>1. ASSUME NEW u \in Users, NEW p \in Passwords, Login(u, p) PROVE RInv'
      BY <1>0, <1>1, LoginShape, QuietStep DEF Login
<1>2. ASSUME NEW s \in sessions, RefreshToken(s) PROVE RInv'
      BY <1>0, <1>2, RefreshTokenShape, QuietStep DEF RefreshToken
<1>3. ASSUME NEW s \in sessions, ExpireSession(s) PROVE RInv'
      <2>1. AInv'
            BY <1>0, <1>3, SessionShape DEF ExpireSession, AInv, TypeOK
      <2> QED BY <1>0, <1>3, <2>1, QuietStep DEF ExpireSession
<1>4. ASSUME NEW w \in Workers, NEW s \in sessions, NEW u \in Users,
             NEW r \in RequestedRoles, RequestRole(w, s, u, r)
      PROVE  RInv'
      <2>1. /\ AInv' /\ req'[w].at = "getRow" /\ req'[w].token = None
            /\ \A v \in Workers \ {w} : req'[v] = req[v]
            BY <1>0, <1>4, RequestRoleShape
      <2>2. req[w].at = "idle" /\ UNCHANGED <<users, resetTokens>>
            BY <1>4 DEF RequestRole, Free
      <2> QED BY <1>0, <2>1, <2>2, QuietStep
<1>5. ASSUME NEW w \in Workers, NEW u \in Users, Webhook(w, u) PROVE RInv'
      <2>1. /\ AInv' /\ req'[w].at = "getRow" /\ req'[w].token = None
            /\ \A v \in Workers \ {w} : req'[v] = req[v]
            BY <1>0, <1>5, WebhookShape
      <2>2. req[w].at = "idle" /\ UNCHANGED <<users, resetTokens>>
            BY <1>5 DEF Webhook, Free
      <2> QED BY <1>0, <2>1, <2>2, QuietStep
<1>6. ASSUME NEW w \in Workers, NEW u \in Users, ForgotPassword(w, u) PROVE RInv'
      <2>1. /\ AInv' /\ req'[w].at = "createToken"
            /\ \A v \in Workers \ {w} : req'[v] = req[v]
            BY <1>0, <1>6, ForgotPasswordShape
      <2>2. req[w].at = "idle" /\ UNCHANGED <<users, resetTokens>>
            BY <1>6 DEF ForgotPassword, Free
      <2> QED BY <1>0, <2>1, <2>2, QuietStep
<1>7. ASSUME NEW w \in Workers, NEW t \in Tokens, CreateToken(w, t) PROVE RInv'
      <2>1. /\ AInv' /\ UNCHANGED users /\ req[w].at = "createToken" /\ req'[w].at = "sendMail"
            /\ \A v \in Workers \ {w} : req'[v] = req[v]
            /\ resetTokens[t] = None
            /\ \A s \in Tokens \ {t} : resetTokens'[s] = resetTokens[s]
            BY <1>0, <1>7, CreateTokenShape
      <2> QED BY <1>0, <2>1, QuietStep
<1>8. ASSUME NEW w \in Workers, GetRow(w) PROVE RInv'
      BY <1>8, GetRowKeeps
<1>9. ASSUME NEW w \in Workers, SendMail(w) PROVE RInv'
      <2>1. /\ AInv' /\ UNCHANGED <<users, resetTokens>> /\ req'[w].at = "idle"
            /\ req[w].at = "sendMail" /\ \A v \in Workers \ {w} : req'[v] = req[v]
            BY <1>0, <1>9, SendMailShape DEF Idle
      <2> QED BY <1>0, <2>1, QuietStep
<1>10. ASSUME NEW w \in Workers, MarkUsed(w) PROVE RInv'
      <2>1. /\ AInv' /\ UNCHANGED users /\ req'[w].at = "idle"
            /\ \A v \in Workers \ {w} : req'[v] = req[v]
            /\ resetTokens'[req[w].token].used
            /\ \A s \in Tokens : resetTokens[s] # None /\ resetTokens[s].used =>
                   resetTokens'[s].used
            /\ \A s \in Tokens : resetTokens[s] # None => resetTokens'[s] # None
            BY <1>0, <1>10, MarkUsedShape DEF Idle, Grown
      <2> QED BY <1>0, <2>1, QuietStep
<1>11. ASSUME NEW t \in Tokens, ExpireToken(t) PROVE RInv'
      BY <1>0, <1>11, ExpireTokenShape, QuietStep DEF Grown
<1> QED BY <1>1, <1>2, <1>3, <1>4, <1>5, <1>6, <1>7, <1>8, <1>9, <1>10, <1>11 DEF Harmless

LEMMA RInvKept == RInv /\ [RNext]_rvars => RInv'
<1> SUFFICES ASSUME RInv, [RNext]_rvars PROVE RInv'
    OBVIOUS
<1>1. CASE UNCHANGED rvars
      BY <1>1 DEF rvars, vars, RInv, AInv, TypeOK, WellFormed, Updating, TokenInv, ResetAlone,
                  Resets, SpentExist, SpentIsMarked, TokenSpentOnce, UpdateInv, RowsLatest,
                  LatestExist, UpdatesStick
<1>2. CASE RNext
      BY <1>2, SetRowKeeps, FailKeeps, RegisterKeeps, ResetPasswordKeeps, CrashKeeps,
         HarmlessKeeps DEF RNext
<1> QED BY <1>1, <1>2

LEMMA RInvHolds == RSpec => []RInv
BY RInitInv, RInvKept, PTL DEF RSpec

(* UpdateRole and UpdatePassword write whole rows back: whatever requests  *)
(* are in flight, an update is lost only where one of the other column of  *)
(* the same row was under way between its Get and its Set.                 *)
THEOREM UpdatesAreKept == RSpec => []UpdatesStick
<1>1. RInv => UpdatesStick
      BY DEF RInv, UpdateInv
<1> QED BY <1>1, RInvHolds, PTL

(* ResetPassword marks its token after the password is set; still a token  *)
(* sets one password, but for two requests at once and interrupted ones.   *)
THEOREM TokensAreSpentOnce == RSpec => []TokenSpentOnce
<1>1. RInv => TokenSpentOnce
      BY DEF RInv, TokenInv
<1> QED BY <1>1, RInvHolds, PTL

-----------------------------------------------------------------------------
(* Guests: an update to more than registered has a target that was         *)
(* registered when the endpoint looked, and nobody hands out guest.        *)

GateInv ==
    \A w \in Workers :
        /\ Updating(req[w]) /\ req[w].user \notin raced
        /\ req[w].pw = None /\ req[w].role # "registered"
        => users[req[w].user] # None /\ users[req[w].user].role # "guest"

(* The role column through a Set: what the request brought, or unchanged   *)
(* unless a role update raced with it.                                     *)
LEMMA RolesThroughSetRow ==
    ASSUME RInv, NEW w \in Workers, RSetRow(w), NEW u \in Users \ raced'
    PROVE  \/ users'[u] = users[u]
           \/ users'[u] # None /\ users'[u].role = users[u].role
           \/ /\ users'[u] # None /\ users'[u].role = req[w].role
              /\ req[w].at = "setRow" /\ req[w].pw = None /\ req[w].user = u
              /\ req[w].role # "guest"
<1> PICK q : q = req[w]
    OBVIOUS
<1> PICK written : written = UpdatedRow(q)
    OBVIOUS
<1>1. /\ q.at = "setRow" /\ q \in Request /\ WellFormed(q)
      /\ users' = [users EXCEPT ![q.user] = written] /\ written \in Row
      /\ q.pw = None => written.role = q.role
      /\ q.pw # None => written.role = q.row.role
      BY SetRowShape DEF RSetRow, RInv
<1>2. users \in Stores /\ written # None
      BY <1>1, AccountsAssumption DEF RInv, AInv, TypeOK
<1>3. u \notin raced
      BY DEF RSetRow
<1>4. CASE u # q.user
      BY <1>1, <1>2, <1>4 DEF Stores
<1>5. CASE u = q.user /\ q.pw = None
      BY <1>1, <1>2, <1>5 DEF Stores, WellFormed, Updating
<1>6. CASE u = q.user /\ q.pw # None
      <2>1. q.row.role = latest[u].role /\ users[u] = latest[u]
            BY <1>1, <1>3, <1>6 DEF RInv, UpdateInv, RowsLatest, UpdatesStick
      <2> QED BY <1>1, <1>2, <1>6, <2>1 DEF Stores
<1> QED BY <1>4, <1>5, <1>6

LEMMA RegisteredIsNoGuest ==
    ASSUME NEW role, IsRegisteredUser(role)
    PROVE  role # "guest"
BY DEF IsRegisteredUser, NormalizeRole, roleAliases

(* No request begins to bring a role, and the rows stay.                   *)
LEMMA GateQuiet ==
    ASSUME GateInv, raced \subseteq raced',
           \A u \in Users : users[u] # None /\ users[u].role # "guest" /\ u \notin raced' =>
               users'[u] # None /\ users'[u].role # "guest",
           \A w \in Workers : Updating(req[w])' /\ req'[w].pw = None =>
               /\ Updating(req[w]) /\ req[w].pw = None /\ req[w].user \in Users
               /\ req'[w].user = req[w].user /\ req'[w].role = req[w].role
    PROVE  GateInv'
BY DEF GateInv

LEMMA RolesAreGated == \A r : NormalizeRole(r) \in DOMAIN AssignersOf
                                  => NormalizeRole(r) \in NeedsRegisteredTarget \cup {"registered"}
BY DEF AssignersOf, NeedsRegisteredTarget

LEMMA GateHarmless ==
    ASSUME RInv, GateInv, Harmless, UNCHANGED <<latest, raced, spent, respent, disturbed>>
    PROVE  GateInv' /\ UNCHANGED users
<1>0. /\ AInv
      /\ \A w \in Workers : Updating(req[w]) => req[w].user \in Users
      BY DEF RInv, AInv, WellFormed
<1>1. CASE \E u \in Users, p \in Passwords : Login(u, p)
      BY <1>0, <1>1, GateQuiet DEF Login, Updating
<1>2. CASE \E s \in sessions : RefreshToken(s) \/ ExpireSession(s)
      BY <1>0, <1>2, GateQuiet DEF RefreshToken, ExpireSession, Updating
<1>3. ASSUME NEW w \in Workers, NEW s \in sessions, NEW u \in Users,
             NEW r \in RequestedRoles, RequestRole(w, s, u, r)
      PROVE  GateInv' /\ UNCHANGED users
      <2>1. /\ req'[w].user = u /\ req'[w].role = NormalizeRole(r)
            /\ \A v \in Workers \ {w} : req'[v] = req[v]
            BY <1>0, <1>3, RequestRoleShape
      <2>2. UNCHANGED users
            BY <1>3 DEF RequestRole
      <2>3. NormalizeRole(r) # "registered" => IsRegisteredUser(users[u].role)
            BY <1>3, RolesAreGated DEF RequestRole, CanAssignRole
      <2>4. users[u] # None
            BY <1>3 DEF RequestRole
      <2> QED BY <2>1, <2>2, <2>3, <2>4, RegisteredIsNoGuest DEF GateInv, Updating
<1>4. ASSUME NEW w \in Workers, NEW u \in Users, Webhook(w, u)
      PROVE  GateInv' /\ UNCHANGED users
      <2>1. /\ req'[w].user = u /\ \A v \in Workers \ {w} : req'[v] = req[v]
            BY <1>0, <1>4, WebhookShape
      <2>2. UNCHANGED users /\ users[u] # None /\ users[u].role # "guest"
            BY <1>4, RegisteredIsNoGuest DEF Webhook
      <2> QED BY <2>1, <2>2 DEF GateInv, Updating
<1>5. ASSUME NEW w \in Workers, NEW u \in Users, ForgotPassword(w, u)
      PROVE  GateInv' /\ UNCHANGED users
      <2>1. UNCHANGED users
            BY <1>5 DEF ForgotPassword
      <2> QED BY <1>0, <1>5, <2>1, ForgotPasswordShape, GateQuiet DEF Updating
<1>6. ASSUME NEW w \in Workers, NEW t \in Tokens, CreateToken(w, t)
      PROVE  GateInv' /\ UNCHANGED users
      BY <1>0, <1>6, CreateTokenShape, GateQuiet DEF Updating
<1>7. ASSUME NEW w \in Workers, GetRow(w)
      PROVE  GateInv' /\ UNCHANGED users
      BY <1>0, <1>7, GetRowShape, GateQuiet DEF Updating
<1>8. ASSUME NEW w \in Workers, SendMail(w)
      PROVE  GateInv' /\ UNCHANGED users
      BY <1>0, <1>8, SendMailShape, GateQuiet DEF Updating, Idle
<1>9. ASSUME NEW w \in Workers, MarkUsed(w)
      PROVE  GateInv' /\ UNCHANGED users
      BY <1>0, <1>9, MarkUsedShape, GateQuiet DEF Updating, Idle
<1>10. CASE \E t \in Tokens : ExpireToken(t)
      BY <1>0, <1>10, GateQuiet DEF ExpireToken, Updating
<1> QED BY <1>1, <1>2, <1>3, <1>4, <1>5, <1>6, <1>7, <1>8, <1>9, <1>10 DEF Harmless

GateStep ==
    \A u \in Users \ raced' :
        users[u] # None /\ users'[u].role # users[u].role /\ users[u].role = "guest"
        => users'[u].role = "registered"

LEMMA GateKept ==
    ASSUME RInv, GateInv, [RNext]_rvars
    PROVE  GateInv' /\ GateStep
<1>0. \A w \in Workers : Updating(req[w]) => req[w].user \in Users
      BY DEF RInv, AInv, WellFormed
<1>1. CASE UNCHANGED rvars
      BY <1>1 DEF rvars, vars, GateInv, GateStep, Updating
<1>2. CASE Harmless /\ UNCHANGED <<latest, raced, spent, respent, disturbed>>
      BY <1>2, GateHarmless DEF GateStep
<1>3. ASSUME NEW w \in Workers, RSetRow(w) PROVE GateInv' /\ GateStep
      <2>1. /\ \A v \in Workers \ {w} : req'[v] = req[v]
            /\ req'[w] = Idle \/ req'[w].at = "markUsed"
            BY <1>3, SetRowShape DEF RSetRow, RInv
      <2>2. raced \subseteq raced'
            BY <1>3 DEF RSetRow
      <2>3. \A u \in Users : users[u] # None /\ users[u].role # "guest" /\ u \notin raced' =>
                users'[u] # None /\ users'[u].role # "guest"
            BY <1>3, RolesThroughSetRow
      <2>4. GateInv'
            BY <1>0, <2>1, <2>2, <2>3, GateQuiet DEF Updating, Idle
      <2>5. GateStep
            <3> SUFFICES ASSUME NEW u \in Users \ raced', users[u] # None,
                                users'[u].role # users[u].role, users[u].role = "guest"
                         PROVE  users'[u].role = "registered"
                BY DEF GateStep
            <3>1. /\ users'[u].role = req[w].role /\ req[w].at = "setRow"
                  /\ req[w].pw = None /\ req[w].user = u
                  BY <1>3, RolesThroughSetRow
            <3> QED BY <2>2, <3>1 DEF GateInv, Updating
      <2> QED BY <2>4, <2>5
<1>4. ASSUME NEW w \in Workers, RFail(w) PROVE GateInv' /\ GateStep
      <2>1. /\ UNCHANGED <<users, raced>> /\ req'[w] = Idle
            /\ \A v \in Workers \ {w} : req'[v] = req[v]
            BY <1>4, FailShape DEF RFail, RInv
      <2> QED BY <1>0, <2>1, GateQuiet DEF Updating, Idle, GateStep
<1>5. ASSUME NEW u \in Users, NEW p \in Passwords, NEW r \in RequestedRoles,
             RRegister(u, p, r)
      PROVE  GateInv' /\ GateStep
      <2>1. /\ users[u] = None /\ UNCHANGED <<req, raced>>
            /\ users' = [users EXCEPT ![u] = [role |-> "registered", pw |-> p]]
            BY <1>5, RegisterShape DEF RRegister, RInv
      <2>2. \A x \in Users \ {u} : users'[x] = users[x]
            BY <2>1 DEF RInv, AInv, TypeOK, Stores
      <2> QED BY <1>0, <2>1, <2>2, GateQuiet DEF Updating, GateStep
<1>6. ASSUME NEW w \in Workers, NEW t \in Tokens, NEW p \in Passwords,
             RResetPassword(w, t, p)
      PROVE  GateInv' /\ GateStep
      <2>1. /\ UNCHANGED <<users, raced>> /\ req'[w].pw = p /\ p # None
            /\ \A v \in Workers \ {w} : req'[v] = req[v]
            BY <1>6, ResetPasswordShape, AccountsAssumption DEF RResetPassword, RInv
      <2> QED BY <1>0, <2>1, GateQuiet DEF Updating, GateStep
<1>7. CASE RCrash
      <2>1. UNCHANGED <<users, raced>> /\ \A w \in Workers : req'[w] = Idle
            BY <1>7, CrashShape DEF RCrash, RInv
      <2> QED BY <1>0, <2>1, GateQuiet DEF Updating, Idle, GateStep
<1> QED BY <1>1, <1>2, <1>3, <1>4, <1>5, <1>6, <1>7 DEF RNext

LEMMA GateInit == RInit => GateInv
BY DEF RInit, Init, Idle, GateInv, Updating

(* A guest is registered before it becomes anything more: the endpoint and *)
(* the webhook look at the row, and only a race can bring the guest back.  *)
THEOREM GuestsRegisterFirst == RSpec => GuestGate
<1>1. RInv /\ GateInv /\ [RNext]_rvars => GateInv'
      BY GateKept
<1>2. RSpec => [](RInv /\ GateInv)
      BY RInvHolds, GateInit, <1>1, PTL DEF RSpec
<1>3. RInv /\ GateInv /\ [RNext]_rvars => [GateStep]_rvars
      BY GateKept
<1> QED BY <1>2, <1>3, PTL DEF RSpec, GuestGate, GateStep

-----------------------------------------------------------------------------
(* The accounts change in single steps                                     *)

(* The token of a reset was made for the user whose row it updates, and a  *)
(* token is made for a user with a row.                                    *)
OwnInv ==
    \A w \in Workers :
        /\ Updating(req[w]) /\ req[w].token # None =>
              resetTokens[req[w].token].user = req[w].user
        /\ req[w].at = "createToken" => users[req[w].user] # None

TokensKept ==
    \A t \in Tokens : resetTokens[t] # None =>
        resetTokens'[t] # None /\ resetTokens'[t].user = resetTokens[t].user

(* A request that goes on has what it had; one that begins is in order.    *)
LEMMA OwnQuiet ==
    ASSUME RInv, OwnInv, TokensKept,
           \A u \in Users : users[u] # None => users'[u] # None,
           \A w \in Workers :
               \/ req'[w] = req[w]
               \/ ~Updating(req'[w]) /\ req'[w].at # "createToken"
               \/ Updating(req'[w]) /\ req'[w].token = None
               \/ /\ Updating(req[w]) /\ Updating(req'[w])
                  /\ req'[w].token = req[w].token /\ req'[w].user = req[w].user
               \/ /\ Updating(req'[w]) /\ req'[w].token \in Tokens
                  /\ resetTokens[req'[w].token] # None
                  /\ resetTokens[req'[w].token].user = req'[w].user
               \/ /\ req'[w].at = "createToken" /\ req'[w].user \in Users
                  /\ users[req'[w].user] # None
    PROVE  OwnInv'
<1> SUFFICES ASSUME NEW w \in Workers
             PROVE  /\ Updating(req'[w]) /\ req'[w].token # None =>
                          resetTokens'[req'[w].token].user = req'[w].user
                    /\ req'[w].at = "createToken" => users'[req'[w].user] # None
    BY DEF OwnInv, Updating
<1>1. /\ req[w].at = "createToken" => req[w].user \in Users
      /\ Updating(req[w]) /\ req[w].token # None =>
            req[w].token \in Tokens /\ resetTokens[req[w].token] # None
      BY DEF RInv, AInv, TypeOK, Request, WellFormed, Updating
<1>2. /\ Updating(req[w]) /\ req[w].token # None =>
            resetTokens[req[w].token].user = req[w].user
      /\ req[w].at = "createToken" => users[req[w].user] # None
      BY DEF OwnInv
<1>3. \/ req'[w] = req[w]
      \/ ~Updating(req'[w]) /\ req'[w].at # "createToken"
      \/ Updating(req'[w]) /\ req'[w].token = None
      \/ /\ Updating(req[w]) /\ Updating(req'[w])
         /\ req'[w].token = req[w].token /\ req'[w].user = req[w].user
      \/ /\ Updating(req'[w]) /\ req'[w].token \in Tokens
         /\ resetTokens[req'[w].token] # None
         /\ resetTokens[req'[w].token].user = req'[w].user
      \/ /\ req'[w].at = "createToken" /\ req'[w].user \in Users
         /\ users[req'[w].user] # None
      OBVIOUS
<1> QED BY <1>1, <1>2, <1>3 DEF TokensKept, Updating

Unseen == UNCHANGED <<RowsKept, TokenOwners, spent, disturbed>>

LEMMA UnseenStep ==
    ASSUME UNCHANGED <<users, raced, spent, disturbed>>, TokensKept,
           \A t \in Tokens : resetTokens[t] = None => resetTokens'[t] = None
    PROVE  Unseen
BY DEF Unseen, RowsKept, TokenOwners, TokensKept

LEMMA UnseenRequests ==
    ASSUME UNCHANGED <<users, raced, spent, disturbed, resetTokens>>
    PROVE  Unseen /\ TokensKept
BY DEF Unseen, RowsKept, TokenOwners, TokensKept

LEMMA AtomicHarmless ==
    ASSUME RInv, OwnInv, Harmless, UNCHANGED <<latest, raced, spent, respent, disturbed>>
    PROVE  OwnInv' /\ (Unseen \/ Atomic!Next)
<1>0. AInv
      BY DEF RInv
<1>1. CASE \E u \in Users, p \in Passwords : Login(u, p)
      BY <1>1, OwnQuiet, UnseenRequests DEF Login
<1>2. CASE \E s \in sessions : RefreshToken(s) \/ ExpireSession(s)
      BY <1>2, OwnQuiet, UnseenRequests DEF RefreshToken, ExpireSession
<1>3. ASSUME NEW w \in Workers, NEW s \in sessions, NEW u \in Users,
             NEW r \in RequestedRoles, RequestRole(w, s, u, r)
      PROVE  OwnInv' /\ Unseen
      <2>1. UNCHANGED <<users, resetTokens>>
            BY <1>3 DEF RequestRole
      <2> QED BY <1>0, <1>3, <2>1, RequestRoleShape, OwnQuiet, UnseenRequests DEF Updating
<1>4. ASSUME NEW w \in Workers, NEW u \in Users, Webhook(w, u)
      PROVE  OwnInv' /\ Unseen
      <2>1. UNCHANGED <<users, resetTokens>>
            BY <1>4 DEF Webhook
      <2> QED BY <1>0, <1>4, <2>1, WebhookShape, OwnQuiet, UnseenRequests DEF Updating
<1>5. ASSUME NEW w \in Workers, NEW u \in Users, ForgotPassword(w, u)
      PROVE  OwnInv' /\ Unseen
      <2>1. UNCHANGED <<users, resetTokens>> /\ users[u] # None
            BY <1>5 DEF ForgotPassword
      <2>2. req'[w].user = u
            BY <1>0, <1>5 DEF ForgotPassword, Continue, Idle, AInv, TypeOK
      <2> QED BY <1>0, <1>5, <2>1, <2>2, ForgotPasswordShape, OwnQuiet, UnseenRequests
              DEF Updating
<1>6. ASSUME NEW w \in Workers, NEW t \in Tokens, CreateToken(w, t)
      PROVE  OwnInv' /\ Atomic!Next
      <2> PICK u : u = req[w].user
          OBVIOUS
      <2>1. /\ UNCHANGED users /\ resetTokens[t] = None
            /\ \A v \in Workers \ {w} : req'[v] = req[v]
            /\ req[w].at = "createToken" /\ req'[w].at = "sendMail"
            /\ \A s \in Tokens \ {t} : resetTokens'[s] = resetTokens[s]
            BY <1>0, <1>6, CreateTokenShape
      <2>2. u \in Users /\ users[u] # None
            BY <2>1 DEF OwnInv, RInv, AInv, TypeOK, WellFormed, Request
      <2>3. resetTokens'[t] = [user |-> u, used |-> FALSE, live |-> TRUE]
            BY <1>0, <1>6 DEF CreateToken, AInv, TypeOK
      <2>4. resetTokens'[t] # None /\ resetTokens'[t].user = u
            <3>1. resetTokens'[t] \in ResetToken
                  BY <2>2, <2>3 DEF ResetToken
            <3>2. resetTokens'[t] # None
                  BY <3>1, AccountsAssumption
            <3>3. resetTokens'[t].user = u
                  BY <2>3
            <3> QED BY <3>2, <3>3
      <2>5. OwnInv'
            BY <2>1, OwnQuiet DEF TokensKept, Updating
      <2>6. Atomic!IssueToken(t, u)
            <3>1. TokenOwners[t] = None
                  BY <2>1 DEF TokenOwners
            <3>2. u \in DOMAIN RowsKept => RowsKept[u] # None
                  BY <2>2 DEF RowsKept
            <3>3. TokenOwners' = [TokenOwners EXCEPT ![t] = u]
                  <4>1. \A s \in Tokens : TokenOwners'[s] = IF s = t THEN u ELSE TokenOwners[s]
                        BY <2>1, <2>4 DEF TokenOwners
                  <4> QED BY <4>1 DEF TokenOwners
            <3>4. UNCHANGED <<RowsKept, spent, disturbed>>
                  BY <2>1 DEF RowsKept
            <3> QED BY <3>1, <3>2, <3>3, <3>4 DEF Atomic!IssueToken
      <2> QED BY <2>2, <2>5, <2>6 DEF Atomic!Next
<1>7. ASSUME NEW w \in Workers, GetRow(w)
      PROVE  OwnInv' /\ Unseen
      BY <1>0, <1>7, GetRowShape, OwnQuiet, UnseenRequests DEF Updating
<1>8. ASSUME NEW w \in Workers, SendMail(w)
      PROVE  OwnInv' /\ Unseen
      BY <1>0, <1>8, SendMailShape, OwnQuiet, UnseenRequests DEF Updating, Idle
<1>9. ASSUME NEW w \in Workers, MarkUsed(w)
      PROVE  OwnInv' /\ Unseen
      <2>1. TokensKept /\ \A t \in Tokens : resetTokens[t] = None => resetTokens'[t] = None
            <3> PICK t : t = req[w].token
                OBVIOUS
            <3>1. t \in Tokens /\ resetTokens[t] # None /\ resetTokens[t] \in ResetToken
                  BY <1>0, <1>9, MarkUsedShape DEF AInv, TypeOK, WellFormed
            <3>2. PICK new : new = [resetTokens[t] EXCEPT !.used = TRUE]
                  OBVIOUS
            <3>3. new \in ResetToken /\ new.user = resetTokens[t].user
                  BY <3>1, <3>2 DEF ResetToken
            <3>4. resetTokens' = [resetTokens EXCEPT ![t] = new]
                  BY <1>9, <3>2 DEF MarkUsed
            <3> QED BY <1>0, <3>1, <3>3, <3>4, AccountsAssumption DEF TokensKept, AInv, TypeOK
      <2> QED BY <1>0, <1>9, <2>1, MarkUsedShape, OwnQuiet, UnseenStep DEF Updating, Idle
<1>10. ASSUME NEW t \in Tokens, ExpireToken(t)
       PROVE  OwnInv' /\ Unseen
      <2>1. TokensKept /\ \A s \in Tokens : resetTokens[s] = None => resetTokens'[s] = None
            <3>1. resetTokens[t] # None /\ resetTokens[t] \in ResetToken
                  BY <1>0, <1>10 DEF ExpireToken, AInv, TypeOK
            <3>2. PICK new : new = [resetTokens[t] EXCEPT !.live = FALSE]
                  OBVIOUS
            <3>3. new \in ResetToken /\ new.user = resetTokens[t].user
                  BY <3>1, <3>2 DEF ResetToken
            <3>4. resetTokens' = [resetTokens EXCEPT ![t] = new]
                  BY <1>10, <3>2 DEF ExpireToken
            <3> QED BY <1>0, <3>1, <3>3, <3>4, AccountsAssumption DEF TokensKept, AInv, TypeOK
      <2>2. UNCHANGED <<users, req>>
            BY <1>10 DEF ExpireToken
      <2> QED BY <2>1, <2>2, OwnQuiet, UnseenStep
<1> QED BY <1>1, <1>2, <1>3, <1>4, <1>5, <1>6, <1>7, <1>8, <1>9, <1>10 DEF Harmless

(* The Set of a row changes one column of it, or the row is lost count of. *)
LEMMA AtomicSetRow ==
    ASSUME RInv, OwnInv, GateInv, NEW w \in Workers, RSetRow(w)
    PROVE  OwnInv' /\ (Unseen \/ Atomic!Next)
<1> PICK q : q = req[w]
    OBVIOUS
<1> PICK u : u = q.user
    OBVIOUS
<1> PICK written : written = UpdatedRow(q)
    OBVIOUS
<1>1. /\ AInv' /\ UNCHANGED resetTokens /\ \A v \in Workers \ {w} : req'[v] = req[v]
      /\ q.at = "setRow" /\ q \in Request /\ WellFormed(q)
      /\ u \in Users /\ q.row \in Row
      /\ users' = [users EXCEPT ![u] = written] /\ written \in Row
      /\ req'[w] = Idle \/ req'[w].at = "markUsed"
      /\ q.pw = None => written.role = q.role /\ written.pw = q.row.pw
      /\ q.pw # None => written.role = q.row.role /\ written.pw = q.pw
      BY SetRowShape DEF RSetRow, RInv
<1>2. /\ spent' = spent \cup ({q.token} \ {None})
      /\ respent' = respent \cup (({q.token} \ {None}) \cap spent)
      /\ disturbed' = disturbed
      /\ raced' = raced \/ raced' = raced \cup {u}
      BY DEF RSetRow
<1>3. users \in Stores /\ users[u] \in Row /\ written # None
      <2>1. users[u] # None
            BY <1>1 DEF WellFormed
      <2> QED BY <1>1, <2>1, AccountsAssumption DEF RInv, AInv, TypeOK, Stores
<1>4. \A v \in Users : users'[v] = IF v = u THEN written ELSE users[v]
      BY <1>1, <1>3 DEF Stores
<1>5. OwnInv'
      BY <1>1, <1>3, <1>4, OwnQuiet DEF TokensKept, Updating, Idle
<1>6. UNCHANGED TokenOwners
      BY <1>1 DEF TokenOwners
<1>7. /\ DOMAIN RowsKept = Users \ raced
      /\ \A v \in Users \ raced : RowsKept[v] = users[v]
      BY DEF RowsKept
<1>8. /\ u \in raced' => RowsKept' = Atomic!Without(u)
      /\ u \in raced  => RowsKept' = RowsKept
      BY <1>2, <1>4 DEF RowsKept, Atomic!Without
<1>9. ASSUME u \notin raced'
      PROVE  /\ u \in DOMAIN RowsKept /\ RowsKept[u] = users[u]
             /\ RowsKept' = [RowsKept EXCEPT ![u] = written]
             /\ IF q.pw = None THEN written = [users[u] EXCEPT !.role = q.role]
                               ELSE written = [users[u] EXCEPT !.pw = q.pw]
      <2>1. u \notin raced /\ raced' = raced
            BY <1>2, <1>9
      <2>2. /\ users[u] = latest[u]
            /\ IF q.pw = None THEN q.row.pw = latest[u].pw ELSE q.row.role = latest[u].role
            BY <1>1, <2>1 DEF RInv, UpdateInv, RowsLatest, UpdatesStick
      <2>3. RowsKept' = [RowsKept EXCEPT ![u] = written]
            BY <1>1, <1>4, <2>1 DEF RowsKept
      <2>4. IF q.pw = None THEN written = [users[u] EXCEPT !.role = q.role]
                           ELSE written = [users[u] EXCEPT !.pw = q.pw]
            BY <1>1, <1>3, <2>2 DEF Row
      <2> QED BY <1>1, <1>7, <2>1, <2>3, <2>4
<1>10. CASE q.pw = None
      <2>1. q.token = None /\ q.role \in CanonicalRoles \ {"guest", "master_admin"}
            BY <1>1, <1>10 DEF WellFormed, Updating
      <2>2. UNCHANGED <<TokenOwners, spent, disturbed>>
            BY <1>2, <1>6, <2>1
      <2>3. CASE u \in raced'
            <3>1. Atomic!LoseRow(u)
                  BY <1>8, <2>2, <2>3 DEF Atomic!LoseRow
            <3> QED BY <1>1, <1>5, <3>1 DEF Atomic!Next
      <2>4. CASE u \notin raced'
            <3>1. users[u].role = "guest" => q.role = "registered"
                  BY <1>1, <1>2, <1>10, <2>4 DEF GateInv, Updating
            <3>2. RowsKept' = [RowsKept EXCEPT ![u].role = q.role]
                  BY <1>9, <1>10, <2>4
            <3>3. RowsKept[u] # None /\ (RowsKept[u].role = "guest" => q.role = "registered")
                  BY <1>3, <1>9, <2>4, <3>1, AccountsAssumption
            <3>4. Atomic!AssignRole(u)
                  <4>1. q.role \in IF RowsKept[u].role = "guest" THEN {"registered"}
                                   ELSE CanonicalRoles \ {"guest", "master_admin"}
                        BY <2>1, <3>3
                  <4> QED BY <1>9, <2>2, <2>4, <3>2, <3>3, <4>1 DEF Atomic!AssignRole
            <3> QED BY <1>1, <1>5, <3>4 DEF Atomic!Next
      <2> QED BY <2>3, <2>4
<1>11. CASE q.pw # None
      <2> PICK t : t = q.token
          OBVIOUS
      <2>1. t # None /\ t \in Tokens /\ resetTokens[t] # None /\ q.pw \in Passwords
            BY <1>1, <1>11 DEF WellFormed, Updating, Request
      <2>2. TokenOwners[t] = u /\ u # None
            <3>1. resetTokens[t].user = u
                  BY <1>1, <2>1 DEF OwnInv, Updating
            <3> QED BY <1>1, <2>1, <3>1, AccountsAssumption DEF TokenOwners
      <2>3. t \in spent => t \in disturbed
            BY <1>1, <2>1 DEF RInv, TokenInv, ResetAlone, Resets
      <2>4. spent' = spent \cup {t} /\ UNCHANGED <<TokenOwners, disturbed>>
            BY <1>2, <1>6, <2>1
      <2>5. IF u \in DOMAIN RowsKept
            THEN RowsKept' = [RowsKept EXCEPT ![u].pw = q.pw] \/ RowsKept' = Atomic!Without(u)
            ELSE RowsKept' = RowsKept
            <3>1. CASE u \in raced'
                  BY <1>1, <1>7, <1>8, <3>1
            <3>2. CASE u \notin raced'
                  BY <1>9, <1>11, <3>2
            <3> QED BY <3>1, <3>2
      <2>6. Atomic!ResetPassword(t, q.pw)
            BY <2>2, <2>3, <2>4, <2>5 DEF Atomic!ResetPassword
      <2> QED BY <1>5, <2>1, <2>6 DEF Atomic!Next
<1> QED BY <1>10, <1>11

LEMMA AtomicNext ==
    ASSUME RInv, OwnInv, GateInv, [RNext]_rvars
    PROVE  OwnInv' /\ (Unseen \/ Atomic!Next)
<1>0. AInv
      BY DEF RInv
<1>1. CASE UNCHANGED rvars
      BY <1>1, OwnQuiet, UnseenRequests DEF rvars, vars
<1>2. ASSUME NEW w \in Workers, RSetRow(w)
      PROVE  OwnInv' /\ (Unseen \/ Atomic!Next)
      BY <1>2, AtomicSetRow
<1>3. CASE Harmless /\ UNCHANGED <<latest, raced, spent, respent, disturbed>>
      BY <1>3, AtomicHarmless
<1>4. ASSUME NEW T \in SUBSET Tokens, disturbed' = disturbed \cup T,
             UNCHANGED <<users, resetTokens, raced, spent>>
      PROVE  Atomic!Next /\ TokensKept
      <2>1. Atomic!Forfeit(T)
            BY <1>4 DEF Atomic!Forfeit, RowsKept, TokenOwners
      <2> QED BY <1>4, <2>1 DEF Atomic!Next, TokensKept
<1>5. ASSUME NEW w \in Workers, RFail(w)
      PROVE  OwnInv' /\ Atomic!Next
      <2>1. /\ UNCHANGED <<users, resetTokens, raced, spent>> /\ req'[w] = Idle
            /\ \A v \in Workers \ {w} : req'[v] = req[v]
            /\ disturbed' = disturbed \cup Resetting({w})
            BY <1>0, <1>5, FailShape DEF RFail
      <2>2. Resetting({w}) \in SUBSET Tokens
            BY <1>0 DEF Resetting, AInv, TypeOK, Request
      <2>3. Atomic!Next /\ TokensKept
            BY <1>4, <2>1, <2>2
      <2> QED BY <2>1, <2>3, OwnQuiet DEF Updating, Idle
<1>6. CASE RCrash
      <2>1. /\ UNCHANGED <<users, resetTokens, raced, spent>>
            /\ \A v \in Workers : req'[v] = Idle
            /\ disturbed' = disturbed \cup Resetting(Workers)
            BY <1>0, <1>6, CrashShape DEF RCrash
      <2>2. Resetting(Workers) \in SUBSET Tokens
            BY <1>0 DEF Resetting, AInv, TypeOK, Request
      <2>3. Atomic!Next /\ TokensKept
            BY <1>4, <2>1, <2>2
      <2> QED BY <2>1, <2>3, OwnQuiet DEF Updating, Idle
<1>7. ASSUME NEW w \in Workers, NEW t \in Tokens, NEW p \in Passwords, RResetPassword(w, t, p)
      PROVE  OwnInv' /\ Atomic!Next
      <2>1. /\ UNCHANGED <<users, resetTokens, raced, spent>>
            /\ \A v \in Workers \ {w} : req'[v] = req[v]
            /\ req'[w].token = t /\ req'[w].at = "getRow" /\ resetTokens[t] # None
            /\ disturbed' = disturbed \cup ({t} \cap Resetting(Workers))
            BY <1>0, <1>7, ResetPasswordShape DEF RResetPassword
      <2>2. req'[w].user = resetTokens[t].user
            BY <1>0, <1>7 DEF RResetPassword, ResetPassword, StartUpdate, Continue, Idle,
                              AInv, TypeOK
      <2>3. Atomic!Next /\ TokensKept
            <3>1. {t} \cap Resetting(Workers) \in SUBSET Tokens
                  OBVIOUS
            <3> QED BY <1>4, <2>1, <3>1
      <2> QED BY <2>1, <2>2, <2>3, OwnQuiet DEF Updating
<1>8. ASSUME NEW u \in Users, NEW p \in Passwords, NEW r \in RequestedRoles, RRegister(u, p, r)
      PROVE  OwnInv' /\ (Unseen \/ Atomic!Next)
      <2> PICK new : new = [role |-> "registered", pw |-> p]
          OBVIOUS
      <2>1. /\ users[u] = None /\ users' = [users EXCEPT ![u] = new]
            /\ UNCHANGED <<req, resetTokens, raced, spent, disturbed>>
            BY <1>0, <1>8, RegisterShape DEF RRegister
      <2>2. \A v \in Users : users'[v] = IF v = u THEN new ELSE users[v]
            BY <1>0, <2>1 DEF AInv, TypeOK, Stores
      <2>3. new \in Row /\ new # None
            <3>1. new \in Row
                  BY DEF Row, RoleNames, CanonicalRoles
            <3> QED BY <3>1, AccountsAssumption
      <2>4. OwnInv'
            BY <2>1, <2>2, <2>3, OwnQuiet DEF TokensKept
      <2>5. UNCHANGED <<TokenOwners, spent, disturbed>>
            BY <2>1 DEF TokenOwners
      <2>6. CASE u \in raced
            <3>1. UNCHANGED RowsKept
                  BY <2>1, <2>2, <2>6 DEF RowsKept
            <3> QED BY <2>4, <2>5, <3>1 DEF Unseen
      <2>7. CASE u \notin raced
            <3>1. /\ u \in DOMAIN RowsKept /\ RowsKept[u] = None
                  /\ RowsKept' = [RowsKept EXCEPT ![u] = new]
                  BY <2>1, <2>2, <2>7 DEF RowsKept
            <3>2. Atomic!Register(u)
                  BY <2>5, <3>1 DEF Atomic!Register
            <3> QED BY <2>4, <3>2 DEF Atomic!Next
      <2> QED BY <2>6, <2>7
<1> QED BY <1>1, <1>2, <1>3, <1>5, <1>6, <1>7, <1>8 DEF RNext

LEMMA AtomicInit == RInit => OwnInv /\ Atomic!Init
<1> SUFFICES ASSUME RInit PROVE OwnInv /\ Atomic!Init
    OBVIOUS
<1>1. OwnInv
      BY DEF RInit, Init, Idle, OwnInv, Updating
<1>2. users \in InitialStores /\ users \in Stores /\ raced = {}
      BY AccountsAssumption DEF RInit, Init
<1>3. RowsKept = users
      BY <1>2 DEF RowsKept, Stores
<1>4. TokenOwners = [t \in Tokens |-> None]
      BY DEF TokenOwners, RInit, Init
<1> QED BY <1>1, <1>2, <1>3, <1>4 DEF Atomic!Init, RInit

(* Updates that read and write whole rows, and resets of five calls, are   *)
(* single steps on single columns to whoever sees the accounts that no     *)
(* race has touched.                                                       *)
THEOREM AccountsAreAtomic == RSpec => UpdatesAreAtomic
<1>1. OwnInv /\ RInv /\ GateInv /\ [RNext]_rvars => OwnInv'
      BY AtomicNext
<1>2. RInv /\ GateInv /\ [RNext]_rvars => GateInv'
      BY GateKept
<1>3. OwnInv /\ RInv /\ GateInv /\ [RNext]_rvars => Unseen \/ Atomic!Next
      BY AtomicNext
<1>4. Unseen \/ Atomic!Next => [Atomic!Next]_(Atomic!atomicVars)
      BY DEF Unseen, Atomic!atomicVars
<1> QED BY <1>1, <1>2, <1>3, <1>4, AtomicInit, GateInit, RInvHolds, PTL
        DEF RSpec, UpdatesAreAtomic, Atomic!Spec

-----------------------------------------------------------------------------
(* The single master                                                       *)

(* w is about to write the role of the master admin back with a password.  *)
CarriesMaster(w) ==
    req[w].at = "setRow" /\ req[w].pw # None /\ req[w].row.role = "master_admin"

(* What the handlers can do to the set of masters.                         *)
ServedMasters ==
    /\ UNCHANGED indexed
    /\ \A u \in MastersOf(users') :
          u \in MastersOf(users) \/ \E w \in Workers : CarriesMaster(w) /\ req[w].user = u
    /\ indexed => \/ MastersOf(users') \subseteq MastersOf(users)
                  \/ \E u \in Users : MastersOf(users') \subseteq {u}
    /\ \A w \in Workers : CarriesMaster(w)' =>
          \/ CarriesMaster(w) /\ req'[w].user = req[w].user
          \/ req'[w].user \in MastersOf(users)

LEMMA ServedQuietly ==
    ASSUME UNCHANGED <<users, indexed>>,
           \A w \in Workers : req'[w] = req[w] \/ req'[w].at # "setRow"
    PROVE  ServedMasters
BY DEF ServedMasters, CarriesMaster

LEMMA ServedSetRow ==
    ASSUME AInv, NEW w \in Workers, SetRow(w)
    PROVE  ServedMasters
<1> PICK q : q = req[w]
    OBVIOUS
<1> PICK written : written = UpdatedRow(q)
    OBVIOUS
<1>1. /\ UNCHANGED indexed /\ \A v \in Workers \ {w} : req'[v] = req[v]
      /\ q.at = "setRow" /\ q \in Request /\ WellFormed(q) /\ q.user \in Users
      /\ users' = [users EXCEPT ![q.user] = written] /\ req'[w].at # "setRow"
      /\ q.pw = None => written.role = q.role
      /\ q.pw # None => written.role = q.row.role
      BY SetRowShape DEF Idle
<1>2. users \in Stores
      BY DEF AInv, TypeOK
<1>3. /\ users'[q.user] = written
      /\ \A v \in Users \ {q.user} : users'[v] = users[v]
      BY <1>1, <1>2 DEF Stores
<1>4. \A u \in MastersOf(users') :
          u \in MastersOf(users) \/ (u = q.user /\ written.role = "master_admin")
      BY <1>3 DEF MastersOf
<1>5. written.role = "master_admin" => CarriesMaster(w)
      BY <1>1 DEF CarriesMaster, WellFormed, Updating
<1>6. indexed /\ written.role = "master_admin" => MastersOf(users) \subseteq {q.user}
      BY DEF SetRow, IndexAllows
<1>7. \A v \in Workers : CarriesMaster(v)' => CarriesMaster(v) /\ req'[v].user = req[v].user
      BY <1>1 DEF CarriesMaster
<1>8. \A u \in MastersOf(users') :
          u \in MastersOf(users) \/ \E v \in Workers : CarriesMaster(v) /\ req[v].user = u
      BY <1>4, <1>5
<1>9. indexed => \/ MastersOf(users') \subseteq MastersOf(users)
                \/ MastersOf(users') \subseteq {q.user}
      BY <1>4, <1>6
<1> QED BY <1>1, <1>7, <1>8, <1>9 DEF ServedMasters

LEMMA ServeStep ==
    ASSUME AInv, Next
    PROVE  AInv' /\ ServedMasters
<1>1. ASSUME NEW u \in Users, NEW p \in Passwords, NEW r \in RequestedRoles,
             Register(u, p, r)
      PROVE  AInv' /\ ServedMasters
      <2>1. /\ AInv' /\ users[u] = None /\ UNCHANGED <<req, indexed>>
            /\ users' = [users EXCEPT ![u] = [role |-> "registered", pw |-> p]]
            BY <1>1, RegisterShape
      <2>2. MastersOf(users') \subseteq MastersOf(users)
            BY <2>1 DEF MastersOf, AInv, TypeOK, Stores
      <2> QED BY <2>1, <2>2 DEF ServedMasters, CarriesMaster
<1>2. ASSUME NEW u \in Users, NEW p \in Passwords, Login(u, p)
      PROVE  AInv' /\ ServedMasters
      BY <1>2, LoginShape, ServedQuietly DEF Login
<1>3. ASSUME NEW s \in sessions, RefreshToken(s)
      PROVE  AInv' /\ ServedMasters
      BY <1>3, RefreshTokenShape, ServedQuietly DEF RefreshToken
<1>4. ASSUME NEW s \in sessions, ExpireSession(s)
      PROVE  AInv' /\ ServedMasters
      <2>1. AInv'
            BY <1>4, SessionShape DEF ExpireSession, AInv, TypeOK
      <2> QED BY <1>4, <2>1, ServedQuietly DEF ExpireSession
<1>5. ASSUME NEW w \in Workers, NEW s \in sessions, NEW u \in Users,
             NEW r \in RequestedRoles, RequestRole(w, s, u, r)
      PROVE  AInv' /\ ServedMasters
      <2>1. UNCHANGED <<users, indexed>>
            BY <1>5 DEF RequestRole
      <2> QED BY <1>5, <2>1, RequestRoleShape, ServedQuietly
<1>6. ASSUME NEW w \in Workers, NEW u \in Users, Webhook(w, u)
      PROVE  AInv' /\ ServedMasters
      <2>1. UNCHANGED <<users, indexed>>
            BY <1>6 DEF Webhook
      <2> QED BY <1>6, <2>1, WebhookShape, ServedQuietly
<1>7. ASSUME NEW w \in Workers, NEW u \in Users, ForgotPassword(w, u)
      PROVE  AInv' /\ ServedMasters
      <2>1. UNCHANGED <<users, indexed>>
            BY <1>7 DEF ForgotPassword
      <2> QED BY <1>7, <2>1, ForgotPasswordShape, ServedQuietly
<1>8. ASSUME NEW w \in Workers, NEW t \in Tokens, CreateToken(w, t)
      PROVE  AInv' /\ ServedMasters
      BY <1>8, CreateTokenShape, ServedQuietly
<1>9. ASSUME NEW w \in Workers, NEW t \in Tokens, NEW p \in Passwords,
             ResetPassword(w, t, p)
      PROVE  AInv' /\ ServedMasters
      BY <1>9, ResetPasswordShape, ServedQuietly
<1>10. ASSUME NEW w \in Workers, GetRow(w)
       PROVE  AInv' /\ ServedMasters
       <2>1. /\ AInv' /\ UNCHANGED <<users, indexed>>
             /\ \A v \in Workers \ {w} : req'[v] = req[v]
             /\ req'[w].user \in Users /\ users[req'[w].user] \in Row
             /\ req'[w].row = users[req'[w].user]
             BY <1>10, GetRowShape
       <2>2. CarriesMaster(w)' => req'[w].user \in MastersOf(users)
             BY <2>1, AccountsAssumption DEF CarriesMaster, MastersOf
       <2> QED BY <2>1, <2>2 DEF ServedMasters, CarriesMaster
<1>11. ASSUME NEW w \in Workers, SetRow(w)
       PROVE  AInv' /\ ServedMasters
       BY <1>11, SetRowShape, ServedSetRow
<1>12. ASSUME NEW w \in Workers, SendMail(w)
       PROVE  AInv' /\ ServedMasters
       BY <1>12, SendMailShape, ServedQuietly DEF Idle
<1>13. ASSUME NEW w \in Workers, MarkUsed(w)
       PROVE  AInv' /\ ServedMasters
       BY <1>13, MarkUsedShape, ServedQuietly DEF Idle
<1>14. ASSUME NEW w \in Workers, Fail(w)
       PROVE  AInv' /\ ServedMasters
       BY <1>14, FailShape, ServedQuietly DEF Idle
<1>15. ASSUME NEW t \in Tokens, ExpireToken(t)
       PROVE  AInv' /\ ServedMasters
       BY <1>15, ExpireTokenShape, ServedQuietly
<1>16. CASE Crash
       BY <1>16, CrashShape, ServedQuietly DEF Idle
<1> QED BY <1>1, <1>2, <1>3, <1>4, <1>5, <1>6, <1>7, <1>8, <1>9, <1>10, <1>11, <1>12,
           <1>13, <1>14, <1>15, <1>16 DEF Next

OneMaster(store) == \A u, v \in MastersOf(store) : u = v

(* How far the start has established the configured master.                *)
BootProgress ==
    /\ phase \in Booting \ {"migrate"} => configured # None
    /\ phase = "create" => users[configured] = None
    /\ phase = "promote" => users[configured] # None
    /\ phase \in {"list", "demote"} => configured \in MastersOf(users)
    /\ phase = "demote" => extra = MastersOf(users) \ {configured}
    /\ phase # "serving" => \A w \in Workers : req[w].at = "idle"

OnlyConfigured ==
    phase = "serving" /\ configured # None =>
        /\ MastersOf(users) \subseteq {configured}
        /\ \A w \in Workers : CarriesMaster(w) => req[w].user = configured

MInv ==
    /\ AInv /\ BTypeOK
    /\ indexed => OneMaster(users)
    /\ BootProgress /\ OnlyConfigured

LEMMA MInvInit == BInit => MInv
<1> SUFFICES ASSUME BInit PROVE MInv
    OBVIOUS
<1>1. AInv
      BY IdleWellFormed, AccountsAssumption DEF BInit, AInv, TypeOK
<1> QED BY <1>1 DEF BInit, MInv, BTypeOK, AInv, BootProgress, OnlyConfigured, Idle, Booting,
                    Phases

(* A step of the start: no request is there, and rows are only added or    *)
(* changed.                                                                *)
LEMMA BootShape ==
    ASSUME MInv, UNCHANGED <<req, resetTokens, mailed, sessions>>, indexed' \in BOOLEAN,
           users' \in Stores, \A u \in Users : users[u] # None => users'[u] # None
    PROVE  AInv'
BY Stays DEF MInv, TablesTyped, Grown, AInv, TypeOK

LEMMA StartKeeps ==
    ASSUME MInv, NEW m \in Masters, Start(m)
    PROVE  MInv'
<1>1. AInv'
      BY BootShape DEF Start, vars, MInv, AInv, TypeOK
<1> QED BY <1>1, BootstrapAssumption
        DEF Start, vars, MInv, BTypeOK, AInv, BootProgress, OnlyConfigured, OneMaster, Booting,
            Phases

LEMMA MigrateKeeps ==
    ASSUME MInv, Migrate
    PROVE  MInv' /\ (phase' = "serving" => configured = None)
<1>1. /\ phase = "migrate" /\ phase' = IF configured = None THEN "serving" ELSE "lookup"
      /\ UNCHANGED <<resetTokens, mailed, sessions, req, configured, extra>>
      BY DEF Migrate
<1>2. users \in Stores /\ indexed \in BOOLEAN
      BY DEF MInv, AInv, TypeOK
<1>3. /\ users' \in Stores /\ indexed' \in BOOLEAN
      /\ \A u \in Users : users[u] # None => users'[u] # None
      /\ indexed' => OneMaster(users')
      <2>1. CASE UNCHANGED <<users, indexed>>
            BY <1>2, <2>1 DEF MInv
      <2>2. CASE ~UNCHANGED <<users, indexed>>
            <3>1. PICK oldest \in MastersOf(users) \cup {None} :
                      /\ oldest = None <=> MastersOf(users) = {}
                      /\ users' = [u \in Users |->
                            IF u \in MastersOf(users) \ {oldest}
                              THEN [users[u] EXCEPT !.role = "admin"] ELSE users[u]]
                  BY <2>2 DEF Migrate
            <3>2. indexed' = TRUE
                  BY <2>2 DEF Migrate
            <3>3. \A u \in MastersOf(users) :
                      /\ u \in Users /\ users[u] \in Row
                      /\ [users[u] EXCEPT !.role = "admin"] \in Row
                      /\ [users[u] EXCEPT !.role = "admin"].role = "admin"
                  BY <1>2 DEF MastersOf, Stores, Row, RoleNames, CanonicalRoles
            <3>4. users' \in Stores /\ \A u \in Users : users[u] # None => users'[u] # None
                  BY <1>2, <3>1, <3>3, AccountsAssumption DEF Stores
            <3>5. \A u \in MastersOf(users') : u = oldest
                  BY <3>1, <3>3 DEF MastersOf
            <3> QED BY <3>2, <3>4, <3>5 DEF OneMaster
      <2> QED BY <2>1, <2>2
<1>4. AInv'
      BY <1>1, <1>3, BootShape
<1> QED BY <1>1, <1>3, <1>4
        DEF MInv, BTypeOK, AInv, BootProgress, OnlyConfigured, Booting, Phases

LEMMA LookupKeeps ==
    ASSUME MInv, Lookup
    PROVE  MInv'
<1>1. /\ phase = "lookup" /\ UNCHANGED <<vars, configured, extra>>
      /\ phase' = IF users[configured] = None THEN "create"
                  ELSE IF users[configured].role = "master_admin" THEN "list" ELSE "promote"
      BY DEF Lookup
<1>2. AInv'
      BY <1>1, BootShape DEF vars, MInv, AInv, TypeOK
<1>3. configured \in Users
      BY <1>1 DEF MInv, BTypeOK, BootProgress, Booting
<1> QED BY <1>1, <1>2, <1>3
        DEF vars, MInv, BTypeOK, AInv, BootProgress, OnlyConfigured, OneMaster, Booting, Phases,
            MastersOf

(* The configured user is made master, if the index allows.                *)
LEMMA MasterMade ==
    ASSUME MInv, phase \in {"create", "promote"}, NEW row \in Row, row.role = "master_admin",
           IndexAllows(configured, "master_admin"), users' = [users EXCEPT ![configured] = row],
           phase' = "list",
           UNCHANGED <<resetTokens, mailed, sessions, indexed, req, configured, extra>>
    PROVE  MInv'
<1>1. /\ configured \in Users /\ configured # None /\ users \in Stores /\ indexed \in BOOLEAN
      /\ row # None
      BY AccountsAssumption DEF MInv, BTypeOK, BootProgress, Booting, AInv, TypeOK
<1>2. /\ users' \in Stores /\ users'[configured] = row
      /\ \A u \in Users \ {configured} : users'[u] = users[u]
      BY <1>1 DEF Stores
<1>3. AInv'
      BY <1>1, <1>2, BootShape
<1>4. configured \in MastersOf(users')
      BY <1>1, <1>2 DEF MastersOf
<1>5. MastersOf(users') \subseteq MastersOf(users) \cup {configured}
      BY <1>2 DEF MastersOf
<1>6. indexed => OneMaster(users')
      BY <1>5 DEF IndexAllows, OneMaster
<1> QED BY <1>1, <1>3, <1>4, <1>6
        DEF MInv, BTypeOK, AInv, BootProgress, OnlyConfigured, Booting, Phases

(* The start fails: everything stays, and nothing serves.                  *)
LEMMA GivesUp ==
    ASSUME MInv, phase # "serving", phase' = "fatal", UNCHANGED <<vars, configured, extra>>
    PROVE  MInv'
<1>1. AInv'
      BY BootShape DEF vars, MInv, AInv, TypeOK
<1> QED BY <1>1 DEF vars, MInv, BTypeOK, AInv, BootProgress, OnlyConfigured, OneMaster, Booting,
                    Phases

LEMMA CreateMasterKeeps ==
    ASSUME MInv, CreateMaster
    PROVE  MInv' /\ phase' # "serving"
<1>1. /\ phase = "create"
      /\ UNCHANGED <<resetTokens, mailed, sessions, indexed, req, configured, extra>>
      BY DEF CreateMaster
<1>2. CASE CreateRow(configured, MasterPassword, "master_admin") /\ phase' = "list"
      <2> DEFINE row == [role |-> "master_admin", pw |-> MasterPassword]
      <2>1. row \in Row /\ row.role = "master_admin"
            BY BootstrapAssumption DEF Row, RoleNames, CanonicalRoles
      <2>2. users' = [users EXCEPT ![configured] = row] /\ IndexAllows(configured, "master_admin")
            BY <1>2 DEF CreateRow
      <2> HIDE DEF row
      <2> QED BY <1>1, <1>2, <2>1, <2>2, MasterMade
<1>3. CASE phase' = "fatal" /\ UNCHANGED users
      BY <1>1, <1>3, GivesUp DEF vars
<1> QED BY <1>2, <1>3 DEF CreateMaster

LEMMA PromoteMasterKeeps ==
    ASSUME MInv, PromoteMaster
    PROVE  MInv' /\ phase' # "serving"
<1>1. /\ phase = "promote"
      /\ UNCHANGED <<resetTokens, mailed, sessions, indexed, req, configured, extra>>
      BY DEF PromoteMaster
<1>2. CASE IndexAllows(configured, "master_admin")
      <2>1. users[configured] \in Row
            BY <1>1 DEF MInv, BTypeOK, BootProgress, Booting, AInv, TypeOK, Stores
      <2> DEFINE row == [users[configured] EXCEPT !.role = "master_admin"]
      <2>2. row \in Row /\ row.role = "master_admin"
            BY <2>1 DEF Row, RoleNames, CanonicalRoles
      <2>3. users' = [users EXCEPT ![configured] = row] /\ phase' = "list"
            BY <1>2 DEF PromoteMaster
      <2> HIDE DEF row
      <2> QED BY <1>1, <1>2, <2>2, <2>3, MasterMade
<1>3. CASE phase' = "fatal" /\ UNCHANGED users
      BY <1>1, <1>3, GivesUp DEF vars
<1> QED BY <1>2, <1>3 DEF PromoteMaster

(* The server starts: the others are demoted, or were none.                *)
LEMMA ServerStarts ==
    ASSUME MInv, phase # "serving", phase' = "serving", AInv', configured' = configured,
           extra' \subseteq Users, UNCHANGED <<req, indexed>>,
           indexed => OneMaster(users'), MastersOf(users') = {configured}
    PROVE  MInv'
BY DEF MInv, BTypeOK, AInv, BootProgress, OnlyConfigured, Booting, Phases, CarriesMaster

LEMMA ListUsersKeeps ==
    ASSUME MInv, ListUsers
    PROVE  MInv' /\ (phase' = "serving" => MastersOf(users') = {configured})
<1>1. /\ phase = "list" /\ UNCHANGED <<vars, configured>>
      /\ extra' = MastersOf(users) \ {configured}
      /\ phase' = IF extra' = {} THEN "serving" ELSE "demote"
      BY DEF ListUsers
<1>2. AInv'
      BY <1>1, BootShape DEF vars, MInv, AInv, TypeOK
<1>3. configured \in MastersOf(users) /\ extra' \subseteq Users
      BY <1>1 DEF MInv, BootProgress, MastersOf
<1>4. CASE extra' = {}
      <2>1. MastersOf(users') = {configured} /\ phase' = "serving"
            BY <1>1, <1>3, <1>4 DEF vars
      <2> QED BY <1>1, <1>2, <1>3, <2>1, ServerStarts DEF vars, MInv
<1>5. CASE extra' # {}
      BY <1>1, <1>2, <1>3, <1>5
         DEF vars, MInv, BTypeOK, AInv, BootProgress, OnlyConfigured, OneMaster, Booting, Phases
<1> QED BY <1>4, <1>5

LEMMA DemoteExtraKeeps ==
    ASSUME MInv, NEW u \in extra, DemoteExtra(u)
    PROVE  MInv' /\ (phase' = "serving" => MastersOf(users') = {configured})
<1>1. /\ phase = "demote" /\ extra' = extra \ {u}
      /\ phase' = IF extra' = {} THEN "serving" ELSE "demote"
      /\ UNCHANGED <<resetTokens, mailed, sessions, indexed, req, configured>>
      BY DEF DemoteExtra
<1>2. /\ extra = MastersOf(users) \ {configured} /\ configured \in MastersOf(users)
      /\ users \in Stores /\ indexed \in BOOLEAN
      BY <1>1 DEF MInv, BootProgress, AInv, TypeOK
<1>3. u \in Users /\ u # configured /\ users[u] \in Row
      BY <1>2 DEF MastersOf, Stores
<1> DEFINE row == [users[u] EXCEPT !.role = "admin"]
<1>4. row \in Row /\ row.role = "admin" /\ row # None
      <2>1. row \in Row /\ row.role = "admin"
            BY <1>3 DEF Row, RoleNames, CanonicalRoles
      <2> QED BY <2>1, AccountsAssumption
<1>5. users' = [users EXCEPT ![u] = row]
      BY DEF DemoteExtra
<1> HIDE DEF row
<1>6. /\ users' \in Stores /\ users'[u] = row
      /\ \A v \in Users \ {u} : users'[v] = users[v]
      BY <1>2, <1>3, <1>4, <1>5 DEF Stores
<1>7. MastersOf(users') = MastersOf(users) \ {u}
      BY <1>3, <1>4, <1>6 DEF MastersOf
<1>8. AInv'
      BY <1>1, <1>2, <1>4, <1>6, BootShape
<1>9. extra' = MastersOf(users') \ {configured} /\ configured \in MastersOf(users')
      BY <1>1, <1>2, <1>3, <1>7
<1>10. indexed => OneMaster(users')
       BY <1>7 DEF MInv, OneMaster
<1>11. extra' \subseteq Users
       BY <1>9 DEF MastersOf
<1>12. CASE extra' = {}
       <2>1. MastersOf(users') = {configured} /\ phase' = "serving"
             BY <1>1, <1>9, <1>12
       <2> QED BY <1>1, <1>8, <1>10, <1>11, <2>1, ServerStarts
<1>13. CASE extra' # {}
       BY <1>1, <1>8, <1>9, <1>10, <1>11, <1>13
          DEF MInv, BTypeOK, AInv, BootProgress, OnlyConfigured, Booting, Phases
<1> QED BY <1>12, <1>13

LEMMA StopKeeps ==
    ASSUME MInv, Stop
    PROVE  MInv'
<1>1. /\ phase' = "down" /\ UNCHANGED <<users, indexed, configured, extra>> /\ AInv'
      /\ \A w \in Workers : req'[w].at = "idle"
      BY CrashShape DEF Stop, MInv, Idle
<1> QED BY <1>1 DEF MInv, BTypeOK, AInv, BootProgress, OnlyConfigured, OneMaster, Booting, Phases

LEMMA ServeKeeps ==
    ASSUME MInv, Serve
    PROVE  MInv'
<1>1. /\ phase = "serving" /\ UNCHANGED <<phase, configured, extra>> /\ AInv' /\ ServedMasters
      BY ServeStep DEF Serve, MInv
<1>2. indexed' => OneMaster(users')
      BY <1>1 DEF ServedMasters, MInv, OneMaster
<1>3. OnlyConfigured'
      BY <1>1 DEF ServedMasters, MInv, OnlyConfigured
<1> QED BY <1>1, <1>2, <1>3 DEF MInv, BTypeOK, AInv, BootProgress, Booting

LEMMA MInvKept ==
    ASSUME MInv, [BNext]_bvars
    PROVE  /\ MInv'
           /\ phase # "serving" /\ phase' = "serving" /\ configured # None
                => MastersOf(users') = {configured}
<1>1. CASE UNCHANGED bvars
      BY <1>1 DEF bvars, vars, MInv, BTypeOK, TypeOK, AInv, WellFormed, Updating, BootProgress,
                  OnlyConfigured, OneMaster, CarriesMaster
<1>2. ASSUME NEW m \in Masters, Start(m)
      PROVE  MInv' /\ phase' # "serving"
      BY <1>2, StartKeeps DEF Start
<1>3. CASE Migrate
      BY <1>3, MigrateKeeps
<1>4. CASE Lookup
      BY <1>4, LookupKeeps DEF Lookup
<1>5. CASE CreateMaster \/ PromoteMaster
      BY <1>5, CreateMasterKeeps, PromoteMasterKeeps
<1>6. CASE ListUsers \/ \E u \in extra : DemoteExtra(u)
      BY <1>6, ListUsersKeeps, DemoteExtraKeeps
<1>7. CASE BootFails
      BY <1>7, GivesUp DEF BootFails, Booting
<1>8. CASE Stop
      BY <1>8, StopKeeps DEF Stop
<1>9. CASE Serve
      BY <1>9, ServeKeeps DEF Serve
<1> QED BY <1>1, <1>2, <1>3, <1>4, <1>5, <1>6, <1>7, <1>8, <1>9 DEF BNext

LEMMA MInvHolds == BSpec => []MInv
<1>1. MInv /\ [BNext]_bvars => MInv'
      BY MInvKept
<1> QED BY MInvInit, <1>1, PTL DEF BSpec

(* From the unique index on there is never a second master, through any    *)
(* number of starts with other configurations.                             *)
THEOREM NeverTwoMasters == BSpec => []AtMostOneMaster
<1>1. ASSUME MInv PROVE AtMostOneMaster
      <2>1. CASE MastersOf(users) = {}
            BY <2>1, FS_EmptySet DEF AtMostOneMaster
      <2>2. CASE \E u : indexed /\ MastersOf(users) = {u}
            BY <2>2, FS_Singleton DEF AtMostOneMaster
      <2>3. CASE ~indexed
            BY <2>3 DEF AtMostOneMaster
      <2>4. indexed /\ MastersOf(users) # {} => \E u : MastersOf(users) = {u}
            BY <1>1 DEF MInv, OneMaster
      <2> QED BY <2>1, <2>2, <2>3, <2>4 DEF MInv, AInv, TypeOK
<1> QED BY <1>1, MInvHolds, PTL

(* While the server runs only the configured user may be master, although  *)
(* a reset can write the role back from a row it read before.              *)
THEOREM OthersAreNoMasters == BSpec => []OnlyConfiguredMaster
<1>1. MInv => OnlyConfiguredMaster
      BY DEF MInv, OnlyConfigured, OnlyConfiguredMaster
<1> QED BY <1>1, MInvHolds, PTL

(* ensureMasterAdmin leaves exactly the configured user in the role.       *)
THEOREM StartsEstablishTheMaster == BSpec => BootEstablishesMaster
<1> DEFINE Established ==
        phase # "serving" /\ phase' = "serving" /\ configured # None
        => MastersOf(users') = {configured}
<1>1. MInv /\ [BNext]_bvars => [Established]_bvars
      BY MInvKept
<1> QED BY <1>1, MInvHolds, PTL DEF BSpec, BootEstablishesMaster
=============================================================================
