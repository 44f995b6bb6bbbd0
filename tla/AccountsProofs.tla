--------------------------- MODULE AccountsProofs ---------------------------
(***************************************************************************)
(* For every set of users, passwords, tokens, workers and every bound on   *)
(* sessions: the types of Accounts and its history, and the provenance of  *)
(* roles and passwords.  The inductive invariant is IInv of                *)
(* AccountsProvenance: the two provenance invariants speak of the store    *)
(* and the sessions only, and a step that writes the store takes what it   *)
(* writes from a request, so the requests in flight are covered too        *)
(* (PendingProvenance).                                                    *)
(***************************************************************************)
EXTENDS AccountsProvenance, TLAPS

-----------------------------------------------------------------------------
(* Normalising a known role gives a canonical one.                         *)
LEMMA NormalizeRoleType ==
    ASSUME NEW role, IsValidRole(role)
    PROVE  /\ NormalizeRole(role) \in CanonicalRoles
           /\ role \in RoleNames
    BY DEF IsValidRole, NormalizeRole, roleAliases, CanonicalRoles, RoleNames, RoleAliases

LEMMA NormalizeRoleIdempotent ==
    ASSUME NEW role \in RoleNames
    PROVE  /\ NormalizeRole(role) \in CanonicalRoles
           /\ NormalizeRole(NormalizeRole(role)) = NormalizeRole(role)
    BY DEF NormalizeRole, roleAliases, CanonicalRoles, RoleNames, RoleAliases

LEMMA NormalizeCanonical ==
    ASSUME NEW role \in CanonicalRoles
    PROVE  NormalizeRole(role) = role
    BY DEF NormalizeRole, roleAliases, CanonicalRoles

(* Nobody hands out a role as high as the own one: CanAssignRole is strict *)
(* in the priorities.                                                      *)
THEOREM AssignersOutrank ==
    ASSUME NEW assigner, NEW target, CanAssignRole(assigner, target)
    PROVE  /\ Priority(assigner) > Priority(target)
           /\ Priority(assigner) >= Priority("moderator")
           /\ NormalizeRole(target) \notin {"master_admin", "guest"}
<1>1. /\ NormalizeRole(target) \in DOMAIN AssignersOf
      /\ NormalizeRole(assigner) \in AssignersOf[NormalizeRole(target)]
      BY DEF CanAssignRole
<1>2. NormalizeRole("moderator") = "moderator"
      BY DEF NormalizeRole, roleAliases
<1> DEFINE a == NormalizeRole(assigner)
           b == NormalizeRole(target)
<1>3. /\ b \in {"admin", "sysop", "moderator", "subscriber", "registered"}
      /\ b = "admin" => a \in {"master_admin"}
      /\ b = "sysop" => a \in {"master_admin", "admin"}
      /\ b = "moderator" => a \in {"master_admin", "admin", "sysop"}
      /\ b \in {"subscriber", "registered"} =>
             a \in {"master_admin", "admin", "sysop", "moderator"}
      BY <1>1 DEF AssignersOf
<1>4. /\ rolePriority[a] > rolePriority[b]
      /\ rolePriority[a] >= rolePriority["moderator"]
      <2> HIDE DEF a, b
      <2> QED BY <1>3 DEF rolePriority
<1> QED BY <1>2, <1>3, <1>4 DEF Priority

(* Every role but guest ranks at least as high as registered.              *)
LEMMA RegisteredRank ==
    ASSUME NEW role, IsRegisteredUser(role)
    PROVE  Priority(role) >= Priority("registered")
<1> DEFINE a == NormalizeRole(role)
<1>1. a \in CanonicalRoles \ {"guest"}
      BY DEF IsRegisteredUser, IsValidRole
<1>2. NormalizeRole("registered") = "registered"
      BY DEF NormalizeRole, roleAliases
<1>3. rolePriority[a] >= rolePriority["registered"]
      <2> HIDE DEF a
      <2> QED BY <1>1 DEF rolePriority, CanonicalRoles
<1> QED BY <1>2, <1>3 DEF Priority

-----------------------------------------------------------------------------
(* Types of what the actions write.                                        *)
LEMMA IdleType == Idle \in Request /\ Accounted(Idle)
    BY DEF Idle, Request, Calls, Accounted

LEMMA StartUpdateType ==
    ASSUME NEW u \in Users, NEW role \in CanonicalRoles \cup {None},
           NEW pw \in Passwords \cup {None}, NEW t \in Tokens \cup {None}
    PROVE  [Idle EXCEPT !.at = "getRow", !.user = u, !.role = role,
                        !.pw = pw, !.token = t] \in Request
    BY DEF Idle, Request, Calls

LEMMA InitIInv == HInit => IInv
<1> SUFFICES ASSUME HInit PROVE IInv OBVIOUS
<1>1. TypeOK
      BY AccountsAssumption, IdleType DEF HInit, Init, TypeOK
<1>2. granted \in [Users -> SUBSET CanonicalRoles] /\ RoleProvenance
      BY <1>1, NormalizeRoleIdempotent
      DEF HInit, Init, TypeOK, Stores, Row, StoredRole, RoleProvenance
<1>3. chosen \in [Users -> SUBSET Passwords] /\ PasswordProvenance
      BY <1>1 DEF HInit, Init, TypeOK, Stores, Row, StoredPw, PasswordProvenance
<1>4. PendingProvenance
      BY IdleType DEF HInit, Init, PendingProvenance
<1> QED BY <1>1, <1>2, <1>3, <1>4 DEF IInv, HTypeOK

-----------------------------------------------------------------------------
(* What a request in flight relies on only grows.                          *)
Grows ==
    /\ \A u \in Users : granted[u] \subseteq granted'[u]
    /\ \A u \in Users : chosen[u] \subseteq chosen'[u]
    /\ \A t \in Tokens : resetTokens[t] # None => resetTokens'[t] # None

(* A step that gives at most one worker a new request, typed and accounted *)
(* for, keeps all requests typed and accounted for.                        *)
LEMMA PendingKept ==
    ASSUME TypeOK, PendingProvenance, Grows,
           NEW w \in Workers, NEW r \in Request,
           req' = [req EXCEPT ![w] = r],
           Accounted(req[w])'
    PROVE  req' \in [Workers -> Request] /\ PendingProvenance'
<1>1. req' \in [Workers -> Request]
      BY DEF TypeOK
<1>2. ASSUME NEW v \in Workers, v # w PROVE Accounted(req[v])'
      <2>1. req'[v] = req[v] /\ req[v] \in Request
            BY <1>2 DEF TypeOK
      <2>2. Accounted(req[v])
            BY DEF PendingProvenance
      <2>3. req[v].user # None => req[v].user \in Users
            BY <2>1 DEF Request
      <2>4. req[v].token # None => req[v].token \in Tokens
            BY <2>1 DEF Request
      <2> QED BY <2>1, <2>2, <2>3, <2>4 DEF Accounted, Grows, Request
<1>3. Accounted(req[w])'
      OBVIOUS
<1> QED BY <1>1, <1>2, <1>3 DEF PendingProvenance

-----------------------------------------------------------------------------
(* The steps that decide a role or a password.                             *)
LEMMA RegisterIInv ==
    ASSUME IInv, NEW u \in Users, NEW p \in Passwords, NEW r \in RequestedRoles,
           HRegister(u, p, r)
    PROVE  IInv'
<1> USE DEF IInv, HTypeOK, TypeOK
<1>1. NormalizeRole(r) = "registered" /\ "registered" \in CanonicalRoles
      BY DEF HRegister, Register, CanonicalRoles
<1>2. users' = [users EXCEPT ![u] = [role |-> "registered", pw |-> p]]
      BY <1>1 DEF HRegister, Register, CreateRow
<1>3. /\ granted' = [granted EXCEPT ![u] = @ \cup {"registered"}]
      /\ chosen' = [chosen EXCEPT ![u] = @ \cup {p}]
      BY DEF HRegister, Grant, Choose
<1>4. sessions' = sessions \cup {[user |-> u, role |-> "registered"]}
      BY <1>1 DEF HRegister, Register, Issue
<1>5. UNCHANGED <<resetTokens, mailed, req, indexed>>
      BY DEF HRegister, Register
<1>6. NormalizeRole("registered") = "registered"
      BY <1>1, NormalizeCanonical
<1>7. HTypeOK'
      BY <1>1, <1>2, <1>3, <1>4, <1>5
      DEF Stores, Row, Session, RoleNames
<1>8. RoleProvenance'
      BY <1>2, <1>3, <1>4, <1>6 DEF RoleProvenance, Stores, Row, Session
<1>9. PasswordProvenance'
      BY <1>2, <1>3 DEF PasswordProvenance, Stores, Row
<1>10. Grows
      BY <1>3, <1>5 DEF Grows
<1>11. PendingProvenance'
      <2> SUFFICES ASSUME NEW w \in Workers PROVE Accounted(req[w])'
          BY DEF PendingProvenance
      <2>1. Accounted(req[w]) /\ req[w] \in Request
            BY DEF PendingProvenance
      <2> QED BY <1>5, <1>10, <2>1 DEF Accounted, Grows, Request
<1> QED BY <1>7, <1>8, <1>9, <1>11

LEMMA RequestRoleIInv ==
    ASSUME IInv, NEW w \in Workers, NEW s \in sessions, NEW u \in Users,
           NEW r \in RequestedRoles, HRequestRole(w, s, u, r)
    PROVE  IInv'
<1> USE DEF IInv, HTypeOK
<1> DEFINE role == NormalizeRole(r)
           next == [Idle EXCEPT !.at = "getRow", !.user = u, !.role = role,
                                !.pw = None, !.token = None]
<1>1. role \in CanonicalRoles
      BY NormalizeRoleType DEF HRequestRole, RequestRole
<1>2. Outranks(s, r)
      BY AssignersOutrank DEF HRequestRole, RequestRole, Outranks
<1>3. granted' = [granted EXCEPT ![u] = @ \cup {role}] /\ chosen' = chosen
      BY <1>2 DEF HRequestRole, Grant
<1>4. UNCHANGED <<users, resetTokens, mailed, sessions, indexed>>
      BY DEF HRequestRole, RequestRole
<1>5. req' = [req EXCEPT ![w] = next]
      BY DEF HRequestRole, RequestRole, StartUpdate, Continue
<1>6. next \in Request
      BY <1>1, StartUpdateType
<1>7. Grows
      BY <1>3, <1>4 DEF Grows
<1>8. Accounted(req[w])'
      <2>1. req'[w] = next /\ next.at = "getRow" /\ next.user = u
            /\ next.role = role /\ next.pw = None
            BY <1>5 DEF TypeOK, Idle
      <2>2. role \in granted'[u]
            BY <1>3
      <2> QED BY <1>1, <2>1, <2>2, AccountsAssumption
              DEF Accounted, CanonicalRoles, RoleNames
<1>9. req' \in [Workers -> Request] /\ PendingProvenance'
      <2> HIDE DEF next
      <2> QED BY <1>5, <1>6, <1>7, <1>8, PendingKept
<1>10. HTypeOK'
      BY <1>1, <1>3, <1>4, <1>9 DEF TypeOK
<1>11. RoleProvenance' /\ PasswordProvenance'
      BY <1>3, <1>4 DEF RoleProvenance, PasswordProvenance, TypeOK, Session
<1> QED BY <1>9, <1>10, <1>11

LEMMA WebhookIInv ==
    ASSUME IInv, NEW w \in Workers, NEW u \in Users, HWebhook(w, u)
    PROVE  IInv'
<1> USE DEF IInv, HTypeOK
<1> DEFINE next == [Idle EXCEPT !.at = "getRow", !.user = u,
                                !.role = "subscriber", !.pw = None, !.token = None]
<1>1. "subscriber" \in CanonicalRoles
      BY DEF CanonicalRoles
<1>2. Priority(users[u].role) >= Priority("registered")
      BY RegisteredRank DEF HWebhook, Webhook
<1>3. granted' = [granted EXCEPT ![u] = @ \cup {"subscriber"}] /\ chosen' = chosen
      BY <1>2 DEF HWebhook, Grant
<1>4. UNCHANGED <<users, resetTokens, mailed, sessions, indexed>>
      BY DEF HWebhook, Webhook
<1>5. req' = [req EXCEPT ![w] = next]
      BY DEF HWebhook, Webhook, StartUpdate, Continue
<1>6. next \in Request
      BY <1>1, StartUpdateType
<1>7. Grows
      BY <1>3, <1>4 DEF Grows
<1>8. Accounted(req[w])'
      <2>1. req'[w] = next /\ next.at = "getRow" /\ next.user = u
            /\ next.role = "subscriber" /\ next.pw = None
            BY <1>5 DEF TypeOK, Idle
      <2>2. "subscriber" \in granted'[u]
            BY <1>3
      <2> QED BY <1>1, <2>1, <2>2, AccountsAssumption
              DEF Accounted, CanonicalRoles, RoleNames
<1>9. req' \in [Workers -> Request] /\ PendingProvenance'
      <2> HIDE DEF next
      <2> QED BY <1>5, <1>6, <1>7, <1>8, PendingKept
<1>10. HTypeOK'
      BY <1>1, <1>3, <1>4, <1>9 DEF TypeOK
<1>11. RoleProvenance' /\ PasswordProvenance'
      BY <1>3, <1>4 DEF RoleProvenance, PasswordProvenance, TypeOK, Session
<1> QED BY <1>9, <1>10, <1>11

LEMMA ResetPasswordIInv ==
    ASSUME IInv, NEW w \in Workers, NEW t \in Tokens, NEW p \in Passwords,
           HResetPassword(w, t, p)
    PROVE  IInv'
<1> USE DEF IInv, HTypeOK
<1> DEFINE u == resetTokens[t].user
           next == [Idle EXCEPT !.at = "getRow", !.user = u, !.role = None,
                                !.pw = p, !.token = t]
<1>1. resetTokens[t] # None /\ u \in Users
      BY DEF HResetPassword, ResetPassword, ValidToken, TypeOK, ResetToken
<1>2. t \in mailed /\ ~resetTokens[t].used /\ resetTokens[t].live
      BY DEF HResetPassword, ResetPassword, ValidToken
<1>3. chosen' = [chosen EXCEPT ![u] = @ \cup {p}] /\ granted' = granted
      BY <1>2 DEF HResetPassword, Choose
<1>4. UNCHANGED <<users, resetTokens, mailed, sessions, indexed>>
      BY DEF HResetPassword, ResetPassword
<1>5. req' = [req EXCEPT ![w] = next]
      BY DEF HResetPassword, ResetPassword, StartUpdate, Continue
<1>6. next \in Request
      BY <1>1, StartUpdateType
<1>7. Grows
      BY <1>1, <1>3, <1>4 DEF Grows
<1>8. Accounted(req[w])'
      <2>1. req'[w] = next /\ next.at = "getRow" /\ next.user = u
            /\ next.pw = p /\ next.token = t
            BY <1>5 DEF TypeOK, Idle
      <2>2. p \in chosen'[u]
            BY <1>1, <1>3
      <2>3. p # None /\ t # None /\ u # None
            BY <1>1, AccountsAssumption
      <2>4. resetTokens'[t] # None
            BY <1>1, <1>4
      <2> HIDE DEF next, u
      <2> QED BY <2>1, <2>2, <2>3, <2>4 DEF Accounted
<1>9. req' \in [Workers -> Request] /\ PendingProvenance'
      <2> HIDE DEF next
      <2> QED BY <1>5, <1>6, <1>7, <1>8, PendingKept
<1>10. HTypeOK'
      BY <1>1, <1>3, <1>4, <1>9 DEF TypeOK
<1>11. RoleProvenance' /\ PasswordProvenance'
      BY <1>1, <1>3, <1>4 DEF RoleProvenance, PasswordProvenance, TypeOK, Session
<1> QED BY <1>9, <1>10, <1>11

-----------------------------------------------------------------------------
(* The steps that decide nothing.                                          *)
LEMMA SessionIInv ==
    ASSUME IInv, NEW u \in Users, users[u] # None,
           sessions' \subseteq sessions \cup {[user |-> u, role |-> users[u].role]},
           UNCHANGED <<users, resetTokens, mailed, req, granted, chosen, indexed>>
    PROVE  IInv'
<1> USE DEF IInv, HTypeOK
<1>1. users[u].role \in RoleNames
      BY DEF TypeOK, Stores, Row
<1>2. HTypeOK'
      BY <1>1 DEF TypeOK, Session
<1>3. RoleProvenance' /\ PasswordProvenance'
      BY DEF RoleProvenance, PasswordProvenance
<1>4. PendingProvenance'
      BY DEF PendingProvenance, Accounted
<1> QED BY <1>2, <1>3, <1>4

LEMMA GetRowIInv ==
    ASSUME IInv, NEW w \in Workers, GetRow(w), UNCHANGED <<granted, chosen>>
    PROVE  IInv'
<1> USE DEF IInv, HTypeOK
<1> DEFINE r == req[w]
           next == [r EXCEPT !.at = "setRow", !.row = users[r.user]]
<1>1. /\ r \in Request
      /\ r.at = "getRow"
      /\ Accounted(r)
      BY DEF GetRow, TypeOK, PendingProvenance
<1>2. r.user \in Users /\ users[r.user] # None
      BY <1>1 DEF GetRow, Accounted, Request
<1>3. users[r.user] \in Row
      BY <1>2 DEF TypeOK, Stores
<1>4. UNCHANGED <<users, resetTokens, mailed, sessions, granted, chosen, indexed>>
      BY DEF GetRow
<1>5. req' = [req EXCEPT ![w] = next]
      BY DEF GetRow, Continue
<1>6. next \in Request
      BY <1>1, <1>3 DEF Request, Calls
<1>7. Grows
      BY <1>4 DEF Grows
<1>8. Accounted(req[w])'
      <2>1. req'[w] = next
            BY <1>5 DEF TypeOK
      <2>2. /\ NormalizeRole(users[r.user].role) \in granted[r.user]
            /\ users[r.user].pw \in chosen[r.user]
            BY <1>2 DEF RoleProvenance, PasswordProvenance
      <2>3. /\ next.at = "setRow" /\ next.row = users[r.user]
            /\ next.user = r.user /\ next.role = r.role
            /\ next.pw = r.pw /\ next.token = r.token
            BY <1>1 DEF Request
      <2> HIDE DEF next
      <2> QED BY <1>1, <1>2, <1>4, <2>1, <2>2, <2>3 DEF Accounted
<1>9. req' \in [Workers -> Request] /\ PendingProvenance'
      <2> HIDE DEF next
      <2> QED BY <1>5, <1>6, <1>7, <1>8, PendingKept
<1>10. HTypeOK'
      BY <1>4, <1>9 DEF TypeOK
<1>11. RoleProvenance' /\ PasswordProvenance'
      BY <1>4 DEF RoleProvenance, PasswordProvenance
<1> QED BY <1>9, <1>10, <1>11

(* The only write of an existing row: both columns come from the request,  *)
(* one decided, one read earlier.                                          *)
LEMMA SetRowIInv ==
    ASSUME IInv, NEW w \in Workers, SetRow(w), UNCHANGED <<granted, chosen>>
    PROVE  IInv'
<1> USE DEF IInv, HTypeOK
<1> DEFINE r == req[w]
           row == UpdatedRow(r)
           next == IF r.pw = None
                     THEN Idle ELSE [r EXCEPT !.at = "markUsed", !.row = None]
<1>1. /\ r \in Request
      /\ r.at = "setRow"
      /\ Accounted(r)
      BY DEF SetRow, TypeOK, PendingProvenance
<1>2. r.user \in Users /\ r.row \in Row
      BY <1>1 DEF Accounted, Request
<1>3. row \in Row
      /\ NormalizeRole(row.role) \in granted[r.user]
      /\ row.pw \in chosen[r.user]
      <2>1. CASE r.pw = None
            <3>1. r.role \in CanonicalRoles /\ r.role \in granted[r.user]
                  BY <1>1, <2>1 DEF Accounted, Request
            <3>2. row.role = r.role /\ row.pw = r.row.pw /\ row \in Row
                  BY <1>2, <2>1, <3>1 DEF UpdatedRow, Row, RoleNames
            <3>3. NormalizeRole(row.role) = r.role
                  BY <3>1, <3>2, NormalizeCanonical
            <3> QED BY <1>1, <3>1, <3>2, <3>3 DEF Accounted
      <2>2. CASE r.pw # None
            <3>1. r.pw \in Passwords /\ r.pw \in chosen[r.user]
                  BY <1>1, <2>2 DEF Accounted, Request
            <3>2. row.role = r.row.role /\ row.pw = r.pw /\ row \in Row
                  BY <1>2, <2>2, <3>1 DEF UpdatedRow, Row
            <3> QED BY <1>1, <3>1, <3>2 DEF Accounted
      <2> QED BY <2>1, <2>2
<1>4. /\ users' = [users EXCEPT ![r.user] = row]
      /\ UNCHANGED <<resetTokens, mailed, sessions, granted, chosen, indexed>>
      BY DEF SetRow
<1>5. req' = [req EXCEPT ![w] = next]
      BY DEF SetRow, Finish, Continue
<1>6. next \in Request
      BY <1>1, IdleType DEF Request, Calls
<1>7. Grows
      BY <1>4 DEF Grows
<1>8. Accounted(req[w])'
      <2>1. req'[w] = next
            BY <1>5 DEF TypeOK
      <2>2. CASE r.pw = None
            BY <2>1, <2>2 DEF Accounted, Idle
      <2>3. CASE r.pw # None
            <3>1. /\ next.at = "markUsed" /\ next.pw = r.pw
                  /\ next.token = r.token
                  BY <1>1, <2>3 DEF Request
            <3>2. r.token # None /\ resetTokens'[r.token] # None
                  BY <1>1, <1>4, <2>3 DEF Accounted
            <3> HIDE DEF next
            <3> QED BY <2>1, <2>3, <3>1, <3>2 DEF Accounted
      <2> QED BY <2>2, <2>3
<1>9. req' \in [Workers -> Request] /\ PendingProvenance'
      <2> HIDE DEF next
      <2> QED BY <1>5, <1>6, <1>7, <1>8, PendingKept
<1>10. HTypeOK'
      <2> HIDE DEF row
      <2> QED BY <1>2, <1>3, <1>4, <1>9 DEF TypeOK, Stores
<1>11. RoleProvenance' /\ PasswordProvenance'
      <2> HIDE DEF row
      <2> QED BY <1>2, <1>3, <1>4
              DEF RoleProvenance, PasswordProvenance, TypeOK, Stores
<1> QED BY <1>9, <1>10, <1>11

(* A step that leaves the store and the sessions alone and only moves one  *)
(* worker or the reset tokens.                                             *)
LEMMA TokensIInv ==
    ASSUME IInv,
           NEW w \in Workers, NEW r \in Request,
           req' = [req EXCEPT ![w] = r],
           Accounted(req[w])',
           resetTokens' \in [Tokens -> ResetToken \cup {None}],
           \A t \in Tokens : resetTokens[t] # None => resetTokens'[t] # None,
           mailed' \subseteq Tokens,
           UNCHANGED <<users, sessions, granted, chosen, indexed>>
    PROVE  IInv'
<1> USE DEF IInv, HTypeOK
<1>1. Grows
      BY DEF Grows
<1>2. req' \in [Workers -> Request] /\ PendingProvenance'
      BY <1>1, PendingKept
<1>3. HTypeOK'
      BY <1>2 DEF TypeOK
<1>4. RoleProvenance' /\ PasswordProvenance'
      BY DEF RoleProvenance, PasswordProvenance
<1> QED BY <1>2, <1>3, <1>4

LEMMA FinishIInv ==
    ASSUME IInv, NEW w \in Workers, Finish(w),
           resetTokens' \in [Tokens -> ResetToken \cup {None}],
           \A t \in Tokens : resetTokens[t] # None => resetTokens'[t] # None,
           mailed' \subseteq Tokens,
           UNCHANGED <<users, sessions, granted, chosen, indexed>>
    PROVE  IInv'
<1>1. req' = [req EXCEPT ![w] = Idle]
      BY DEF Finish, Continue
<1>2. req'[w] = Idle
      BY <1>1 DEF IInv, HTypeOK, TypeOK
<1>3. Accounted(req[w])'
      BY <1>2 DEF Accounted, Idle
<1> QED BY <1>1, <1>3, IdleType, TokensIInv

LEMMA ForgotPasswordIInv ==
    ASSUME IInv, NEW w \in Workers, NEW u \in Users, ForgotPassword(w, u),
           UNCHANGED <<granted, chosen>>
    PROVE  IInv'
<1> DEFINE next == [Idle EXCEPT !.at = "createToken", !.user = u]
<1>1. next \in Request
      BY DEF Idle, Request, Calls
<1>2. req' = [req EXCEPT ![w] = next]
      BY DEF ForgotPassword, Continue
<1>3. Accounted(req[w])'
      <2>1. req'[w] = next /\ u # None
            BY <1>2, AccountsAssumption DEF IInv, HTypeOK, TypeOK
      <2> QED BY <2>1 DEF Accounted, Idle
<1>4. UNCHANGED <<users, resetTokens, mailed, sessions, indexed>>
      BY DEF ForgotPassword
<1>5. resetTokens' \in [Tokens -> ResetToken \cup {None}] /\ mailed' \subseteq Tokens
      BY <1>4 DEF IInv, HTypeOK, TypeOK
<1> HIDE DEF next
<1> QED BY <1>1, <1>2, <1>3, <1>4, <1>5, TokensIInv

LEMMA CreateTokenIInv ==
    ASSUME IInv, NEW w \in Workers, NEW t \in Tokens, CreateToken(w, t),
           UNCHANGED <<granted, chosen>>
    PROVE  IInv'
<1> DEFINE r    == req[w]
           next == [r EXCEPT !.at = "sendMail", !.token = t]
           new  == [user |-> r.user, used |-> FALSE, live |-> TRUE]
<1>1. r \in Request /\ r.at = "createToken" /\ r.user \in Users
      BY DEF IInv, HTypeOK, TypeOK, CreateToken, PendingProvenance, Accounted, Request
<1>2. next \in Request
      BY <1>1 DEF Request, Calls
<1>3. req' = [req EXCEPT ![w] = next]
      BY DEF CreateToken, Continue
<1>4. Accounted(req[w])'
      <2>1. req'[w] = next /\ t # None
            BY <1>3, AccountsAssumption DEF IInv, HTypeOK, TypeOK
      <2>2. next.at = "sendMail" /\ next.token = t
            BY <1>1 DEF Request
      <2> HIDE DEF next
      <2> QED BY <2>1, <2>2 DEF Accounted
<1>5. resetTokens' = [resetTokens EXCEPT ![t] = new]
      BY DEF CreateToken
<1>6. new \in ResetToken /\ new # None
      <2>1. new \in ResetToken
            BY <1>1 DEF ResetToken
      <2> HIDE DEF new
      <2> QED BY <2>1, AccountsAssumption
<1>7. resetTokens' \in [Tokens -> ResetToken \cup {None}]
      /\ \A x \in Tokens : resetTokens[x] # None => resetTokens'[x] # None
      <2> HIDE DEF new
      <2> QED BY <1>5, <1>6 DEF IInv, HTypeOK, TypeOK
<1>8. UNCHANGED <<users, mailed, sessions, indexed>> /\ mailed' \subseteq Tokens
      BY DEF CreateToken, IInv, HTypeOK, TypeOK
<1> HIDE DEF next, new
<1> QED BY <1>2, <1>3, <1>4, <1>7, <1>8, TokensIInv

LEMMA SendMailIInv ==
    ASSUME IInv, NEW w \in Workers, SendMail(w), UNCHANGED <<granted, chosen>>
    PROVE  IInv'
<1>1. req[w].token \in Tokens
      BY DEF IInv, HTypeOK, TypeOK, SendMail, PendingProvenance, Accounted, Request
<1> QED BY <1>1, FinishIInv DEF IInv, HTypeOK, TypeOK, SendMail

LEMMA MarkUsedIInv ==
    ASSUME IInv, NEW w \in Workers, MarkUsed(w), UNCHANGED <<granted, chosen>>
    PROVE  IInv'
<1> DEFINE t == req[w].token
<1>1. t \in Tokens /\ resetTokens[t] \in ResetToken
      BY DEF IInv, HTypeOK, TypeOK, MarkUsed, PendingProvenance, Accounted, Request
<1>2. resetTokens' = [resetTokens EXCEPT ![t] = [resetTokens[t] EXCEPT !.used = TRUE]]
      BY DEF MarkUsed
<1>3. [resetTokens[t] EXCEPT !.used = TRUE] \in ResetToken
      BY <1>1 DEF ResetToken
<1>4. None \notin ResetToken
      BY AccountsAssumption
<1>5. resetTokens' \in [Tokens -> ResetToken \cup {None}]
      /\ \A x \in Tokens : resetTokens[x] # None => resetTokens'[x] # None
      BY <1>1, <1>2, <1>3, <1>4 DEF IInv, HTypeOK, TypeOK
<1>6. Finish(w) /\ UNCHANGED <<users, mailed, sessions, indexed>> /\ mailed' \subseteq Tokens
      BY DEF MarkUsed, IInv, HTypeOK, TypeOK
<1> QED BY <1>5, <1>6, FinishIInv

LEMMA ExpireTokenIInv ==
    ASSUME IInv, NEW t \in Tokens, ExpireToken(t), UNCHANGED <<granted, chosen>>
    PROVE  IInv'
<1> USE DEF IInv, HTypeOK
<1>1. resetTokens[t] \in ResetToken
      BY DEF TypeOK, ExpireToken
<1>2. resetTokens' = [resetTokens EXCEPT ![t] = [resetTokens[t] EXCEPT !.live = FALSE]]
      BY DEF ExpireToken
<1>3. [resetTokens[t] EXCEPT !.live = FALSE] \in ResetToken
      BY <1>1 DEF ResetToken
<1>4. None \notin ResetToken
      BY AccountsAssumption
<1>5. HTypeOK'
      BY <1>1, <1>2, <1>3 DEF TypeOK, ExpireToken
<1>6. \A x \in Tokens : resetTokens[x] # None => resetTokens'[x] # None
      BY <1>1, <1>2, <1>3, <1>4 DEF TypeOK
<1>7. RoleProvenance' /\ PasswordProvenance'
      BY DEF ExpireToken, RoleProvenance, PasswordProvenance
<1>8. PendingProvenance'
      <2> SUFFICES ASSUME NEW w \in Workers PROVE Accounted(req[w])'
          BY DEF PendingProvenance
      <2>1. Accounted(req[w]) /\ req[w] \in Request /\ req' = req
            BY DEF PendingProvenance, TypeOK, ExpireToken
      <2>2. req[w].token # None => req[w].token \in Tokens
            BY <2>1 DEF Request
      <2> QED BY <1>6, <2>1, <2>2 DEF Accounted
<1> QED BY <1>5, <1>7, <1>8

LEMMA CrashIInv ==
    ASSUME IInv, Crash, UNCHANGED <<granted, chosen>>
    PROVE  IInv'
<1> USE DEF IInv, HTypeOK
<1>1. HTypeOK'
      BY IdleType DEF Crash, TypeOK
<1>2. RoleProvenance' /\ PasswordProvenance'
      BY DEF Crash, RoleProvenance, PasswordProvenance
<1>3. PendingProvenance'
      BY DEF Crash, PendingProvenance, Accounted, Idle
<1> QED BY <1>1, <1>2, <1>3

-----------------------------------------------------------------------------
LEMMA UndecidedIInv ==
    ASSUME IInv, Undecided, UNCHANGED <<granted, chosen>>
    PROVE  IInv'
<1>1. ASSUME NEW u \in Users, NEW p \in Passwords, Login(u, p) PROVE IInv'
      BY <1>1, SessionIInv DEF Login, Issue
<1>2. ASSUME NEW s \in sessions, RefreshToken(s) PROVE IInv'
      <2>1. s.user \in Users
            BY DEF IInv, HTypeOK, TypeOK, Session
      <2> QED BY <1>2, <2>1, SessionIInv DEF RefreshToken, Issue
<1>3. ASSUME NEW s \in sessions, ExpireSession(s) PROVE IInv'
      <2> USE DEF IInv, HTypeOK
      <2>1. HTypeOK'
            BY <1>3 DEF ExpireSession, TypeOK
      <2>2. RoleProvenance' /\ PasswordProvenance'
            BY <1>3 DEF ExpireSession, RoleProvenance, PasswordProvenance
      <2>3. PendingProvenance'
            BY <1>3 DEF ExpireSession, PendingProvenance, Accounted
      <2> QED BY <2>1, <2>2, <2>3
<1>4. ASSUME NEW w \in Workers, Fail(w) PROVE IInv'
      BY <1>4, FinishIInv DEF Fail, IInv, HTypeOK, TypeOK
<1> QED BY <1>1, <1>2, <1>3, <1>4, ForgotPasswordIInv, CreateTokenIInv,
           GetRowIInv, SetRowIInv, SendMailIInv, MarkUsedIInv, ExpireTokenIInv,
           CrashIInv DEF Undecided

LEMMA NextIInv == IInv /\ [HNext]_hvars => IInv'
<1> SUFFICES ASSUME IInv, [HNext]_hvars PROVE IInv' OBVIOUS
<1>1. CASE UNCHANGED hvars
      <2> USE <1>1 DEF IInv, HTypeOK, hvars, vars
      <2>1. HTypeOK'
            BY DEF TypeOK
      <2>2. RoleProvenance' /\ PasswordProvenance'
            BY DEF RoleProvenance, PasswordProvenance
      <2>3. PendingProvenance'
            BY DEF PendingProvenance, Accounted
      <2> QED BY <2>1, <2>2, <2>3
<1>2. CASE HNext
      BY <1>2, RegisterIInv, RequestRoleIInv, WebhookIInv, ResetPasswordIInv,
         UndecidedIInv DEF HNext
<1> QED BY <1>1, <1>2

THEOREM InvariantHolds == HSpec => []IInv
BY InitIInv, NextIInv, PTL DEF HSpec

(* Every variable of Accounts and of its history keeps its type.           *)
THEOREM TypesHold == HSpec => []HTypeOK
<1>1. IInv => HTypeOK
      BY DEF IInv
<1> QED BY <1>1, InvariantHolds, PTL

(* No interleaving of role requests, payments, resets, failures and        *)
(* restarts gives a user a role, in the store or in an access token, that  *)
(* the user was never entitled to.                                         *)
THEOREM RolesAreGranted == HSpec => []RoleProvenance
<1>1. IInv => RoleProvenance
      BY DEF IInv
<1> QED BY <1>1, InvariantHolds, PTL

(* Nor does one give an account a password its owner never chose.          *)
THEOREM PasswordsAreChosen == HSpec => []PasswordProvenance
<1>1. IInv => PasswordProvenance
      BY DEF IInv
<1> QED BY <1>1, InvariantHolds, PTL
=============================================================================
