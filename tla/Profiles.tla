------------------------------ MODULE Profiles ------------------------------
(***************************************************************************)
(* The o2ul_user_profiles table of the API process and the handlers that   *)
(* write it: init, profile patch, background, sign-in synchronisation and  *)
(* deletion.                                                               *)
(*                                                                         *)
(* No handler writes a column: each reads the whole row, changes what it   *)
(* is about, and writes the whole row back, so a request is two calls, Get *)
(* and Upsert, and others run in between.  All of them drop the error of   *)
(* the read: a read that fails for whatever reason looks like a missing    *)
(* row.  Five of the eighteen columns stand for the rest: username and bg  *)
(* for what patches set, online for the presence columns, beta for the     *)
(* flags only the backfill sets, created for the times.                    *)
(***************************************************************************)
EXTENDS Requests

CONSTANTS
    Registered,   \* players with a row in the users table
    Names,        \* nonempty usernames and background URLs
    UserName,     \* user -> username in the users table
    Payloads,     \* the usernames and URLs clients send
    PatchInputs   \* the patches clients send

Empty   == ""
Texts   == Names \cup {Empty}
Columns == {"username", "bg"}
Patches == UNION {[S -> Texts] : S \in SUBSET Columns}

ASSUME ProfilesAssumption ==
    /\ Registered \subseteq Users
    /\ Empty \notin Names
    /\ UserName \in [Users -> Names]
    /\ Payloads \subseteq Texts /\ PatchInputs \subseteq Patches

Profile == [username : Texts, bg : Texts, online : BOOLEAN, beta : BOOLEAN,
            created : 0..MaxTime]

ZeroProfile == [username |-> Empty, bg |-> Empty, online |-> FALSE,
                beta |-> FALSE, created |-> 0]

ASSUME NoneIsNoProfile == None \notin Profile \cup Users

VARIABLES
    profiles,   \* the table: user -> row, or None
    preq,       \* what each worker is doing
    acked,      \* user -> what the answered requests of the user amount to
    disturbed   \* users one of whose writes lost its read, or ran over another

profileVars == <<profiles, preq, acked, disturbed>>

(* A request names its next call.  patch holds the columns it sets; text   *)
(* is the payload of init, the action of sync.  lost: its read failed.     *)
(* stale: the row has been written since its read.                         *)
Operations == {"patch", "init", "sync"}
Actions    == {"signIn", "signOut", "other"}
PRequest   == [at : {"user", "get", "upsert"}, op : Operations, user : Users,
               patch : Patches, text : Texts \cup Actions, time : 0..MaxTime,
               row : Profile, lost : BOOLEAN, stale : BOOLEAN]

ProfilesTypeOK ==
    /\ profiles \in [Users -> Profile \cup {None}]
    /\ preq \in [Workers -> PRequest \cup {None}]
    /\ acked \in [Users -> Profile]
    /\ disturbed \subseteq Users

ProfilesInit ==
    /\ profiles = [u \in Users |-> None]
    /\ preq = [w \in Workers |-> None]
    /\ acked = [u \in Users |-> ZeroProfile]
    /\ disturbed = {}

-----------------------------------------------------------------------------
firstNonEmpty(a, b) == IF a # Empty THEN a ELSE b

(* What GetByPlayerID hands to a service that ignores its error.           *)
RowRead(u, fails) == IF fails \/ profiles[u] = None THEN ZeroProfile ELSE profiles[u]

CreatedBy(row, time) ==
    [row EXCEPT !.created = IF @ = 0 THEN time ELSE @]

(* Mutant of applyProfilePatch: columns the payload lacks are cleared.     *)
PatchOverwrites(row, patch) ==
    Overwrite(row, [c \in Columns |-> IF c \in DOMAIN patch THEN patch[c] ELSE Empty])

applyProfilePatch(row, patch) == Overwrite(row, patch)

(* InitUser: a row that could be read is only marked online; any error of  *)
(* the read makes a new profile.                                           *)
InitUser(row, found, text, time) ==
    IF found THEN [row EXCEPT !.online = TRUE]
    ELSE [ZeroProfile EXCEPT !.username = text, !.online = TRUE, !.created = time]

SyncProfile(row, u, action, time) ==
    [CreatedBy(row, time) EXCEPT !.username = firstNonEmpty(@, UserName[u]),
                                 !.online = action = "signIn"]

Changed(r, fails) ==
    LET row == RowRead(r.user, fails) IN
    CASE r.op = "patch" -> CreatedBy(applyProfilePatch(row, r.patch), now)
      [] r.op = "init"  -> InitUser(row, ~fails /\ profiles[r.user] # None, r.text, now)
      [] r.op = "sync"  -> SyncProfile(row, r.user, r.text, now)

-----------------------------------------------------------------------------
PIdle(w) == preq[w] = None

Ask(w, at, op, u, patch, text) ==
    /\ PIdle(w)
    /\ preq' = [preq EXCEPT ![w] =
           [at |-> at, op |-> op, user |-> u, patch |-> patch, text |-> text,
            time |-> 0, row |-> ZeroProfile, lost |-> FALSE, stale |-> FALSE]]
    /\ UNCHANGED <<profiles, acked, disturbed>>

(* The handlers: the caller is the player of an access token.              *)
UpdateProfile(w, u) ==
    \E patch \in PatchInputs : Ask(w, "get", "patch", u, patch, Empty)

UpdateBackground(w, u) ==
    \E url \in Payloads : Ask(w, "get", "patch", u, [bg |-> url], Empty)

HandleInit(w, u) ==
    \E name \in Payloads : Ask(w, "get", "init", u, << >>, name)

HandleSync(w, u) ==
    \E action \in Actions : Ask(w, "user", "sync", u, << >>, action)

(* SyncProfile first needs the row of the users table.                     *)
ReadUser(w) ==
    /\ ~PIdle(w) /\ preq[w].at = "user"
    /\ preq' = [preq EXCEPT ![w].at = "get"]
    /\ UNCHANGED <<profiles, acked, disturbed>>

(* The read and what the service makes of it.  An unknown sync action ends *)
(* here with an error.                                                     *)
GetByPlayerID(w) ==
    /\ ~PIdle(w) /\ preq[w].at = "get"
    /\ \E fails \in BOOLEAN :
           preq' = [preq EXCEPT ![w] =
               IF @.op = "sync" /\ @.text = "other" THEN None
               ELSE [@ EXCEPT !.at = "upsert", !.time = now, !.lost = fails,
                              !.row = Changed(preq[w], fails)]]
    /\ UNCHANGED <<profiles, acked, disturbed>>

(* Requests about to write back a row of u that has just changed.          *)
Overrun(reqs, u) ==
    [v \in Workers |->
        IF reqs[v] # None /\ reqs[v].user = u /\ reqs[v].at = "upsert"
          THEN [reqs[v] EXCEPT !.stale = TRUE] ELSE reqs[v]]

(* What the answer of r tells its user, said without the row r wrote, and  *)
(* the time of creation if there was no row before, or none in the row:    *)
(* init alone leaves that one as it is.                                    *)
Answer(r, old, before) ==
    CASE r.op = "patch" -> Overwrite(old, r.patch)
      [] r.op = "init"  -> [old EXCEPT !.online = TRUE,
                                       !.username = IF before = None THEN r.text ELSE @]
      [] r.op = "sync"  -> [old EXCEPT !.online = r.text = "signIn"]

Told(r, old, before) ==
    [Answer(r, old, before) EXCEPT !.created =
        IF before = None \/ (old.created = 0 /\ r.op # "init") THEN r.time ELSE @]

Upsert(w) ==
    /\ ~PIdle(w) /\ preq[w].at = "upsert"
    /\ LET r == preq[w] IN
       /\ profiles' = [profiles EXCEPT ![r.user] = r.row]
       /\ preq' = Overrun([preq EXCEPT ![w] = None], r.user)
       /\ disturbed' = IF r.lost \/ r.stale THEN disturbed \cup {r.user} ELSE disturbed
       /\ acked' = [acked EXCEPT ![r.user] =
             IF r.user \in disturbed' THEN ZeroProfile
             ELSE Told(r, @, profiles[r.user])]

(* The users table cannot be read, the write fails, or the process dies.   *)
PFail(w) ==
    /\ ~PIdle(w) /\ preq[w].at \in {"user", "upsert"}
    /\ preq' = [preq EXCEPT ![w] = None]
    /\ UNCHANGED <<profiles, acked, disturbed>>

DeletePlatformData(u) ==
    /\ profiles' = [profiles EXCEPT ![u] = None]
    /\ preq' = Overrun(preq, u)
    /\ acked' = [acked EXCEPT ![u] = ZeroProfile]
    /\ disturbed' = disturbed \ {u}

ProfilesNext ==
    \/ \E w \in Workers, u \in Registered :
           \/ UpdateProfile(w, u) \/ UpdateBackground(w, u)
           \/ HandleInit(w, u)    \/ HandleSync(w, u)
    \/ \E w \in Workers : ReadUser(w) \/ GetByPlayerID(w) \/ Upsert(w) \/ PFail(w)
    \/ \E u \in Registered : DeletePlatformData(u)

ProfilesSpec ==
    /\ ClockInit /\ ProfilesInit
    /\ [][\/ ProfilesNext /\ UNCHANGED now
          \/ Tick /\ UNCHANGED profileVars]_<<now, profileVars>>

-----------------------------------------------------------------------------
(* What the read handlers answer.  They, too, ignore the error of a read   *)
(* that fails, and answer as for a player without a profile.               *)
GetPublic(u, fails) ==
    LET row == RowRead(u, fails) IN
    [username |-> firstNonEmpty(row.username, UserName[u]), bg |-> row.bg,
     online |-> row.online]

GetCurrent(u, fails) ==
    LET row == RowRead(u, fails) IN
    [username |-> firstNonEmpty(row.username, UserName[u]), bg |-> row.bg,
     online |-> row.online]

Viewer(u, fails) ==
    LET row == RowRead(u, fails) IN
    [username |-> firstNonEmpty(row.username, UserName[u]),
     online |-> row.online, beta |-> row.beta]

(* Players without a row are anonymous, and offline.                       *)
BatchProfiles(ids) ==
    [u \in ids |-> IF profiles[u] = None THEN [ZeroProfile EXCEPT !.username = "anonymous"]
                                         ELSE profiles[u]]

(* The reader of a profile sees what the answered requests of its user     *)
(* amount to since the profile was created, deleted or imported: a sign    *)
(* in, a background or a patch never undoes an earlier one, nothing of a   *)
(* deleted profile comes back, and the time of creation stays - unless a   *)
(* request took a failed read for a missing row, or wrote back a row that  *)
(* had changed since it was read.  A reader whose own read fails sees an   *)
(* empty profile under the name of the users table, and nothing else.      *)
AnswersKept ==
    \A u \in Users \ disturbed :
        LET told   == acked[u]
            listed == BatchProfiles({u})[u]
            seen(fails) == IF fails THEN ZeroProfile ELSE told
        IN  /\ \A fails \in BOOLEAN :
                  /\ GetPublic(u, fails) =
                         [username |-> firstNonEmpty(seen(fails).username, UserName[u]),
                          bg |-> seen(fails).bg, online |-> seen(fails).online]
                  /\ GetCurrent(u, fails) = GetPublic(u, fails)
                  /\ Viewer(u, fails).beta = seen(fails).beta
            /\ listed = [told EXCEPT !.username = listed.username]
=============================================================================
