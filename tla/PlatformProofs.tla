--------------------------- MODULE PlatformProofs ---------------------------
(***************************************************************************)
(* Theorems about the tables of the O2UL endpoints, for any players, any   *)
(* number of requests in flight and any bound of the clock.  Each table is *)
(* proved about by itself, under the steps of its own specification, and   *)
(* the platform is shown to take no other steps on it.                     *)
(***************************************************************************)
EXTENDS Platform, FiniteSetTheorems, FunctionTheorems, WellFoundedInduction, TLAPS

-----------------------------------------------------------------------------
(* Files                                                                   *)

FilesStep == \/ FilesNext /\ UNCHANGED now
             \/ Tick /\ UNCHANGED fileVars

(* A file that nobody asked to remove is in the table, unless its id was   *)
(* given twice, and no removal by its owner is under way; removals name    *)
(* ids that were given before.                                             *)
FilesHeld ==
    /\ \A w \in Workers : freq[w] # None => freq[w].id \in given
    /\ \A f \in owned :
          /\ f[1] \in given
          /\ f[1] \notin shared =>
                /\ files[f[1]] = f[2]
                /\ \A w \in Workers :
                       freq[w] # None /\ freq[w].id = f[1] =>
                           freq[w].at = "get" /\ freq[w].user # f[2].user

FilesInv == now \in Times /\ FilesTypeOK /\ FilesHeld

LEMMA ClockStarts == ClockInit => now \in Times
BY RequestsAssumption DEF ClockInit, Times

LEMMA ClockTicks == Tick /\ now \in Times => now' \in Times
BY RequestsAssumption DEF Tick, Times

LEMMA FilesInitInv == ClockInit /\ FilesInit => FilesInv
BY ClockStarts DEF FilesInit, FilesInv, FilesTypeOK, FilesHeld

LEMMA FilesNextInv ==
    ASSUME FilesInv, [FilesStep]_<<now, fileVars>>
    PROVE  FilesInv'
<1> USE DEF FilesInv, FilesTypeOK, FilesHeld
<1>1. ASSUME NEW u \in Users, NEW h \in Hashes, AddFile(u, h), UNCHANGED now
      PROVE  FilesInv'
      <2> DEFINE row == [user |-> u, md5 |-> h]
      <2>1. row \in FileRow
            BY DEF FileRow
      <2>2. /\ files' = [files EXCEPT ![now] = row]
            /\ owned' = owned \cup {<<now, row>>}
            /\ given' = given \cup {now}
            /\ shared' = shared \cup (given \cap {now})
            /\ UNCHANGED freq
            BY <1>1 DEF AddFile
      <2>3. FilesTypeOK'
            BY <1>1, <2>1, <2>2
      <2>4. FilesHeld'
            BY <1>1, <2>1, <2>2
      <2> QED BY <1>1, <2>3, <2>4
<1>2. ASSUME NEW w \in Workers, NEW u \in Users, NEW id \in Times,
             HandleRemoveFile(w, u, id), UNCHANGED now
      PROVE  FilesInv'
      BY <1>2 DEF HandleRemoveFile, FRequest
<1>3. ASSUME NEW w \in Workers, RemoveFile(w), UNCHANGED now
      PROVE  FilesInv'
      <2>1. CASE freq' = [freq EXCEPT ![w] = None]
            BY <1>3, <2>1 DEF RemoveFile
      <2>2. CASE /\ MayRemove(freq[w].user, freq[w].id)
                 /\ freq' = [freq EXCEPT ![w].at = "delete"]
            BY <1>3, <2>2 DEF RemoveFile, MayRemove, FRequest
      <2> QED BY <1>3, <2>1, <2>2 DEF RemoveFile
<1>4. ASSUME NEW w \in Workers, DeleteFile(w), UNCHANGED now
      PROVE  FilesInv'
      BY <1>4 DEF DeleteFile, FRequest
<1>5. CASE Tick /\ UNCHANGED fileVars
      BY <1>5, ClockTicks DEF fileVars
<1>6. CASE UNCHANGED <<now, fileVars>>
      BY <1>6 DEF fileVars
<1> QED BY <1>1, <1>2, <1>3, <1>4, <1>5, <1>6 DEF FilesStep, FilesNext

LEMMA FilesInvKeeps == FilesInv => FilesKept
<1> SUFFICES ASSUME FilesInv, NEW f \in owned, f[1] \notin shared
             PROVE  /\ GetStorageID(f[2].user, f[1]) = f[2]
                    /\ f[1] \in GetFileByMD5(f[2].user, f[2].md5)
    BY DEF FilesKept
<1>1. f[1] \in Times /\ f[2] \in FileRow /\ files[f[1]] = f[2]
      BY DEF FilesInv, FilesTypeOK, FilesHeld
<1>2. f[2] = [user |-> f[2].user, md5 |-> f[2].md5]
      BY <1>1 DEF FileRow
<1> QED BY <1>1, <1>2, NoneIsNoFile DEF GetStorageID, MayRemove, GetFileByMD5

LEMMA FilesSpecInv == FilesSpec => []FilesInv
BY FilesInitInv, FilesNextInv, PTL DEF FilesSpec, FilesStep

(* The platform takes no other steps on the table of the files.            *)
THEOREM PlatformDoesFiles == PlatformSpec => FilesSpec
<1>1. PlatformInit => ClockInit /\ FilesInit
      BY DEF PlatformInit
<1>2. [PlatformNext]_platformVars => [FilesStep]_<<now, fileVars>>
      BY DEF PlatformNext, Handle, TimePasses, platformVars, FilesStep
<1> QED BY <1>1, <1>2, PTL DEF PlatformSpec, FilesSpec, FilesStep

(* Whatever removals overlap, a file stays with its owner until the owner  *)
(* asks to remove it.                                                      *)
THEOREM FilesStay == PlatformSpec => []FilesKept
BY FilesSpecInv, FilesInvKeeps, PlatformDoesFiles, PTL

-----------------------------------------------------------------------------
(* Presence                                                                *)

PresenceStep == \/ PresenceNext /\ UNCHANGED now
                \/ Tick /\ UNCHANGED presenceVars

(* The row of a user whose last write was not overtaken is the one that    *)
(* was heard.                                                              *)
RowsAreHeard ==
    \A u \in Users \ mixed :
        /\ presence[u] = None <=> heard[u] = None
        /\ heard[u] # None =>
               presence[u] = UpdatePresence(heard[u].status, heard[u].time)

(* No update has a time to come, and one that was not overtaken is not     *)
(* older than the row.                                                     *)
TimesInOrder ==
    /\ \A w \in Workers : hreq[w] # None => hreq[w].time <= now
    /\ \A u \in Users : presence[u] # None =>
          /\ presence[u].lastSeen <= now
          /\ \A w \in Workers :
                hreq[w] # None /\ hreq[w].user = u /\ ~hreq[w].overtaken
                    => presence[u].lastSeen <= hreq[w].time

PresenceInv == now \in Times /\ PresenceTypeOK /\ RowsAreHeard /\ TimesInOrder

LEMMA PresenceInitInv == ClockInit /\ PresenceInit => PresenceInv
BY ClockStarts
   DEF PresenceInit, PresenceInv, PresenceTypeOK, RowsAreHeard, TimesInOrder

LEMMA UpdateTypes ==
    ASSUME NEW s \in Statuses, NEW t \in Times
    PROVE  /\ UpdatePresence(s, t) \in PresenceRow
           /\ UpdatePresence(s, t) # None
           /\ UpdatePresence(s, t).lastSeen = t
           /\ [status |-> s, time |-> t] # None
<1>1. /\ UpdatePresence(s, t) \in PresenceRow
      /\ UpdatePresence(s, t).lastSeen = t
      BY RequestsAssumption DEF UpdatePresence, PresenceRow, Times
<1> QED BY <1>1, NoneIsNoPresence

LEMMA PresenceNextInv ==
    ASSUME PresenceInv, [PresenceStep]_<<now, presenceVars>>
    PROVE  PresenceInv'
<1> USE DEF PresenceInv, PresenceTypeOK
<1>1. ASSUME NEW w \in Workers, NEW u \in Users, NEW s \in Statuses, UNCHANGED now,
             hreq' = [hreq EXCEPT ![w] = [at |-> "get", user |-> u, status |-> s,
                                          time |-> now, overtaken |-> FALSE]],
             UNCHANGED <<presence, heard, mixed>>
      PROVE  PresenceInv'
      <2>1. PresenceTypeOK'
            BY <1>1 DEF HRequest
      <2>2. RowsAreHeard'
            BY <1>1 DEF RowsAreHeard
      <2>3. TimesInOrder'
            BY <1>1 DEF TimesInOrder, Times
      <2> QED BY <1>1, <2>1, <2>2, <2>3
<1>2. ASSUME NEW w \in Workers, ReadPresence(w), UNCHANGED now
      PROVE  PresenceInv'
      <2> DEFINE r == [hreq[w] EXCEPT !.at = "upsert"]
      <2>1. /\ r \in HRequest /\ r.user = hreq[w].user /\ r.time = hreq[w].time
            /\ r.overtaken = hreq[w].overtaken
            BY <1>2 DEF HRequest, ReadPresence
      <2>2. hreq[w] # None /\ hreq' = [hreq EXCEPT ![w] = r]
            BY <1>2 DEF ReadPresence
      <2> HIDE DEF r
      <2>3. PresenceTypeOK'
            BY <1>2, <2>1, <2>2 DEF ReadPresence
      <2>4. RowsAreHeard'
            BY <1>2 DEF ReadPresence, RowsAreHeard
      <2>5. TimesInOrder'
            BY <1>2, <2>1, <2>2 DEF ReadPresence, TimesInOrder
      <2> QED BY <1>2, <2>3, <2>4, <2>5
<1>3. ASSUME NEW w \in Workers, WritePresence(w), UNCHANGED now
      PROVE  PresenceInv'
      <2> DEFINE r   == hreq[w]
                 row == UpdatePresence(r.status, r.time)
      <2>1. /\ r \in HRequest /\ r # None
            /\ row \in PresenceRow /\ row # None /\ row.lastSeen = r.time
            /\ [status |-> r.status, time |-> r.time] # None
            BY <1>3, UpdateTypes DEF WritePresence, HRequest
      <2>2. /\ presence' = [presence EXCEPT ![r.user] = row]
            /\ heard' = [heard EXCEPT ![r.user] =
                   IF r.overtaken THEN @ ELSE [status |-> r.status, time |-> r.time]]
            /\ mixed' = IF r.overtaken THEN mixed \cup {r.user} ELSE mixed \ {r.user}
            /\ \A v \in Workers : hreq'[v] # None =>
                  /\ hreq[v] # None /\ hreq'[v].user = hreq[v].user
                  /\ hreq'[v].time = hreq[v].time
                  /\ hreq'[v].user = r.user => hreq'[v].overtaken
                  /\ hreq'[v].user # r.user => hreq'[v].overtaken = hreq[v].overtaken
            /\ hreq' \in [Workers -> HRequest \cup {None}]
            BY <1>3 DEF WritePresence, OvertakenBy, HRequest
      <2> HIDE DEF row
      <2>3. PresenceTypeOK'
            BY <2>1, <2>2 DEF HRequest
      <2>4. RowsAreHeard'
            BY <2>1, <2>2 DEF RowsAreHeard, HRequest, row
      <2>5. TimesInOrder'
            BY <1>3, <2>1, <2>2 DEF TimesInOrder, HRequest
      <2> QED BY <1>3, <2>3, <2>4, <2>5
<1>4. ASSUME NEW w \in Workers, PresenceFails(w), UNCHANGED now
      PROVE  PresenceInv'
      BY <1>4 DEF PresenceFails, RowsAreHeard, TimesInOrder
<1>5. CASE Tick /\ UNCHANGED presenceVars
      BY <1>5, ClockTicks DEF Tick, presenceVars, RowsAreHeard, TimesInOrder, HRequest,
                              PresenceRow, Times
<1>6. CASE UNCHANGED <<now, presenceVars>>
      BY <1>6 DEF presenceVars, RowsAreHeard, TimesInOrder
<1>7. ASSUME NEW w \in Workers, NEW u \in Users, UNCHANGED now,
             HandleUpdatePresence(w, u) \/ HandleSetOffline(w, u)
      PROVE  PresenceInv'
      BY <1>7, <1>1, PresenceAssumption DEF HandleUpdatePresence, HandleSetOffline
<1> QED BY <1>2, <1>3, <1>4, <1>5, <1>6, <1>7 DEF PresenceStep, PresenceNext

LEMMA PresenceInvKeeps == PresenceInv => CountsAreHeard
<1> SUFFICES ASSUME PresenceInv, mixed = {}
             PROVE  CountsAreHeard
    BY DEF CountsAreHeard
<1> USE DEF PresenceInv, PresenceTypeOK
<1>1. ASSUME NEW u \in Users
      PROVE  /\ presence[u] # None <=> heard[u] # None
             /\ heard[u] # None =>
                   /\ presence[u].lastSeen = heard[u].time
                   /\ presence[u].isOnline = (heard[u].status \in {"online", "away"})
      BY DEF RowsAreHeard, UpdatePresence
<1>2. ASSUME NEW window
      PROVE  SeenWithin(window) = HeardWithin(window)
      BY <1>1 DEF SeenWithin, HeardWithin
<1>3. {u \in SeenWithin(Minute) : presence[u].isOnline}
         = {u \in HeardWithin(Minute) : heard[u].status \in {"online", "away"}}
      <2>1. HeardWithin(Minute) \subseteq {u \in Users : heard[u] # None}
            BY DEF HeardWithin
      <2>2. \A u \in HeardWithin(Minute) :
                presence[u].isOnline <=> heard[u].status \in {"online", "away"}
            BY <1>1, <2>1
      <2> QED BY <1>2, <2>2
<1> QED BY <1>2, <1>3 DEF GetCCUMetrics, CountsAreHeard

LEMMA PresenceForward ==
    ASSUME PresenceInv, [PresenceStep]_<<now, presenceVars>>,
           NEW u \in Users, presence[u] # None,
           presence'[u].lastSeen < presence[u].lastSeen
    PROVE  \E w \in Workers : hreq[w] # None /\ hreq[w].user = u /\ hreq[w].overtaken
<1> USE DEF PresenceInv, PresenceTypeOK
<1>1. presence' # presence
      BY DEF PresenceRow, Times
<1>2. PICK w \in Workers : WritePresence(w)
      BY <1>1 DEF PresenceStep, PresenceNext, HandleUpdatePresence, HandleSetOffline,
                  ReadPresence, PresenceFails, presenceVars
<1>3. /\ hreq[w] # None /\ hreq[w] \in HRequest
      /\ presence' = [presence EXCEPT ![hreq[w].user] =
                         UpdatePresence(hreq[w].status, hreq[w].time)]
      BY <1>2 DEF WritePresence
<1>4. hreq[w].user = u
      BY <1>3 DEF PresenceRow, Times
<1>5. presence'[u].lastSeen = hreq[w].time
      BY <1>3, <1>4 DEF UpdatePresence
<1>6. ~(presence[u].lastSeen <= hreq[w].time)
      BY <1>3, <1>5, RequestsAssumption DEF PresenceRow, HRequest, Times
<1> QED BY <1>3, <1>4, <1>6 DEF TimesInOrder, HRequest

LEMMA PresenceSpecInv == PresenceSpec => []PresenceInv
BY PresenceInitInv, PresenceNextInv, PTL DEF PresenceSpec, PresenceStep

LEMMA PresenceSpecForward == PresenceSpec => SeenForward
<1>1. PresenceInv /\ [PresenceStep]_<<now, presenceVars>> =>
          [\A u \in Users :
              presence[u] # None /\ presence'[u].lastSeen < presence[u].lastSeen
                  => \E w \in Workers :
                         hreq[w] # None /\ hreq[w].user = u /\ hreq[w].overtaken
          ]_<<now, presenceVars>>
      BY PresenceForward
<1> QED BY <1>1, PresenceSpecInv, PTL DEF PresenceSpec, PresenceStep, SeenForward

(* The platform takes no other steps on the table of the presence.         *)
THEOREM PlatformDoesPresence == PlatformSpec => PresenceSpec
<1>1. PlatformInit => ClockInit /\ PresenceInit
      BY DEF PlatformInit
<1>2. [PlatformNext]_platformVars => [PresenceStep]_<<now, presenceVars>>
      BY DEF PlatformNext, Handle, TimePasses, platformVars, PresenceStep
<1> QED BY <1>1, <1>2, PTL DEF PlatformSpec, PresenceSpec, PresenceStep

(* The counts of concurrent users are those of the answered heartbeats, as *)
(* long as none was overtaken.                                             *)
THEOREM CountsStayRight == PlatformSpec => []CountsAreHeard
BY PresenceSpecInv, PresenceInvKeeps, PlatformDoesPresence, PTL

(* Only an overtaken heartbeat sets the time a user was last seen back.    *)
THEOREM SeenGoesForward == PlatformSpec => SeenForward
BY PresenceSpecForward, PlatformDoesPresence, PTL

-----------------------------------------------------------------------------
(* Notifications: the subscriptions                                        *)

(* Every row has an id that was given, and an endpoint of its own.         *)
OneRowEach ==
    /\ \A id \in Times : subscriptions[id] # None => id \in used.once
    /\ \A i, j \in Times :
          /\ subscriptions[i] # None /\ subscriptions[j] # None
          /\ subscriptions[i].endpoint = subscriptions[j].endpoint
          => i = j

Deleting(w) == nreq[w] # None /\ nreq[w].at = "delete"

(* A removal under way that no store has overtaken deletes the only row it *)
(* is about ...                                                            *)
DeletesTheRow ==
    \A w \in Workers : Deleting(w) /\ ~nreq[w].stale =>
        \A id \in Times \ {nreq[w].id} : subscriptions[id] # nreq[w].row

(* ... and, as long as no id was given twice, never the row of somebody    *)
(* who is subscribed.                                                      *)
SparesTheLive ==
    used.twice = {} => \A w \in Workers : Deleting(w) =>
        /\ nreq[w].id \in used.once
        /\ subscriptions[nreq[w].id] # None =>
              /\ subscriptions[nreq[w].id] = nreq[w].row
              /\ nreq[w].row \notin live

SubscriptionsInv ==
    /\ now \in Times /\ NotificationsTypeOK
    /\ OneRowEach /\ DeletesTheRow /\ SparesTheLive
    /\ SubscriptionsKept /\ RemovalsHold

LEMMA SubscriptionsInitInv == ClockInit /\ NotificationsInit => SubscriptionsInv
<1> SUFFICES ASSUME ClockInit, NotificationsInit PROVE SubscriptionsInv
    OBVIOUS
<1>1. NotificationsTypeOK
      BY NotificationsAssumption DEF NotificationsInit, NotificationsTypeOK
<1> QED BY <1>1, ClockStarts
        DEF NotificationsInit, SubscriptionsInv, OneRowEach, Deleting, DeletesTheRow,
            SparesTheLive, SubscriptionsKept, RemovalsHold

LEMMA StoreSubscriptionInv ==
    ASSUME SubscriptionsInv, NEW u \in Users, NEW e \in Endpoints,
           StoreSubscription(u, e), UNCHANGED now
    PROVE  SubscriptionsInv'
<1> USE DEF SubscriptionsInv
<1> DEFINE row == [user |-> u, endpoint |-> e]
<1>1. row \in Subscription /\ row # None /\ row.endpoint = e
      BY NoneIsNoRecord DEF Subscription
<1>2. /\ now' = now
      /\ EndpointFree(now, e)
      /\ subscriptions' = [subscriptions EXCEPT ![now] = row]
      /\ used' = [once  |-> used.once \cup {now},
                  twice |-> used.twice \cup (used.once \cap {now})]
      /\ live' = live \cup {row}
      /\ gone' = gone \ {row}
      /\ nreq' = StaleDeletes(nreq, row)
      /\ UNCHANGED <<pending, reported, muddled>>
      BY DEF StoreSubscription, pendingVars
<1>3. \A v \in Workers : Deleting(v)' =>
          /\ Deleting(v) /\ nreq'[v].id = nreq[v].id /\ nreq'[v].row = nreq[v].row
          /\ ~nreq'[v].stale => ~nreq[v].stale /\ nreq[v].row # row
      <2> SUFFICES ASSUME NEW v \in Workers, Deleting(v)'
                   PROVE  /\ Deleting(v) /\ nreq'[v].id = nreq[v].id
                          /\ nreq'[v].row = nreq[v].row
                          /\ ~nreq'[v].stale => ~nreq[v].stale /\ nreq[v].row # row
          OBVIOUS
      <2>1. nreq[v] \in NRequest \cup {None}
            BY DEF NotificationsTypeOK
      <2> QED BY <1>2, <2>1 DEF StaleDeletes, Deleting, NRequest
<1>4. nreq' \in [Workers -> NRequest \cup {None}]
      <2> SUFFICES ASSUME NEW v \in Workers PROVE nreq'[v] \in NRequest \cup {None}
          BY <1>2 DEF StaleDeletes
      <2>1. nreq[v] \in NRequest \cup {None}
            BY DEF NotificationsTypeOK
      <2>2. CASE Deleting(v) /\ nreq[v].row = row
            <3>1. nreq[v] \in [at : {"delete"}, id : Times, row : Subscription,
                               stale : BOOLEAN]
                  BY <2>1, <2>2 DEF Deleting, NRequest
            <3>2. nreq'[v] = [nreq[v] EXCEPT !.stale = TRUE]
                  BY <1>2, <2>2 DEF StaleDeletes, Deleting
            <3> QED BY <3>1, <3>2 DEF NRequest
      <2>3. CASE ~(Deleting(v) /\ nreq[v].row = row)
            BY <1>2, <2>1, <2>3 DEF StaleDeletes, Deleting
      <2> QED BY <2>2, <2>3
<1> HIDE DEF row
<1>5. NotificationsTypeOK'
      BY <1>1, <1>2, <1>4 DEF NotificationsTypeOK
<1>6. OneRowEach'
      BY <1>1, <1>2 DEF OneRowEach, EndpointFree, NotificationsTypeOK
<1>7. DeletesTheRow'
      BY <1>1, <1>2, <1>3 DEF DeletesTheRow, NotificationsTypeOK
<1>8. used'.twice = {} => used.twice = {} /\ now \notin used.once
      BY <1>2
<1>9. SparesTheLive'
      <2> SUFFICES ASSUME used'.twice = {}, NEW v \in Workers, Deleting(v)'
                   PROVE  /\ nreq'[v].id \in used'.once
                          /\ subscriptions'[nreq'[v].id] # None =>
                                /\ subscriptions'[nreq'[v].id] = nreq'[v].row
                                /\ nreq'[v].row \notin live'
          BY DEF SparesTheLive
      <2>1. /\ Deleting(v) /\ nreq'[v].id = nreq[v].id /\ nreq'[v].row = nreq[v].row
            BY <1>3
      <2>2. nreq[v].id \in used.once /\ nreq[v].id # now
            BY <1>8, <2>1 DEF SparesTheLive
      <2>3. nreq[v].id \in Times
            BY <2>1 DEF NotificationsTypeOK, NRequest, Deleting
      <2>4. subscriptions'[nreq[v].id] = subscriptions[nreq[v].id]
            BY <1>2, <2>2, <2>3 DEF NotificationsTypeOK
      <2>5. ASSUME subscriptions[nreq[v].id] # None
            PROVE  subscriptions[nreq[v].id] = nreq[v].row /\ nreq[v].row \notin live'
            <3>1. subscriptions[nreq[v].id] = nreq[v].row /\ nreq[v].row \notin live
                  BY <1>8, <2>1, <2>5 DEF SparesTheLive
            <3>2. nreq[v].row # row
                  BY <1>1, <1>2, <2>2, <2>3, <2>5, <3>1 DEF EndpointFree
            <3> QED BY <1>2, <3>1, <3>2
      <2> QED BY <1>2, <2>1, <2>2, <2>4, <2>5
<1>10. SubscriptionsKept'
      <2> SUFFICES ASSUME used'.twice = {}, NEW other \in live'
                   PROVE  \E id \in Times : subscriptions'[id] = other
          BY DEF SubscriptionsKept
      <2>1. CASE other = row
            BY <1>2, <2>1 DEF NotificationsTypeOK
      <2>2. CASE other # row
            <3>1. other \in live /\ used.twice = {} /\ subscriptions[now] = None
                  BY <1>2, <1>8, <2>2 DEF OneRowEach
            <3>2. PICK id \in Times : subscriptions[id] = other
                  BY <3>1 DEF SubscriptionsKept
            <3>3. other # None
                  BY <3>1, NoneIsNoRecord DEF NotificationsTypeOK
            <3>4. subscriptions'[id] = other
                  BY <1>2, <3>1, <3>2, <3>3 DEF NotificationsTypeOK
            <3> QED BY <3>4
      <2> QED BY <2>1, <2>2
<1>11. RemovalsHold'
      BY <1>2 DEF RemovalsHold, NotificationsTypeOK
<1> QED BY <1>2, <1>5, <1>6, <1>7, <1>9, <1>10, <1>11

LEMMA RemoveSubscriptionInv ==
    ASSUME SubscriptionsInv, NEW w \in Workers, NEW u \in Users, NEW e \in Endpoints,
           RemoveSubscription(w, u, e), UNCHANGED now
    PROVE  SubscriptionsInv'
<1> USE DEF SubscriptionsInv
<1> DEFINE row == [user |-> u, endpoint |-> e]
<1>1. row \in Subscription /\ row # None
      BY NoneIsNoRecord DEF Subscription
<1>2. /\ now' = now /\ nreq[w] = None /\ live' = live \ {row}
      /\ UNCHANGED <<subscriptions, used, pending, reported, muddled>>
      BY DEF RemoveSubscription, pendingVars
<1>3. CASE Matching(row) = {} /\ gone' = gone \cup {row} /\ UNCHANGED nreq
      <2>1. \A id \in Times : subscriptions[id] # row
            BY <1>3 DEF Matching
      <2> HIDE DEF row
      <2>2. NotificationsTypeOK'
            BY <1>1, <1>2, <1>3 DEF NotificationsTypeOK
      <2> QED BY <1>2, <1>3, <2>1, <2>2
              DEF OneRowEach, DeletesTheRow, SparesTheLive, SubscriptionsKept,
                  RemovalsHold, Deleting
<1>4. ASSUME NEW id \in Matching(row), UNCHANGED gone,
             nreq' = [nreq EXCEPT ![w] =
                         [at |-> "delete", id |-> id, row |-> row, stale |-> FALSE]]
      PROVE  SubscriptionsInv'
      <2>1. id \in Times /\ subscriptions[id] = row
            BY <1>4 DEF Matching
      <2>2. \A j \in Times \ {id} : subscriptions[j] # row
            BY <1>1, <2>1 DEF OneRowEach
      <2>3. id \in used.once
            BY <1>1, <2>1 DEF OneRowEach
      <2> DEFINE r == [at |-> "delete", id |-> id, row |-> row, stale |-> FALSE]
      <2>4. /\ r \in NRequest /\ nreq' = [nreq EXCEPT ![w] = r]
            /\ r.id = id /\ r.row = row /\ r.at = "delete"
            BY <1>1, <1>4, <2>1 DEF NRequest
      <2> HIDE DEF row, r
      <2>5. NotificationsTypeOK'
            BY <1>1, <1>2, <1>4, <2>4 DEF NotificationsTypeOK
      <2>6. DeletesTheRow'
            BY <1>2, <2>2, <2>4 DEF DeletesTheRow, Deleting, NotificationsTypeOK
      <2>7. SparesTheLive'
            BY <1>2, <2>1, <2>3, <2>4 DEF SparesTheLive, Deleting, NotificationsTypeOK
      <2> QED BY <1>2, <1>4, <2>5, <2>6, <2>7
              DEF OneRowEach, SubscriptionsKept, RemovalsHold
<1> QED BY <1>3, <1>4 DEF RemoveSubscription

LEMMA DeleteSubscriptionInv ==
    ASSUME SubscriptionsInv, NEW w \in Workers, DeleteSubscription(w), UNCHANGED now
    PROVE  SubscriptionsInv'
<1> USE DEF SubscriptionsInv
<1> DEFINE id  == nreq[w].id
           row == nreq[w].row
<1>1. /\ Deleting(w) /\ now' = now
      /\ subscriptions' = [subscriptions EXCEPT ![id] = None]
      /\ gone' = IF nreq[w].stale THEN gone ELSE gone \cup {row}
      /\ nreq' = [nreq EXCEPT ![w] = None]
      /\ UNCHANGED <<live, used, pending, reported, muddled>>
      BY DEF DeleteSubscription, Deleting, pendingVars
<1>2. id \in Times /\ row \in Subscription /\ row # None
      BY <1>1, NoneIsNoRecord DEF Deleting, NotificationsTypeOK, NRequest
<1>3. NotificationsTypeOK'
      BY <1>1, <1>2 DEF NotificationsTypeOK
<1>4. OneRowEach'
      BY <1>1, <1>2 DEF OneRowEach, NotificationsTypeOK
<1>5. DeletesTheRow'
      BY <1>1, <1>2, NoneIsNoRecord DEF DeletesTheRow, NotificationsTypeOK, Deleting, NRequest
<1>6. SparesTheLive'
      BY <1>1, <1>2 DEF SparesTheLive, NotificationsTypeOK, Deleting
<1>7. SubscriptionsKept'
      <2> SUFFICES ASSUME used.twice = {}, NEW other \in live
                   PROVE  \E j \in Times : subscriptions'[j] = other
          BY <1>1 DEF SubscriptionsKept
      <2>1. PICK j \in Times : subscriptions[j] = other
            BY DEF SubscriptionsKept
      <2>2. other # None
            BY NoneIsNoRecord DEF NotificationsTypeOK
      <2>3. j # id
            BY <1>1, <2>1, <2>2 DEF SparesTheLive
      <2> QED BY <1>1, <2>1, <2>3 DEF NotificationsTypeOK
<1>8. RemovalsHold'
      BY <1>1, <1>2, NoneIsNoRecord DEF RemovalsHold, DeletesTheRow, NotificationsTypeOK
<1> QED BY <1>1, <1>3, <1>4, <1>5, <1>6, <1>7, <1>8

(* The steps of the pending notifications leave the subscriptions alone.   *)
LEMMA OtherStepInv ==
    ASSUME SubscriptionsInv, NotificationsTypeOK', UNCHANGED now,
           UNCHANGED <<subscriptions, live, gone, used>>,
           \A v \in Workers : Deleting(v)' => Deleting(v) /\ nreq'[v] = nreq[v]
    PROVE  SubscriptionsInv'
BY DEF SubscriptionsInv, OneRowEach, DeletesTheRow, SparesTheLive, SubscriptionsKept,
       RemovalsHold

-----------------------------------------------------------------------------
(* Notifications: the reports                                              *)

Setting(w) == nreq[w] # None /\ nreq[w].at = "set"

(* A report that no other has overtaken writes one attempt more than there *)
(* are; only rows that are there are written.                              *)
ReportsHeld ==
    /\ \A id \in Times \ muddled :
          /\ pending[id] # None =>
                /\ pending[id].attempts = reported[id].attempts
                /\ pending[id].status = reported[id].status
          /\ pending[id] = None => reported[id] = [status |-> "pending", attempts |-> 0]
    /\ \A w \in Workers : Setting(w) =>
          /\ pending[nreq[w].id] # None
          /\ ~nreq[w].stale /\ nreq[w].id \notin muddled =>
                nreq[w].row.attempts = pending[nreq[w].id].attempts + 1

NotificationsInv == SubscriptionsInv /\ ReportsHeld

LEMMA NotificationsInitInv == ClockInit /\ NotificationsInit => NotificationsInv
BY SubscriptionsInitInv DEF NotificationsInit, NotificationsInv, ReportsHeld, Setting

LEMMA SubscriptionStepReports ==
    ASSUME NotificationsInv, UNCHANGED pendingVars,
           \A v \in Workers : Setting(v)' => Setting(v) /\ nreq'[v] = nreq[v]
    PROVE  ReportsHeld'
BY DEF NotificationsInv, ReportsHeld, pendingVars

LEMMA CreateNotificationInv ==
    ASSUME NotificationsInv, CreateNotification, UNCHANGED now
    PROVE  NotificationsInv'
<1>1. /\ now \in Times /\ NewPending \in Pending /\ NewPending # None
      /\ NewPending.status = "pending" /\ NewPending.attempts = 0
      BY NotificationsAssumption, NoneIsNoRecord
         DEF NewPending, Pending, NotificationsInv, SubscriptionsInv
<1>2. /\ pending' = [pending EXCEPT ![now] = NewPending]
      /\ muddled' = IF pending[now] # None THEN muddled \cup {now} ELSE muddled
      /\ UNCHANGED <<subscriptions, live, gone, used, nreq, reported>>
      BY DEF CreateNotification, subscriptionVars
<1> HIDE DEF NewPending
<1>3. NotificationsTypeOK'
      BY <1>1, <1>2 DEF NotificationsInv, SubscriptionsInv, NotificationsTypeOK
<1>4. SubscriptionsInv'
      BY <1>2, <1>3, OtherStepInv DEF NotificationsInv, Deleting
<1>5. ASSUME NEW id \in Times \ muddled'
      PROVE  /\ pending'[id] # None =>
                   /\ pending'[id].attempts = reported'[id].attempts
                   /\ pending'[id].status = reported'[id].status
             /\ pending'[id] = None =>
                   reported'[id] = [status |-> "pending", attempts |-> 0]
      BY <1>1, <1>2, <1>5
         DEF NotificationsInv, SubscriptionsInv, NotificationsTypeOK, ReportsHeld
<1>6. ASSUME NEW w \in Workers, Setting(w)'
      PROVE  /\ pending'[nreq'[w].id] # None
             /\ ~nreq'[w].stale /\ nreq'[w].id \notin muddled' =>
                   nreq'[w].row.attempts = pending'[nreq'[w].id].attempts + 1
      BY <1>1, <1>2, <1>6
         DEF NotificationsInv, SubscriptionsInv, NotificationsTypeOK, ReportsHeld, Setting
<1> QED BY <1>4, <1>5, <1>6 DEF NotificationsInv, ReportsHeld

LEMMA UpdateStatusInv ==
    ASSUME NotificationsInv, NEW w \in Workers, NEW id \in Times,
           UpdateStatus(w, id), UNCHANGED now
    PROVE  NotificationsInv'
<1>1. PICK s \in NStatuses :
          nreq' = [nreq EXCEPT ![w] = [at |-> "update", id |-> id, status |-> s]]
      BY DEF UpdateStatus
<1> DEFINE r == [at |-> "update", id |-> id, status |-> s]
<1>2. r \in NRequest /\ r.at = "update" /\ nreq' = [nreq EXCEPT ![w] = r]
      BY <1>1 DEF NRequest
<1> HIDE DEF r
<1>3. UNCHANGED <<subscriptions, live, gone, used, pending, reported, muddled>>
      BY DEF UpdateStatus, subscriptionVars, pendingVars
<1>4. NotificationsTypeOK'
      BY <1>2, <1>3 DEF NotificationsInv, SubscriptionsInv, NotificationsTypeOK
<1>5. SubscriptionsInv'
      BY <1>2, <1>3, <1>4, OtherStepInv
         DEF NotificationsInv, SubscriptionsInv, NotificationsTypeOK, Deleting
<1>6. ReportsHeld'
      BY <1>2, <1>3
         DEF NotificationsInv, SubscriptionsInv, NotificationsTypeOK, ReportsHeld, Setting
<1> QED BY <1>5, <1>6 DEF NotificationsInv

LEMMA AttemptedTypes ==
    ASSUME NEW row \in Pending, NEW s \in NStatuses, row.attempts < MaxAttempts
    PROVE  /\ Attempted(row, s) \in Pending
           /\ Attempted(row, s).attempts = row.attempts + 1
<1> DEFINE a == row.attempts + 1
<1>1. a \in 0..MaxAttempts
      BY NotificationsAssumption DEF Pending
<1>2. Attempted(row, s) = [row EXCEPT !.status = s, !.attempts = a]
      BY DEF Attempted
<1> HIDE DEF a
<1>3. /\ [row EXCEPT !.status = s, !.attempts = a] \in Pending
      /\ [row EXCEPT !.status = s, !.attempts = a].attempts = a
      BY <1>1 DEF Pending
<1> QED BY <1>2, <1>3 DEF a

LEMMA ReadPendingInv ==
    ASSUME NotificationsInv, NEW w \in Workers, ReadPending(w), UNCHANGED now
    PROVE  NotificationsInv'
<1>1. /\ nreq[w] # None /\ nreq[w].at = "update" /\ nreq[w].id \in Times
      /\ nreq[w].status \in NStatuses
      BY DEF ReadPending, NotificationsInv, SubscriptionsInv, NotificationsTypeOK, NRequest
<1> DEFINE id  == nreq[w].id
           row == Attempted(pending[id], nreq[w].status)
           r   == IF pending[id] = None THEN None
                  ELSE [at |-> "set", id |-> id, row |-> row, stale |-> FALSE]
<1>2. /\ nreq' = [nreq EXCEPT ![w] = r]
      /\ pending[id] # None => pending[id].attempts < MaxAttempts
      /\ UNCHANGED <<subscriptions, live, gone, used, pending, reported, muddled>>
      BY DEF ReadPending, subscriptionVars, pendingVars
<1>3. ASSUME pending[id] # None
      PROVE  row \in Pending /\ row.attempts = pending[id].attempts + 1
      <2>1. pending[id] \in Pending /\ pending[id].attempts < MaxAttempts
            BY <1>1, <1>2, <1>3 DEF NotificationsInv, SubscriptionsInv, NotificationsTypeOK
      <2> QED BY <1>1, <2>1, AttemptedTypes
<1> HIDE DEF row
<1>4. /\ r \in NRequest \cup {None}
      /\ r # None => /\ pending[id] # None
                     /\ r.at = "set" /\ r.id = id /\ r.row = row
      BY <1>1, <1>3 DEF NRequest
<1> HIDE DEF r
<1>5. NotificationsTypeOK'
      BY <1>2, <1>4 DEF NotificationsInv, SubscriptionsInv, NotificationsTypeOK
<1>6. SubscriptionsInv'
      BY <1>2, <1>4, <1>5, OtherStepInv
         DEF NotificationsInv, SubscriptionsInv, NotificationsTypeOK, Deleting
<1>7. ReportsHeld'
      <2>1. ASSUME NEW v \in Workers, Setting(v)'
            PROVE  /\ pending[nreq'[v].id] # None
                   /\ ~nreq'[v].stale /\ nreq'[v].id \notin muddled =>
                         nreq'[v].row.attempts = pending[nreq'[v].id].attempts + 1
            <3>1. CASE v = w
                  BY <1>2, <1>3, <1>4, <2>1, <3>1
                     DEF Setting, NotificationsInv, SubscriptionsInv, NotificationsTypeOK
            <3>2. CASE v # w
                  BY <1>2, <2>1, <3>2
                     DEF Setting, NotificationsInv, SubscriptionsInv, NotificationsTypeOK,
                         ReportsHeld
            <3> QED BY <3>1, <3>2
      <2> QED BY <1>2, <2>1 DEF ReportsHeld, NotificationsInv
<1> QED BY <1>6, <1>7 DEF NotificationsInv

LEMMA SetPendingInv ==
    ASSUME NotificationsInv, NEW w \in Workers, SetPending(w), UNCHANGED now
    PROVE  NotificationsInv'
<1> DEFINE r == nreq[w]
<1>1. /\ Setting(w) /\ r \in [at : {"set"}, id : Times, row : Pending, stale : BOOLEAN]
      BY DEF SetPending, Setting, NotificationsInv, SubscriptionsInv, NotificationsTypeOK,
             NRequest
<1>2. /\ pending' = [pending EXCEPT ![r.id] = r.row]
      /\ nreq' = StaleSets([nreq EXCEPT ![w] = None], r.id)
      /\ muddled' = IF r.stale THEN muddled \cup {r.id} ELSE muddled
      /\ reported' = [reported EXCEPT ![r.id] =
            [status |-> r.row.status,
             attempts |-> IF @.attempts < MaxAttempts THEN @.attempts + 1 ELSE @.attempts]]
      /\ UNCHANGED <<subscriptions, live, gone, used>>
      BY DEF SetPending, subscriptionVars
<1>3. /\ r.id \in Times /\ r.row \in Pending /\ r.row # None
      /\ reported[r.id] \in [status : NStatuses, attempts : 0..MaxAttempts]
      BY <1>1, NoneIsNoRecord
         DEF NotificationsInv, SubscriptionsInv, NotificationsTypeOK
<1>4. ASSUME NEW v \in Workers
      PROVE  /\ nreq'[v] \in NRequest \cup {None}
             /\ Deleting(v)' => Deleting(v) /\ nreq'[v] = nreq[v]
             /\ Setting(v)' =>
                   /\ Setting(v) /\ nreq'[v].id = nreq[v].id /\ nreq'[v].row = nreq[v].row
                   /\ ~nreq'[v].stale => ~nreq[v].stale /\ nreq[v].id # r.id
      <2>1. nreq[v] \in NRequest \cup {None}
            BY DEF NotificationsInv, SubscriptionsInv, NotificationsTypeOK
      <2>2. CASE v # w /\ Setting(v) /\ nreq[v].id = r.id
            <3>1. nreq[v] \in [at : {"set"}, id : Times, row : Pending, stale : BOOLEAN]
                  BY <2>1, <2>2 DEF Setting, NRequest
            <3>2. nreq'[v] = [nreq[v] EXCEPT !.stale = TRUE]
                  BY <1>2, <2>2 DEF StaleSets, Setting, NotificationsInv, SubscriptionsInv,
                                    NotificationsTypeOK
            <3> QED BY <2>2, <3>1, <3>2 DEF NRequest, Deleting, Setting
      <2>3. CASE v = w
            <3>1. nreq'[v] = None
                  BY <1>2, <2>3 DEF StaleSets, NotificationsInv, SubscriptionsInv,
                                    NotificationsTypeOK
            <3> QED BY <3>1 DEF Deleting, Setting
      <2>4. CASE v # w /\ ~(Setting(v) /\ nreq[v].id = r.id)
            <3>1. nreq'[v] = nreq[v]
                  BY <1>2, <2>4 DEF StaleSets, Setting, NotificationsInv, SubscriptionsInv,
                                    NotificationsTypeOK
            <3> QED BY <2>1, <2>4, <3>1 DEF Deleting, Setting
      <2> QED BY <2>2, <2>3, <2>4
<1>5. nreq' \in [Workers -> NRequest \cup {None}]
      BY <1>2, <1>4 DEF StaleSets
<1>6. reported' \in [Times -> [status : NStatuses, attempts : 0..MaxAttempts]]
      BY <1>2, <1>3, NotificationsAssumption
         DEF Pending, NotificationsInv, SubscriptionsInv, NotificationsTypeOK
<1>7. NotificationsTypeOK'
      BY <1>2, <1>3, <1>5, <1>6
         DEF NotificationsInv, SubscriptionsInv, NotificationsTypeOK
<1>8. SubscriptionsInv'
      BY <1>2, <1>4, <1>7, OtherStepInv DEF NotificationsInv
<1>9. ASSUME NEW id \in Times \ muddled'
      PROVE  /\ pending'[id] # None =>
                   /\ pending'[id].attempts = reported'[id].attempts
                   /\ pending'[id].status = reported'[id].status
             /\ pending'[id] = None =>
                   reported'[id] = [status |-> "pending", attempts |-> 0]
      <2>1. CASE id # r.id
            BY <1>2, <1>3, <1>9, <2>1
               DEF NotificationsInv, SubscriptionsInv, NotificationsTypeOK, ReportsHeld
      <2>2. CASE id = r.id
            <3>1. /\ ~r.stale /\ id \notin muddled /\ pending[id] # None
                  /\ r.row.attempts = reported[id].attempts + 1
                  BY <1>1, <1>2, <1>3, <1>9, <2>2 DEF NotificationsInv, ReportsHeld
            <3>2. r.row.attempts \in 0..MaxAttempts /\ reported[id].attempts \in 0..MaxAttempts
                  BY <1>3, <2>2 DEF Pending
            <3>3. reported[id].attempts < MaxAttempts
                  BY <3>1, <3>2, NotificationsAssumption
            <3>4. /\ pending'[id] = r.row
                  /\ reported'[id] = [status   |-> r.row.status,
                                      attempts |-> reported[id].attempts + 1]
                  BY <1>2, <1>3, <2>2, <3>3
                     DEF NotificationsInv, SubscriptionsInv, NotificationsTypeOK
            <3> QED BY <1>3, <3>1, <3>4
      <2> QED BY <2>1, <2>2
<1>10. ASSUME NEW v \in Workers, Setting(v)'
       PROVE  /\ pending'[nreq'[v].id] # None
              /\ ~nreq'[v].stale /\ nreq'[v].id \notin muddled' =>
                    nreq'[v].row.attempts = pending'[nreq'[v].id].attempts + 1
       <2>1. /\ Setting(v) /\ nreq'[v].id = nreq[v].id /\ nreq'[v].row = nreq[v].row
             /\ ~nreq'[v].stale => ~nreq[v].stale /\ nreq[v].id # r.id
             BY <1>4, <1>10
       <2>2. nreq[v].id \in Times
             BY <2>1 DEF Setting, NotificationsInv, SubscriptionsInv, NotificationsTypeOK,
                         NRequest
       <2> QED BY <1>2, <1>3, <2>1, <2>2
               DEF NotificationsInv, SubscriptionsInv, NotificationsTypeOK, ReportsHeld
<1> QED BY <1>8, <1>9, <1>10 DEF NotificationsInv, ReportsHeld

LEMMA NotificationFailsInv ==
    ASSUME NotificationsInv, NEW w \in Workers, NotificationFails(w), UNCHANGED now
    PROVE  NotificationsInv'
<1>1. /\ nreq' = [nreq EXCEPT ![w] = None]
      /\ UNCHANGED <<subscriptions, live, gone, used, pending, reported, muddled>>
      BY DEF NotificationFails, subscriptionVars, pendingVars
<1>2. NotificationsTypeOK'
      BY <1>1 DEF NotificationsInv, SubscriptionsInv, NotificationsTypeOK
<1>3. SubscriptionsInv'
      BY <1>1, <1>2, OtherStepInv
         DEF NotificationsInv, SubscriptionsInv, NotificationsTypeOK, Deleting
<1>4. ReportsHeld'
      BY <1>1, SubscriptionStepReports
         DEF NotificationsInv, SubscriptionsInv, NotificationsTypeOK, Setting, pendingVars
<1> QED BY <1>3, <1>4 DEF NotificationsInv

NotificationsStep ==
    \/ (SubscriptionsNext \/ PendingNext) /\ UNCHANGED now
    \/ Tick /\ UNCHANGED notificationVars

LEMMA NotificationsNextInv ==
    ASSUME NotificationsInv, [NotificationsStep]_<<now, notificationVars>>
    PROVE  NotificationsInv'
<1> USE DEF NotificationsInv
<1>1. ASSUME NEW u \in Users, NEW e \in Endpoints, StoreSubscription(u, e), UNCHANGED now
      PROVE  NotificationsInv'
      <2>1. \A v \in Workers : Setting(v)' => Setting(v) /\ nreq'[v] = nreq[v]
            <3> SUFFICES ASSUME NEW v \in Workers, Setting(v)'
                         PROVE  Setting(v) /\ nreq'[v] = nreq[v]
                OBVIOUS
            <3>1. nreq[v] \in NRequest \cup {None}
                  BY DEF SubscriptionsInv, NotificationsTypeOK
            <3> QED BY <1>1, <3>1 DEF StoreSubscription, StaleDeletes, Setting, NRequest
      <2>2. ReportsHeld'
            BY <1>1, <2>1, SubscriptionStepReports DEF StoreSubscription
      <2> QED BY <1>1, <2>2, StoreSubscriptionInv
<1>2. ASSUME NEW w \in Workers, NEW u \in Users, NEW e \in Endpoints,
             RemoveSubscription(w, u, e), UNCHANGED now
      PROVE  NotificationsInv'
      <2>1. \A v \in Workers : Setting(v)' => Setting(v) /\ nreq'[v] = nreq[v]
            BY <1>2 DEF RemoveSubscription, Setting, SubscriptionsInv, NotificationsTypeOK
      <2>2. ReportsHeld'
            BY <1>2, <2>1, SubscriptionStepReports DEF RemoveSubscription
      <2> QED BY <1>2, <2>2, RemoveSubscriptionInv
<1>3. ASSUME NEW w \in Workers, DeleteSubscription(w), UNCHANGED now
      PROVE  NotificationsInv'
      <2>1. \A v \in Workers : Setting(v)' => Setting(v) /\ nreq'[v] = nreq[v]
            BY <1>3 DEF DeleteSubscription, Setting, SubscriptionsInv, NotificationsTypeOK
      <2>2. ReportsHeld'
            BY <1>3, <2>1, SubscriptionStepReports DEF DeleteSubscription
      <2> QED BY <1>3, <2>2, DeleteSubscriptionInv
<1>4. CASE Tick /\ UNCHANGED notificationVars
      BY <1>4, ClockTicks
         DEF notificationVars, subscriptionVars, pendingVars, SubscriptionsInv,
             NotificationsTypeOK, OneRowEach, Deleting, DeletesTheRow, SparesTheLive,
             SubscriptionsKept, RemovalsHold, ReportsHeld, Setting
<1>5. CASE UNCHANGED <<now, notificationVars>>
      BY <1>5
         DEF notificationVars, subscriptionVars, pendingVars, SubscriptionsInv,
             NotificationsTypeOK, OneRowEach, Deleting, DeletesTheRow, SparesTheLive,
             SubscriptionsKept, RemovalsHold, ReportsHeld, Setting
<1> QED BY <1>1, <1>2, <1>3, <1>4, <1>5, CreateNotificationInv, UpdateStatusInv,
           ReadPendingInv, SetPendingInv, NotificationFailsInv
        DEF NotificationsStep, SubscriptionsNext, PendingNext

(* The list of the pending ones leaves none out: there are fewer newer     *)
(* ones than ids.                                                          *)
LEMMA NotificationsInvReports == NotificationsInv => ReportsKept
<1> SUFFICES ASSUME NotificationsInv, NEW id \in Times \ muddled, pending[id] # None
             PROVE  /\ pending[id].attempts = reported[id].attempts
                    /\ id \in ListPending(MaxTime) <=> reported[id].status = "pending"
    BY DEF ReportsKept
<1> DEFINE all   == {x \in Times : pending[x] # None /\ pending[x].status = "pending"}
           newer == {other \in all : pending[other].createdAt > pending[id].createdAt}
<1>1. /\ pending[id].attempts = reported[id].attempts
      /\ pending[id].status = reported[id].status
      BY DEF NotificationsInv, ReportsHeld
<1>2. newer \in SUBSET (Times \ {id})
      BY DEF NotificationsInv, SubscriptionsInv, NotificationsTypeOK, Pending, Times
<1>3. IsFiniteSet(Times) /\ Cardinality(Times) = MaxTime
      BY FS_Interval, RequestsAssumption DEF Times
<1>4. IsFiniteSet(Times \ {id}) /\ Cardinality(Times \ {id}) = MaxTime - 1
      BY <1>3, FS_RemoveElement
<1>5. IsFiniteSet(newer) /\ Cardinality(newer) <= MaxTime - 1
      BY <1>2, <1>4, FS_Subset
<1>6. Cardinality(newer) < MaxTime
      BY <1>5, FS_CardinalityType, RequestsAssumption
<1>7. id \in ListPending(MaxTime) <=> id \in all
      BY <1>6 DEF ListPending
<1> QED BY <1>1, <1>7

LEMMA NotificationsSpecInv == NotificationsSpec => []NotificationsInv
BY NotificationsInitInv, NotificationsNextInv, PTL DEF NotificationsSpec, NotificationsStep

(* The platform takes no other steps on the two tables of notifications.   *)
THEOREM PlatformDoesNotifications == PlatformSpec => NotificationsSpec
<1>1. PlatformInit => ClockInit /\ NotificationsInit
      BY DEF PlatformInit
<1>2. [PlatformNext]_platformVars => [NotificationsStep]_<<now, notificationVars>>
      BY DEF PlatformNext, Handle, TimePasses, platformVars, NotificationsStep
<1> QED BY <1>1, <1>2, PTL DEF PlatformSpec, NotificationsSpec, NotificationsStep

LEMMA PlatformKeepsNotifications == PlatformSpec => []NotificationsInv
BY NotificationsSpecInv, PlatformDoesNotifications, PTL

(* No removal, however late its Delete, takes the row of somebody who has  *)
(* subscribed since it looked: the endpoint column is unique, so that the  *)
(* id a removal found is the id of that row or of none.                    *)
THEOREM SubscribersStay == PlatformSpec => []SubscriptionsKept
<1>1. NotificationsInv => SubscriptionsKept
      BY DEF NotificationsInv, SubscriptionsInv
<1> QED BY <1>1, PlatformKeepsNotifications, PTL

(* A removal deletes one row, and that is all there is to remove.          *)
THEOREM RemovedStaysRemoved == PlatformSpec => []RemovalsHold
<1>1. NotificationsInv => RemovalsHold
      BY DEF NotificationsInv, SubscriptionsInv
<1> QED BY <1>1, PlatformKeepsNotifications, PTL

(* Attempts and status of a notification are those that were answered, as  *)
(* long as no two reports on it overlapped.                                *)
THEOREM ReportsCount == PlatformSpec => []ReportsKept
BY NotificationsInvReports, PlatformKeepsNotifications, PTL

-----------------------------------------------------------------------------
(* System preferences                                                      *)

SystemColumns == {"mode", "calling"}

(* The backfill writes the row, too.                                       *)
ImportsSystem ==
    /\ LegacyPreferences # None
    /\ system' = Normalized(LegacyPreferences) /\ chosen' = Normalized(LegacyPreferences)
    /\ mislaid' = {} /\ sreq' = OverrunUpdates(sreq)

SystemStep == SystemNext \/ PlayersNext \/ ImportsSystem

SystemTypes ==
    /\ system \in SystemPreferences \cup {None}
    /\ sreq \in [Workers -> SRequest \cup {None}]
    /\ chosen \in SystemPreferences
    /\ mislaid \subseteq SystemColumns

(* The row an update will write has what it sets, and the rest as chosen   *)
(* if its read was sound and the row has not been written since.           *)
SetsItsColumns(r) ==
    /\ \A c \in DOMAIN r.set : r.row[c] = r.set[c]
    /\ ~r.lost /\ ~r.stale =>
          \A c \in SystemColumns \ (mislaid \cup DOMAIN r.set) : r.row[c] = chosen[c]

SystemInv ==
    /\ SystemTypes /\ ChoicesKept
    /\ \A w \in Workers : sreq[w] # None /\ sreq[w].at = "upsert" => SetsItsColumns(sreq[w])

LEMMA SetColumns ==
    ASSUME NEW set \in Updates, NEW row \in SystemPreferences
    PROVE  /\ Overwrite(row, set) \in SystemPreferences /\ DOMAIN set \subseteq SystemColumns
           /\ \A c \in SystemColumns :
                  Overwrite(row, set)[c] = IF c \in DOMAIN set THEN set[c] ELSE row[c]
<1>1. DOMAIN row = SystemColumns /\ row.mode \in Modes /\ row.calling \in BOOLEAN
      BY DEF SystemPreferences, SystemColumns
<1>2. DOMAIN set \subseteq SystemColumns
      BY DEF Updates, SystemColumns
<1>3. Overwrite(row, set) = [c \in SystemColumns |-> IF c \in DOMAIN set THEN set[c] ELSE row[c]]
      BY <1>1 DEF Overwrite
<1>4. /\ "mode" \in DOMAIN set => set["mode"] \in Modes
      /\ "calling" \in DOMAIN set => set["calling"] \in BOOLEAN
      BY DEF Updates
<1>5. [c \in SystemColumns |-> IF c \in DOMAIN set THEN set[c] ELSE row[c]]
         = [mode    |-> IF "mode" \in DOMAIN set THEN set["mode"] ELSE row.mode,
            calling |-> IF "calling" \in DOMAIN set THEN set["calling"] ELSE row.calling]
      BY DEF SystemColumns
<1>6. Overwrite(row, set) \in SystemPreferences
      BY <1>1, <1>3, <1>4, <1>5 DEF SystemPreferences
<1> QED BY <1>2, <1>3, <1>6

LEMMA RowsAreRead ==
    ASSUME SystemTypes, NEW fails \in BOOLEAN
    PROVE  GetPreferences(system, fails) \in SystemPreferences
BY PreferencesAssumption, NoneIsNoPreference
   DEF SystemTypes, GetPreferences, SystemPreferences, NoSystemPreferences, DefaultPreferences

LEMMA SystemInitInv == PreferencesInit => SystemInv
<1> SUFFICES ASSUME PreferencesInit PROVE SystemInv
    OBVIOUS
<1>1. DefaultPreferences \in SystemPreferences
      BY PreferencesAssumption DEF DefaultPreferences, SystemPreferences
<1>2. SystemTypes
      BY <1>1 DEF PreferencesInit, SystemTypes
<1>3. ChoicesKept
      BY DEF PreferencesInit, ChoicesKept, GetPreferences
<1> QED BY <1>2, <1>3 DEF SystemInv, PreferencesInit

LEMMA AskUpdateInv ==
    ASSUME SystemInv, NEW w \in Workers, NEW set \in Updates, AskUpdate(w, set)
    PROVE  SystemInv'
<1> DEFINE r == [at |-> "get", set |-> set, lost |-> FALSE, row |-> NoSystemPreferences,
                 stale |-> FALSE]
<1>1. r \in SRequest /\ r.at = "get"
      BY PreferencesAssumption DEF SRequest, NoSystemPreferences, SystemPreferences
<1>2. sreq' = [sreq EXCEPT ![w] = r] /\ UNCHANGED <<system, chosen, mislaid>>
      BY DEF AskUpdate
<1> HIDE DEF r
<1> QED BY <1>1, <1>2 DEF SystemInv, SystemTypes, ChoicesKept, SetsItsColumns

LEMMA ReadPreferencesInv ==
    ASSUME SystemInv, NEW w \in Workers, ReadPreferences(w)
    PROVE  SystemInv'
<1>1. PICK fails \in BOOLEAN :
          sreq' = [sreq EXCEPT ![w] =
               [@ EXCEPT !.at = "upsert", !.lost = fails,
                         !.row = Overwrite(GetPreferences(system, fails), sreq[w].set)]]
      BY DEF ReadPreferences
<1>2. /\ sreq[w] \in SRequest /\ sreq[w].set \in Updates
      /\ UNCHANGED <<system, chosen, mislaid>>
      BY DEF ReadPreferences, SystemInv, SystemTypes, SRequest
<1> PICK q : q = sreq[w]
    OBVIOUS
<1> PICK old : old = GetPreferences(system, fails)
    OBVIOUS
<1> PICK new : new = Overwrite(old, q.set)
    OBVIOUS
<1>3. old \in SystemPreferences
      BY RowsAreRead DEF SystemInv
<1>4. /\ new \in SystemPreferences /\ DOMAIN q.set \subseteq SystemColumns
      /\ \A c \in SystemColumns : new[c] = IF c \in DOMAIN q.set THEN q.set[c] ELSE old[c]
      BY <1>2, <1>3, SetColumns
<1> PICK r : r = [q EXCEPT !.at = "upsert", !.lost = fails, !.row = new]
    OBVIOUS
<1>5. /\ r \in SRequest /\ r.set = q.set /\ r.row = new /\ r.lost = fails
      /\ sreq' = [sreq EXCEPT ![w] = r]
      BY <1>1, <1>2, <1>4 DEF SRequest
<1>6. ~fails => \A c \in SystemColumns \ mislaid : old[c] = chosen[c]
      BY DEF SystemInv, ChoicesKept, SystemColumns
<1>7. SetsItsColumns(r)
      BY <1>4, <1>5, <1>6 DEF SetsItsColumns
<1>8. \A v \in Workers : sreq'[v] # None /\ sreq'[v].at = "upsert" => SetsItsColumns(sreq'[v])
      BY <1>5, <1>7 DEF SystemInv, SystemTypes
<1>9. \A v \in Workers : (sreq[v] # None /\ sreq[v].at = "upsert" => SetsItsColumns(sreq[v]))'
      BY <1>2, <1>8 DEF SetsItsColumns
<1>10. SystemTypes' /\ ChoicesKept'
      BY <1>2, <1>5 DEF SystemInv, SystemTypes, ChoicesKept
<1> QED BY <1>9, <1>10 DEF SystemInv

(* Nobody writes back a row as sound that has just changed.                *)
LEMMA OverrunKeepsWrites ==
    ASSUME NEW reqs \in [Workers -> SRequest \cup {None}],
           \A w \in Workers : reqs[w] # None /\ reqs[w].at = "upsert" =>
               \A c \in DOMAIN reqs[w].set : reqs[w].row[c] = reqs[w].set[c]
    PROVE  /\ OverrunUpdates(reqs) \in [Workers -> SRequest \cup {None}]
           /\ \A w \in Workers :
                 OverrunUpdates(reqs)[w] # None /\ OverrunUpdates(reqs)[w].at = "upsert" =>
                     SetsItsColumns(OverrunUpdates(reqs)[w])'
<1> SUFFICES ASSUME NEW w \in Workers
             PROVE  LET r == OverrunUpdates(reqs)[w] IN
                    /\ r \in SRequest \cup {None}
                    /\ r # None /\ r.at = "upsert" => SetsItsColumns(r)'
    BY DEF OverrunUpdates
<1> PICK q : q = reqs[w]
    OBVIOUS
<1>1. CASE q # None /\ q.at = "upsert"
      <2> PICK r : r = [q EXCEPT !.stale = TRUE]
          OBVIOUS
      <2>1. r \in SRequest /\ r.stale = TRUE /\ r.set = q.set /\ r.row = q.row
            BY <1>1 DEF SRequest
      <2>2. OverrunUpdates(reqs)[w] = r
            BY <1>1 DEF OverrunUpdates
      <2> QED BY <1>1, <2>1, <2>2 DEF SetsItsColumns
<1>2. CASE ~(q # None /\ q.at = "upsert")
      BY <1>2 DEF OverrunUpdates
<1> QED BY <1>1, <1>2

LEMMA WritePreferencesInv ==
    ASSUME SystemInv, NEW w \in Workers, WritePreferences(w)
    PROVE  SystemInv'
<1> PICK q : q = sreq[w]
    OBVIOUS
<1> PICK rest : rest = [sreq EXCEPT ![w] = None]
    OBVIOUS
<1>1. /\ q # None /\ q.at = "upsert" /\ q \in SRequest /\ SetsItsColumns(q)
      /\ q.row \in SystemPreferences /\ q.set \in Updates /\ q.lost \in BOOLEAN
      /\ q.stale \in BOOLEAN
      BY DEF WritePreferences, SystemInv, SystemTypes, SRequest
<1>2. /\ system' = q.row /\ sreq' = OverrunUpdates(rest)
      /\ chosen' = Overwrite(chosen, q.set)
      /\ mislaid' = (IF q.lost \/ q.stale THEN SystemColumns ELSE mislaid) \ DOMAIN q.set
      BY DEF WritePreferences, StoreSystem, SystemColumns
<1>3. /\ rest \in [Workers -> SRequest \cup {None}]
      /\ \A v \in Workers : rest[v] # None /\ rest[v].at = "upsert" =>
            \A c \in DOMAIN rest[v].set : rest[v].row[c] = rest[v].set[c]
      BY DEF SystemInv, SystemTypes, SetsItsColumns
<1>4. /\ chosen' \in SystemPreferences
      /\ \A c \in SystemColumns : chosen'[c] = IF c \in DOMAIN q.set THEN q.set[c] ELSE chosen[c]
      BY <1>1, <1>2, SetColumns DEF SystemInv, SystemTypes
<1>5. ChoicesKept'
      <2> SUFFICES ASSUME NEW c \in SystemColumns, c \notin mislaid'
                   PROVE  q.row[c] = chosen'[c]
          BY <1>1, <1>2, NoneIsNoPreference DEF ChoicesKept, GetPreferences, SystemColumns
      <2> QED BY <1>1, <1>2, <1>4 DEF SetsItsColumns
<1>6. SystemTypes'
      BY <1>1, <1>2, <1>3, <1>4, OverrunKeepsWrites DEF SystemInv, SystemTypes
<1> QED BY <1>2, <1>3, <1>5, <1>6, OverrunKeepsWrites DEF SystemInv

LEMMA UpdateFailsInv ==
    ASSUME SystemInv, NEW w \in Workers, UpdateFails(w)
    PROVE  SystemInv'
BY DEF UpdateFails, SystemInv, SystemTypes, ChoicesKept, SetsItsColumns

LEMMA ImportsSystemInv ==
    ASSUME SystemInv, ImportsSystem
    PROVE  SystemInv'
<1> PICK p : p = Normalized(LegacyPreferences)
    OBVIOUS
<1>1. p \in SystemPreferences
      BY BackfillAssumption, PreferencesAssumption DEF ImportsSystem, Normalized, SystemPreferences
<1>2. system' = p /\ chosen' = p /\ mislaid' = {} /\ sreq' = OverrunUpdates(sreq)
      BY DEF ImportsSystem
<1>3. /\ sreq \in [Workers -> SRequest \cup {None}]
      /\ \A v \in Workers : sreq[v] # None /\ sreq[v].at = "upsert" =>
            \A c \in DOMAIN sreq[v].set : sreq[v].row[c] = sreq[v].set[c]
      BY DEF SystemInv, SystemTypes, SetsItsColumns
<1>4. ChoicesKept'
      BY <1>1, <1>2, NoneIsNoPreference DEF ChoicesKept, GetPreferences
<1> QED BY <1>1, <1>2, <1>3, <1>4, OverrunKeepsWrites DEF SystemInv, SystemTypes

LEMMA SystemStepInv == SystemInv /\ [SystemStep]_systemVars => SystemInv'
<1> SUFFICES ASSUME SystemInv, [SystemStep]_systemVars PROVE SystemInv'
    OBVIOUS
<1>1. CASE UNCHANGED systemVars
      BY <1>1 DEF systemVars, SystemInv, SystemTypes, ChoicesKept, SetsItsColumns
<1>2. CASE PlayersNext
      <2>1. UNCHANGED systemVars
            BY <1>2 DEF PlayersNext, UpdateSettings, UpdateNotificationPreferences
      <2> QED BY <1>1, <2>1
<1>3. ASSUME NEW w \in Workers, UpdateMode(w) PROVE SystemInv'
      <2>1. PICK m \in Modes : AskUpdate(w, [mode |-> m])
            BY <1>3 DEF UpdateMode
      <2>2. [mode |-> m] \in Updates
            BY DEF Updates
      <2> QED BY <2>1, <2>2, AskUpdateInv
<1>4. ASSUME NEW w \in Workers, UpdateCallingState(w) PROVE SystemInv'
      <2>1. PICK c \in BOOLEAN : AskUpdate(w, [calling |-> c])
            BY <1>4 DEF UpdateCallingState
      <2>2. [calling |-> c] \in Updates
            BY DEF Updates
      <2> QED BY <2>1, <2>2, AskUpdateInv
<1>5. ASSUME NEW w \in Workers, UpdateOAuthProviders(w) PROVE SystemInv'
      <2>1. << >> \in Updates
            BY DEF Updates
      <2> QED BY <1>5, <2>1, AskUpdateInv DEF UpdateOAuthProviders
<1> QED BY <1>1, <1>2, <1>3, <1>4, <1>5, ReadPreferencesInv, WritePreferencesInv, UpdateFailsInv,
           ImportsSystemInv DEF SystemStep, SystemNext

LEMMA PlatformStepsSystem == [PlatformNext]_platformVars => [SystemStep]_systemVars
<1> SUFFICES ASSUME PlatformNext PROVE [SystemStep]_systemVars
    BY DEF platformVars, importVars, preferenceVars, systemVars
<1>1. CASE BackfillNext
      BY <1>1 DEF BackfillNext, StartBackfill, LookUpUser, ImportProfile, ImportPreferences,
                  BackfillFails, StoreSystem, SystemStep, ImportsSystem, tableVars,
                  preferenceVars, systemVars
<1>2. CASE SystemNext \/ PlayersNext
      BY <1>2 DEF SystemStep
<1>3. CASE UNCHANGED preferenceVars
      BY <1>3 DEF preferenceVars, systemVars
<1> QED BY <1>1, <1>2, <1>3 DEF PlatformNext, Handle, TimePasses, HandlePlayers, ImportProfiles,
           ImportSystem, importVars

LEMMA SystemInvHolds == PlatformSpec => []SystemInv
<1>1. PlatformInit => SystemInv
      BY SystemInitInv DEF PlatformInit
<1> QED BY <1>1, SystemStepInv, PlatformStepsSystem, PTL DEF PlatformSpec

(* Each column of the system preferences is what was chosen last, however  *)
(* many administrators change the row at once and the backfill beside      *)
(* them; only lost reads and overruns mislay a column.                     *)
THEOREM ChoicesStay == PlatformSpec => []ChoicesKept
<1>1. SystemInv => ChoicesKept
      BY DEF SystemInv
<1> QED BY <1>1, SystemInvHolds, PTL

-----------------------------------------------------------------------------
(* Backfill                                                                *)

JobTypes ==
    job \in [at : {"idle", "user", "upsert", "prefs", "done", "failed"},
             dry : BOOLEAN, allow : BOOLEAN, i : Nat \ {0},
             imported : SUBSET (Nat \ {0}), unread : SUBSET (Nat \ {0}), prefs : BOOLEAN]

MayImport(k, allow) == Legacy[k].user \in Registered \/ allow

(* What a run has done with the entries before the one it is at.           *)
DoneBefore(j) ==
    /\ j.dry => j.imported = {}
    /\ ~j.allow => \A k \in j.imported : Legacy[k].user \in Registered
    /\ \A k \in 1..Len(Legacy) :
          k < j.i /\ Legacy[k].user # None /\ MayImport(k, j.allow) /\ k \notin j.unread /\ ~j.dry
              => k \in j.imported

JobInv ==
    /\ JobTypes
    /\ job.at \in {"user", "upsert"} => job.i <= Len(Legacy)
    /\ job.at \in {"prefs", "done"}  => job.i = Len(Legacy) + 1
    /\ job.at = "upsert" => /\ ~job.dry /\ MayImport(job.i, job.allow)
                            /\ Legacy[job.i].user # None
    /\ job.at \notin {"idle", "failed"} => DoneBefore(job)

LEMMA LegacyLength ==
    Len(Legacy) \in Nat /\ DOMAIN Legacy = 1..Len(Legacy) /\ (Legacy # << >> => Len(Legacy) # 0)
<1> DEFINE S == [user : Users \cup {None}, row : Profile]
<1>1. Legacy \in Seq(S)
      BY BackfillAssumption
<1> HIDE DEF S
<1> QED BY <1>1

(* Going on to the next entry, once this one is accounted for.             *)
LEMMA ProceedInv ==
    ASSUME JobInv, job.at \in {"user", "upsert"},
           NEW j, j \in [at : {"user", "upsert"}, dry : BOOLEAN, allow : BOOLEAN, i : Nat \ {0},
                         imported : SUBSET (Nat \ {0}), unread : SUBSET (Nat \ {0}),
                         prefs : BOOLEAN],
           j.i = job.i, DoneBefore(j),
           Legacy[j.i].user # None /\ MayImport(j.i, j.allow) /\ j.i \notin j.unread /\ ~j.dry
               => j.i \in j.imported,
           job' = Proceed(j)
    PROVE  JobInv'
<1>1. /\ job' \in [at : {"user", "prefs"}, dry : BOOLEAN, allow : BOOLEAN, i : Nat \ {0},
                   imported : SUBSET (Nat \ {0}), unread : SUBSET (Nat \ {0}), prefs : BOOLEAN]
      /\ job'.at = IF j.i = Len(Legacy) THEN "prefs" ELSE "user"
      /\ job'.i = j.i + 1 /\ job'.dry = j.dry /\ job'.allow = j.allow
      /\ job'.imported = j.imported /\ job'.unread = j.unread
      <2>1. PICK at \in {"user", "prefs"} : at = IF j.i = Len(Legacy) THEN "prefs" ELSE "user"
            OBVIOUS
      <2>2. PICK i \in Nat \ {0} : i = j.i + 1
            OBVIOUS
      <2>3. job' = [j EXCEPT !.i = i, !.at = at]
            BY <2>1, <2>2 DEF Proceed
      <2> QED BY <2>1, <2>2, <2>3
<1>2. Len(Legacy) \in Nat /\ j.i <= Len(Legacy) /\ j.i \in Nat
      BY LegacyLength DEF JobInv
<1>3. JobTypes'
      BY <1>1 DEF JobTypes
<1>4. /\ job'.at = "user" => job'.i <= Len(Legacy)
      /\ job'.at = "prefs" => job'.i = Len(Legacy) + 1
      BY <1>1, <1>2
<1>5. ASSUME NEW k \in 1..Len(Legacy), k < job'.i, Legacy[k].user # None,
             MayImport(k, j.allow), k \notin j.unread, ~j.dry
      PROVE  k \in j.imported
      <2>1. CASE k = j.i
            BY <2>1, <1>5
      <2>2. CASE k # j.i
            <3>1. k < j.i
                  BY <2>2, <1>1, <1>2, <1>5
            <3> QED BY <3>1, <1>5 DEF DoneBefore
      <2> QED BY <2>1, <2>2
<1>6. DoneBefore(job)'
      BY <1>1, <1>5 DEF DoneBefore, MayImport
<1> QED BY <1>1, <1>3, <1>4, <1>6 DEF JobInv

LEMMA StartBackfillInv == JobInv /\ StartBackfill => JobInv'
<1> SUFFICES ASSUME JobInv, StartBackfill PROVE JobInv'
    OBVIOUS
<1>1. PICK dry \in BOOLEAN, allow \in BOOLEAN :
         job' = [at |-> IF Legacy = << >> THEN "prefs" ELSE "user", dry |-> dry,
                 allow |-> allow, i |-> 1, imported |-> {}, unread |-> {}, prefs |-> FALSE]
      BY DEF StartBackfill, NoJob
<1>2. JobTypes'
      BY <1>1 DEF JobTypes
<1>3. DoneBefore(job)'
      BY <1>1, LegacyLength DEF DoneBefore
<1>4. Legacy = << >> => Len(Legacy) = 0
      OBVIOUS
<1> QED BY <1>1, <1>2, <1>3, <1>4, LegacyLength DEF JobInv

LEMMA LookUpUserInv == JobInv /\ LookUpUser => JobInv'
<1> SUFFICES ASSUME JobInv, LookUpUser PROVE JobInv'
    OBVIOUS
<1>1. job.at = "user" /\ DoneBefore(job) /\ job \in
         [at : {"user", "upsert"}, dry : BOOLEAN, allow : BOOLEAN, i : Nat \ {0},
          imported : SUBSET (Nat \ {0}), unread : SUBSET (Nat \ {0}), prefs : BOOLEAN]
      BY DEF LookUpUser, JobInv, JobTypes
<1>2. CASE Legacy[job.i].user = None
      BY <1>1, <1>2, ProceedInv DEF LookUpUser
<1>3. CASE Legacy[job.i].user # None
      <2> DEFINE known  == Legacy[job.i].user \in Registered
                 unknown(e) == e /\ known /\ ~job.allow /\ ~job.dry
      <2>1. PICK err \in BOOLEAN, un \in SUBSET (Nat \ {0}) :
               /\ un = IF unknown(err) THEN job.unread \cup {job.i} ELSE job.unread
               /\ ~known => err
               /\ job' = IF (err /\ ~job.allow) \/ job.dry
                           THEN Proceed([job EXCEPT !.unread = un])
                           ELSE [job EXCEPT !.unread = un, !.at = "upsert"]
            <3>1. PICK err \in BOOLEAN :
                     /\ ~known => err
                     /\ job' = IF (err /\ ~job.allow) \/ job.dry
                           THEN Proceed([job EXCEPT !.unread =
                                  IF unknown(err) THEN @ \cup {job.i} ELSE @])
                           ELSE [[job EXCEPT !.unread =
                                  IF unknown(err) THEN @ \cup {job.i} ELSE @]
                                  EXCEPT !.at = "upsert"]
                  BY <1>3 DEF LookUpUser, Skips
            <3>2. (IF unknown(err) THEN job.unread \cup {job.i} ELSE job.unread)
                     \in SUBSET (Nat \ {0})
                  BY <1>1
            <3> QED BY <1>1, <3>1, <3>2
      <2>2. PICK j : j = [job EXCEPT !.unread = un]
            OBVIOUS
      <2>3. /\ j \in [at : {"user", "upsert"}, dry : BOOLEAN, allow : BOOLEAN, i : Nat \ {0},
                      imported : SUBSET (Nat \ {0}), unread : SUBSET (Nat \ {0}),
                      prefs : BOOLEAN]
            /\ j.i = job.i /\ j.dry = job.dry /\ j.allow = job.allow
            /\ j.imported = job.imported /\ j.unread = un
            BY <1>1, <2>2
      <2>4. DoneBefore(j)
            BY <1>1, <2>1, <2>3 DEF DoneBefore
      <2>5. CASE (err /\ ~job.allow) \/ job.dry
            <3>1. Legacy[j.i].user # None /\ MayImport(j.i, j.allow) /\ j.i \notin j.unread
                     /\ ~j.dry => FALSE
                  BY <2>1, <2>3, <2>5 DEF MayImport
            <3>2. job' = Proceed(j)
                  BY <2>1, <2>2, <2>5
            <3> QED BY <1>1, <2>3, <2>4, <3>1, <3>2, ProceedInv
      <2>6. CASE ~((err /\ ~job.allow) \/ job.dry)
            <3>1. /\ job' \in [at : {"upsert"}, dry : BOOLEAN, allow : BOOLEAN, i : Nat \ {0},
                      imported : SUBSET (Nat \ {0}), unread : SUBSET (Nat \ {0}),
                      prefs : BOOLEAN]
                  /\ job'.i = job.i /\ job'.dry = job.dry /\ job'.allow = job.allow
                  /\ job'.imported = job.imported /\ job'.unread = un
                  BY <1>1, <2>1, <2>6
            <3>2. DoneBefore(job)'
                  BY <2>3, <2>4, <3>1 DEF DoneBefore, MayImport
            <3>3. ~job'.dry /\ MayImport(job'.i, job'.allow)
                  BY <2>1, <2>6, <3>1 DEF MayImport
            <3> QED BY <1>1, <1>3, <3>1, <3>2, <3>3 DEF JobInv, JobTypes, MayImport
      <2> QED BY <2>5, <2>6
<1> QED BY <1>2, <1>3

LEMMA ImportProfileInv == JobInv /\ ImportProfile => JobInv'
<1> SUFFICES ASSUME JobInv, ImportProfile PROVE JobInv'
    OBVIOUS
<1>1. /\ job.at = "upsert" /\ DoneBefore(job) /\ ~job.dry /\ MayImport(job.i, job.allow)
      /\ job \in [at : {"user", "upsert"}, dry : BOOLEAN, allow : BOOLEAN, i : Nat \ {0},
          imported : SUBSET (Nat \ {0}), unread : SUBSET (Nat \ {0}), prefs : BOOLEAN]
      BY DEF ImportProfile, JobInv, JobTypes
<1>2. PICK j : j = [job EXCEPT !.imported = @ \cup {job.i}]
      OBVIOUS
<1>3. /\ j \in [at : {"user", "upsert"}, dry : BOOLEAN, allow : BOOLEAN, i : Nat \ {0},
          imported : SUBSET (Nat \ {0}), unread : SUBSET (Nat \ {0}), prefs : BOOLEAN]
      /\ j.i = job.i /\ j.dry = job.dry /\ j.allow = job.allow
      /\ j.imported = job.imported \cup {job.i} /\ j.unread = job.unread
      BY <1>1, <1>2
<1>4. DoneBefore(j)
      BY <1>1, <1>3 DEF DoneBefore, MayImport
<1>5. job' = Proceed(j)
      BY <1>2 DEF ImportProfile
<1> QED BY <1>1, <1>3, <1>4, <1>5, ProceedInv

LEMMA ImportPreferencesInv == JobInv /\ ImportPreferences => JobInv'
<1> SUFFICES ASSUME JobInv, ImportPreferences PROVE JobInv'
    OBVIOUS
<1>1. /\ job.at = "prefs" /\ JobTypes /\ DoneBefore(job) /\ job.i = Len(Legacy) + 1
      /\ job' = [job EXCEPT !.at = "done", !.prefs = TRUE]
      BY DEF ImportPreferences, JobInv
<1>2. /\ JobTypes' /\ job'.at = "done" /\ job'.i = job.i /\ job'.dry = job.dry
      /\ job'.allow = job.allow /\ job'.imported = job.imported /\ job'.unread = job.unread
      BY <1>1 DEF JobTypes
<1>3. DoneBefore(job)'
      BY <1>1, <1>2 DEF DoneBefore, MayImport
<1> QED BY <1>1, <1>2, <1>3 DEF JobInv

LEMMA BackfillStepInv == JobInv /\ [BackfillNext]_job => JobInv'
<1> SUFFICES ASSUME JobInv, [BackfillNext]_job PROVE JobInv'
    OBVIOUS
<1>1. CASE BackfillFails
      <2>1. job' = [at |-> "failed", dry |-> FALSE, allow |-> FALSE, i |-> 1,
                    imported |-> {}, unread |-> {}, prefs |-> FALSE]
            BY <1>1 DEF BackfillFails, NoJob
      <2>2. JobTypes' /\ job'.at = "failed"
            BY <2>1 DEF JobTypes
      <2> QED BY <2>2 DEF JobInv
<1>2. CASE UNCHANGED job
      BY <1>2 DEF JobInv, JobTypes, DoneBefore, MayImport
<1> QED BY <1>1, <1>2, StartBackfillInv, LookUpUserInv, ImportProfileInv, ImportPreferencesInv
        DEF BackfillNext

LEMMA PlatformStepsBackfill == [PlatformNext]_platformVars => [BackfillNext]_job
BY DEF platformVars, importVars, backfillVars, PlatformNext, Handle, TimePasses, ImportProfiles,
       ImportSystem

LEMMA JobInvHolds == PlatformSpec => []JobInv
<1>1. PlatformInit => JobInv
      BY DEF PlatformInit, BackfillInit, NoJob, JobInv, JobTypes
<1> QED BY <1>1, BackfillStepInv, PlatformStepsBackfill, PTL DEF PlatformSpec

(* A run of the backfill that says it is done has not left out an entry it *)
(* should have imported, nor imported one it should have left out,         *)
(* wherever earlier runs of it broke off and whatever the handlers wrote.  *)
THEOREM BackfillsAreComplete == PlatformSpec => []ImportComplete
<1>1. JobInv => ImportComplete
      <2> SUFFICES ASSUME JobInv, job.at = "done" PROVE ImportComplete
          BY DEF ImportComplete
      <2>1. DOMAIN Legacy = 1..Len(Legacy)
            BY LegacyLength
      <2>2. DoneBefore(job) /\ job.i = Len(Legacy) + 1
            BY DEF JobInv
      <2>3. \A k \in 1..Len(Legacy) : k < job.i
            BY <2>2, LegacyLength
      <2> QED BY <2>1, <2>2, <2>3 DEF ImportComplete, DoneBefore, MayImport
<1> QED BY <1>1, JobInvHolds, PTL

-----------------------------------------------------------------------------
(* Profiles                                                                *)

(* The backfill writes rows, too.                                          *)
ImportsRow(i) ==
    LET e == Legacy[i] IN
    /\ e.user # None
    /\ profiles' = [profiles EXCEPT ![e.user] = e.row]
    /\ preq' = Overrun(preq, e.user)
    /\ acked' = [acked EXCEPT ![e.user] = e.row]
    /\ disturbed' = disturbed \ {e.user}

ProfilesStep ==
    \/ ProfilesNext /\ UNCHANGED now
    \/ (\E i \in 1..Len(Legacy) : ImportsRow(i)) /\ UNCHANGED now
    \/ Tick /\ UNCHANGED profileVars

(* The rows the table may hold.                                            *)
Rows == Profile

ProfileRequests ==
    {r \in PRequest : /\ r.op = "init" => r.text \in Texts
                      /\ r.at = "upsert" => r.time # 0 /\ r.row \in Rows}

ProfileTypes ==
    /\ now \in Times
    /\ profiles \in [Users -> Rows \cup {None}]
    /\ preq \in [Workers -> ProfileRequests \cup {None}]
    /\ acked \in [Users -> Profile]
    /\ disturbed \subseteq Users

(* What a request makes of the row it reads, at the time it reads it.      *)
ChangedAt(r, old, time) ==
    LET row == IF old = None THEN ZeroProfile ELSE old IN
    CASE r.op = "patch" -> CreatedBy(Overwrite(row, r.patch), time)
      [] r.op = "init"  -> InitUser(row, old # None, r.text, time)
      [] r.op = "sync"  -> SyncProfile(row, r.user, r.text, time)

ToldAt(r, told, old, time) ==
    [Answer(r, told, old) EXCEPT !.created =
        IF old = None \/ (told.created = 0 /\ r.op # "init") THEN time ELSE @]

(* A row shows what its user was told.                                     *)
Shows(old, told, u) ==
    IF old = None THEN told = ZeroProfile
    ELSE /\ firstNonEmpty(old.username, UserName[u]) = firstNonEmpty(told.username, UserName[u])
         /\ old.bg = told.bg /\ old.online = told.online /\ old.beta = told.beta
         /\ old.created = told.created

(* The row a sound request will write is made from the row that is there.  *)
WritesWhatItRead(r) ==
    ~r.lost /\ ~r.stale => r.row = ChangedAt(r, profiles[r.user], r.time)

ProfilesInv ==
    /\ ProfileTypes
    /\ \A w \in Workers : preq[w] # None /\ preq[w].at = "upsert" => WritesWhatItRead(preq[w])
    /\ \A u \in Users \ disturbed : Shows(profiles[u], acked[u], u)

LEMMA PatchedIsProfile ==
    ASSUME NEW row \in Profile, NEW patch \in Patches
    PROVE  /\ Overwrite(row, patch) \in Profile
           /\ Overwrite(row, patch) =
                [username |-> IF "username" \in DOMAIN patch THEN patch.username ELSE row.username,
                 bg |-> IF "bg" \in DOMAIN patch THEN patch.bg ELSE row.bg,
                 online |-> row.online, beta |-> row.beta, created |-> row.created]
<1>1. DOMAIN row = {"username", "bg", "online", "beta", "created"}
      BY DEF Profile
<1>2. DOMAIN patch \subseteq {"username", "bg"}
      BY DEF Patches, Columns
<1>3. Overwrite(row, patch) =
                [username |-> IF "username" \in DOMAIN patch THEN patch.username ELSE row.username,
                 bg |-> IF "bg" \in DOMAIN patch THEN patch.bg ELSE row.bg,
                 online |-> row.online, beta |-> row.beta, created |-> row.created]
      BY <1>1, <1>2 DEF Overwrite
<1>4. \A c \in DOMAIN patch : patch[c] \in Texts
      BY DEF Patches
<1>5. PICK name \in Texts, url \in Texts :
        /\ name = (IF "username" \in DOMAIN patch THEN patch.username ELSE row.username)
        /\ url = (IF "bg" \in DOMAIN patch THEN patch.bg ELSE row.bg)
      BY <1>4 DEF Profile
<1>6. Overwrite(row, patch) = [username |-> name, bg |-> url, online |-> row.online,
                               beta |-> row.beta, created |-> row.created]
      BY <1>3, <1>5
<1> QED BY <1>3, <1>6 DEF Profile

LEMMA CreatedIsRow ==
    ASSUME NEW row \in Profile, NEW time \in Times
    PROVE  /\ CreatedBy(row, time) \in Rows
           /\ CreatedBy(row, time) = [username |-> row.username, bg |-> row.bg,
                 online |-> row.online, beta |-> row.beta,
                 created |-> IF row.created = 0 THEN time ELSE row.created]
<1>1. PICK t \in 0..MaxTime : t = (IF row.created = 0 THEN time ELSE row.created) /\ t # 0
      BY RequestsAssumption DEF Profile, Times
<1>2. CreatedBy(row, time) = [row EXCEPT !.created = t]
      BY <1>1 DEF CreatedBy
<1> QED BY <1>1, <1>2 DEF Profile, Rows

(* The row a request writes: a row, and what it answers to its user.       *)
LEMMA ChangedShows ==
    ASSUME NEW r \in ProfileRequests, NEW old \in Rows \cup {None}, NEW time \in Times,
           NEW told \in Profile, Shows(old, told, r.user),
           NEW new, new = ToldAt(r, told, old, time)
    PROVE  /\ ChangedAt(r, old, time) \in Rows
           /\ new \in Profile /\ Shows(ChangedAt(r, old, time), new, r.user)
<1> DEFINE zero == [username |-> Empty, bg |-> Empty, online |-> FALSE, beta |-> FALSE,
                    created |-> 0]
<1>0. zero = ZeroProfile /\ zero \in Profile /\ None \notin Rows /\ time \in 0..MaxTime /\ time # 0
      BY RequestsAssumption, NoneIsNoProfile DEF ZeroProfile, Profile, Texts, Rows, Times
<1>1. PICK row \in Profile : row = IF old = None THEN ZeroProfile ELSE old
      BY <1>0 DEF Rows
<1>2. /\ old = None => row = zero /\ told = zero
      /\ old # None => /\ row = old
                       /\ row.bg = told.bg /\ row.online = told.online /\ row.beta = told.beta
                       /\ row.created = told.created
                       /\ firstNonEmpty(row.username, UserName[r.user])
                            = firstNonEmpty(told.username, UserName[r.user])
      BY <1>0, <1>1 DEF Shows, Rows
<1>3. PICK at \in 0..MaxTime : at = (IF row.created = 0 THEN time ELSE row.created) /\ at # 0
                                /\ at = IF old = None \/ told.created = 0 THEN time ELSE told.created
      BY <1>0, <1>1, <1>2 DEF Profile
<1>4. r \in PRequest /\ r.op \in {"patch", "init", "sync"} /\ r.user \in Users
      /\ UserName[r.user] \in Names /\ UserName[r.user] # Empty
      BY ProfilesAssumption DEF ProfileRequests, PRequest, Operations
<1>5. CASE r.op = "patch"
      <2>1. r.patch \in Patches
            BY <1>4 DEF PRequest
      <2>2. PICK name \in Texts, url \in Texts, shown \in Texts :
               /\ name = (IF "username" \in DOMAIN r.patch THEN r.patch.username ELSE row.username)
               /\ url = (IF "bg" \in DOMAIN r.patch THEN r.patch.bg ELSE row.bg)
               /\ shown = (IF "username" \in DOMAIN r.patch THEN r.patch.username
                                                              ELSE told.username)
            BY <2>1 DEF Patches, Profile
      <2>3. Overwrite(row, r.patch) = [username |-> name, bg |-> url, online |-> row.online,
                                       beta |-> row.beta, created |-> row.created]
            /\ Overwrite(row, r.patch) \in Profile
            BY <2>1, <2>2, PatchedIsProfile
      <2>4. ChangedAt(r, old, time) = CreatedBy(Overwrite(row, r.patch), time)
            BY <1>1, <1>5 DEF ChangedAt
      <2>5. ChangedAt(r, old, time) = [username |-> name, bg |-> url, online |-> row.online,
                                       beta |-> row.beta, created |-> at]
            /\ ChangedAt(r, old, time) \in Rows
            BY <1>3, <2>3, <2>4, CreatedIsRow
      <2>6. Overwrite(told, r.patch) = [username |-> shown, online |-> told.online,
               bg |-> IF "bg" \in DOMAIN r.patch THEN r.patch.bg ELSE told.bg,
               beta |-> told.beta, created |-> told.created]
            BY <2>1, <2>2, PatchedIsProfile
      <2>7. (IF "bg" \in DOMAIN r.patch THEN r.patch.bg ELSE told.bg) = url
            BY <1>2, <2>2
      <2>8. Answer(r, told, old) = Overwrite(told, r.patch)
            BY <1>5 DEF Answer
      <2>9. new = [username |-> shown, bg |-> url, online |-> told.online,
                   beta |-> told.beta, created |-> at]
            <3>1. PICK answer : answer = Answer(r, told, old)
                  OBVIOUS
            <3>2. new = [answer EXCEPT !.created =
                            IF old = None \/ told.created = 0 THEN time ELSE @]
                  BY <1>5, <3>1 DEF ToldAt
            <3>3. answer = [username |-> shown, online |-> told.online, bg |-> url,
                            beta |-> told.beta, created |-> told.created]
                  BY <2>6, <2>7, <2>8, <3>1
            <3> QED BY <1>3, <3>2, <3>3
      <2>10. firstNonEmpty(name, UserName[r.user]) = firstNonEmpty(shown, UserName[r.user])
            BY <1>2, <2>2
      <2>11. /\ row.online = told.online /\ row.beta = told.beta
             /\ row.online \in BOOLEAN /\ row.beta \in BOOLEAN
            BY <1>2 DEF Profile
      <2>12. new \in Profile
            BY <2>9, <2>11 DEF Profile
      <2>13. ChangedAt(r, old, time) # None
            BY <1>0, <2>5
      <2>14. Shows(ChangedAt(r, old, time), new, r.user)
            BY <2>5, <2>9, <2>10, <2>11, <2>13 DEF Shows
      <2> QED BY <2>5, <2>12, <2>14
<1>6. CASE r.op = "init"
      <2>1. r.text \in Texts
            BY <1>6 DEF ProfileRequests
      <2>2. CASE old = None
            <3>1. ChangedAt(r, old, time) = [username |-> r.text, bg |-> Empty, online |-> TRUE,
                                             beta |-> FALSE, created |-> time]
                  BY <1>6, <2>2 DEF ChangedAt, InitUser, ZeroProfile
            <3>2. Answer(r, told, old) = [told EXCEPT !.online = TRUE, !.username = r.text]
                  BY <1>6, <2>2 DEF Answer
            <3>3. Answer(r, told, old) = [username |-> r.text, bg |-> Empty, online |-> TRUE,
                                           beta |-> FALSE, created |-> 0]
                  <4>1. told = [username |-> Empty, bg |-> Empty, online |-> FALSE, beta |-> FALSE,
                                created |-> 0]
                        BY <1>2, <2>2
                  <4> HIDE DEF zero
                  <4> QED BY <3>2, <4>1
            <3>4. new = ChangedAt(r, old, time)
                  <4>1. PICK answer : answer = Answer(r, told, old)
                        OBVIOUS
                  <4>2. new = [answer EXCEPT !.created = time]
                        BY <2>2, <4>1 DEF ToldAt
                  <4>3. answer = [username |-> r.text, bg |-> Empty, online |-> TRUE,
                                  beta |-> FALSE, created |-> 0]
                        BY <3>3, <4>1
                  <4> HIDE DEF zero
                  <4> QED BY <3>1, <4>2, <4>3
            <3>5. new \in Rows
                  <4>1. [username |-> r.text, bg |-> Empty, online |-> TRUE,
                         beta |-> FALSE, created |-> time] \in Rows
                        BY <1>0, <2>1 DEF Profile, Rows, Texts
                  <4> QED BY <3>1, <3>4, <4>1
            <3> QED BY <1>0, <3>4, <3>5 DEF Shows, Rows
      <2>3. CASE old # None
            <3>1. ChangedAt(r, old, time) = [row EXCEPT !.online = TRUE]
                  BY <1>1, <1>6, <2>3 DEF ChangedAt, InitUser
            <3>2. [row EXCEPT !.online = TRUE] \in Rows
                  BY <1>2, <2>3 DEF Profile, Rows
            <3>3. Answer(r, told, old) = [told EXCEPT !.online = TRUE]
                  BY <1>6, <2>3 DEF Answer, Profile
            <3>4. new = [told EXCEPT !.online = TRUE] /\ new \in Profile
                  <4>1. PICK answer : answer = Answer(r, told, old)
                        OBVIOUS
                  <4>2. answer = [username |-> told.username, bg |-> told.bg, online |-> TRUE,
                                  beta |-> told.beta, created |-> told.created]
                        BY <3>3, <4>1 DEF Profile
                  <4>3. new = [answer EXCEPT !.created = @]
                        BY <1>6, <2>3, <4>1 DEF ToldAt
                  <4>4. new = answer
                        BY <4>2, <4>3
                  <4>5. new = [told EXCEPT !.online = TRUE]
                        BY <3>3, <4>1, <4>4
                  <4>6. told.username \in Texts /\ told.bg \in Texts /\ told.beta \in BOOLEAN
                        /\ told.created \in 0..MaxTime
                        BY DEF Profile
                  <4>7. new \in Profile
                        BY <4>2, <4>4, <4>6 DEF Profile
                  <4> QED BY <4>5, <4>7
            <3>5. Shows([row EXCEPT !.online = TRUE], [told EXCEPT !.online = TRUE], r.user)
                  BY <1>0, <1>2, <2>3, <3>2 DEF Shows, Profile
            <3> QED BY <3>1, <3>2, <3>4, <3>5
      <2> QED BY <2>2, <2>3
<1>7. CASE r.op = "sync"
      <2>1. PICK on \in BOOLEAN : on = (r.text = "signIn")
            OBVIOUS
      <2>2. PICK name \in Texts : name = firstNonEmpty(row.username, UserName[r.user])
            BY <1>4 DEF firstNonEmpty, Profile, Texts
      <2>3. CreatedBy(row, time) = [username |-> row.username, bg |-> row.bg,
                 online |-> row.online, beta |-> row.beta, created |-> at]
            BY <1>3, CreatedIsRow
      <2>4. ChangedAt(r, old, time) = SyncProfile(row, r.user, r.text, time)
            BY <1>1, <1>7 DEF ChangedAt
      <2>5. ChangedAt(r, old, time) = [username |-> name, bg |-> row.bg, online |-> on,
                                       beta |-> row.beta, created |-> at]
            <3>1. PICK c : c = CreatedBy(row, time)
                  OBVIOUS
            <3>2. SyncProfile(row, r.user, r.text, time) =
                    [c EXCEPT !.username = firstNonEmpty(@, UserName[r.user]), !.online = on]
                  BY <2>1, <3>1 DEF SyncProfile
            <3>3. c = [username |-> row.username, bg |-> row.bg,
                 online |-> row.online, beta |-> row.beta, created |-> at]
                  BY <2>3, <3>1
            <3>4. [c EXCEPT !.username = firstNonEmpty(@, UserName[r.user]), !.online = on]
                    = [c EXCEPT !.username = name, !.online = on]
                  BY <2>2, <3>3
            <3> QED BY <2>4, <3>2, <3>3, <3>4
      <2>6. ChangedAt(r, old, time) \in Rows
            BY <1>3, <2>5 DEF Profile, Rows
      <2>7. Answer(r, told, old) = [told EXCEPT !.online = on]
            BY <1>7, <2>1 DEF Answer
      <2>8. new = [username |-> told.username, bg |-> told.bg, online |-> on,
                   beta |-> told.beta, created |-> at]
            <3>1. PICK answer : answer = Answer(r, told, old)
                  OBVIOUS
            <3>2. new = [answer EXCEPT !.created =
                            IF old = None \/ told.created = 0 THEN time ELSE @]
                  BY <1>7, <3>1 DEF ToldAt
            <3>3. answer = [username |-> told.username, online |-> on, bg |-> told.bg,
                            beta |-> told.beta, created |-> told.created]
                  BY <2>7, <3>1 DEF Profile
            <3> QED BY <1>3, <3>2, <3>3
      <2>9. new \in Profile
            BY <2>8 DEF Profile
      <2>10. firstNonEmpty(name, UserName[r.user]) = firstNonEmpty(told.username, UserName[r.user])
            BY <1>2, <1>4, <2>2 DEF firstNonEmpty
      <2>11. row.bg = told.bg /\ row.beta = told.beta /\ ChangedAt(r, old, time) # None
            BY <1>0, <1>2, <2>6
      <2>12. Shows(ChangedAt(r, old, time), new, r.user)
            BY <2>5, <2>8, <2>10, <2>11 DEF Shows
      <2> QED BY <2>6, <2>9, <2>12
<1> QED BY <1>4, <1>5, <1>6, <1>7

-----------------------------------------------------------------------------
(* Steps                                                                   *)

LEMMA ProfileConstants ==
    /\ None \notin Rows /\ None \notin Users
    /\ ZeroProfile \in Profile
    /\ Times \subseteq 0..MaxTime /\ 0 \notin Times
BY RequestsAssumption, NoneIsNoProfile DEF ZeroProfile, Profile, Texts, Rows, Times

(* A request that waits for another call than its write.                   *)
LEMMA WaitingKept ==
    ASSUME ProfilesInv, NEW w \in Workers, NEW r \in ProfileRequests \cup {None},
           r # None => r.at # "upsert",
           preq' = [preq EXCEPT ![w] = r],
           UNCHANGED <<now, profiles, acked, disturbed>>
    PROVE  ProfilesInv'
<1>1. ProfileTypes'
      BY DEF ProfilesInv, ProfileTypes
<1>2. ASSUME NEW v \in Workers, preq'[v] # None, preq'[v].at = "upsert"
      PROVE  WritesWhatItRead(preq'[v])
      <2>1. preq'[v] = preq[v]
            BY <1>2 DEF ProfilesInv, ProfileTypes
      <2> QED BY <1>2, <2>1 DEF ProfilesInv
<1>3. \A v \in Workers : (preq[v] # None /\ preq[v].at = "upsert" => WritesWhatItRead(preq[v]))'
      BY <1>2 DEF WritesWhatItRead
<1> QED BY <1>1, <1>3 DEF ProfilesInv

LEMMA AskInv ==
    ASSUME ProfilesInv, NEW w \in Workers, NEW at \in {"user", "get"}, NEW op \in Operations,
           NEW u \in Users, NEW patch \in Patches, NEW text \in Texts \cup Actions,
           op = "init" => text \in Texts, Ask(w, at, op, u, patch, text), UNCHANGED now
    PROVE  ProfilesInv'
<1>1. PICK r : r = [at |-> at, op |-> op, user |-> u, patch |-> patch, text |-> text,
                    time |-> 0, row |-> ZeroProfile, lost |-> FALSE, stale |-> FALSE]
      OBVIOUS
<1>2. r \in ProfileRequests /\ r.at # "upsert"
      <2>1. r \in PRequest /\ r.op = op /\ r.text = text /\ r.at = at
            BY <1>1, ProfileConstants, RequestsAssumption DEF PRequest
      <2> QED BY <2>1 DEF ProfileRequests
<1>3. preq' = [preq EXCEPT ![w] = r] /\ UNCHANGED <<profiles, acked, disturbed>>
      BY <1>1 DEF Ask
<1> QED BY <1>2, <1>3, WaitingKept

LEMMA ReadUserInv == ProfilesInv /\ (\E w \in Workers : ReadUser(w)) /\ UNCHANGED now => ProfilesInv'
<1> SUFFICES ASSUME ProfilesInv, NEW w \in Workers, ReadUser(w), UNCHANGED now PROVE ProfilesInv'
    OBVIOUS
<1>1. preq[w] \in ProfileRequests
      BY DEF ReadUser, PIdle, ProfilesInv, ProfileTypes
<1>2. PICK r : r = [preq[w] EXCEPT !.at = "get"]
      OBVIOUS
<1>3. r \in ProfileRequests /\ r.at = "get"
      BY <1>1, <1>2 DEF ProfileRequests, PRequest
<1>4. preq' = [preq EXCEPT ![w] = r]
      BY <1>2 DEF ReadUser, ProfilesInv, ProfileTypes
<1> QED BY <1>3, <1>4, WaitingKept DEF ReadUser

LEMMA PFailInv == ProfilesInv /\ (\E w \in Workers : PFail(w)) /\ UNCHANGED now => ProfilesInv'
BY WaitingKept DEF PFail

(* The row a request makes of what it read, by a shown copy of that row.   *)
LEMMA ChangedIsRow ==
    ASSUME NEW r \in ProfileRequests, NEW old \in Rows \cup {None}, NEW time \in Times
    PROVE  ChangedAt(r, old, time) \in Rows
<1>1. PICK told \in Profile : told = IF old = None THEN ZeroProfile ELSE old
      BY ProfileConstants DEF Rows
<1>2. Shows(old, told, r.user)
      BY <1>1 DEF Shows
<1> QED BY <1>2, ChangedShows

LEMMA GetByPlayerIDInv ==
    ASSUME ProfilesInv, NEW w \in Workers, GetByPlayerID(w), UNCHANGED now
    PROVE  ProfilesInv'
<1>1. /\ preq[w] \in ProfileRequests /\ preq[w].at = "get" /\ preq[w].user \in Users
      /\ now \in Times /\ profiles[preq[w].user] \in Rows \cup {None}
      BY DEF GetByPlayerID, PIdle, ProfilesInv, ProfileTypes, ProfileRequests, PRequest
<1>2. CASE preq' = [preq EXCEPT ![w] = None]
      BY <1>2, WaitingKept DEF GetByPlayerID
<1>3. CASE preq' # [preq EXCEPT ![w] = None]
      <2>0. PICK fails \in BOOLEAN : preq' = [preq EXCEPT ![w] =
                [preq[w] EXCEPT !.at = "upsert", !.time = now, !.lost = fails,
                                !.row = Changed(preq[w], fails)]]
            BY <1>3 DEF GetByPlayerID
      <2>1. PICK row : /\ row = Changed(preq[w], fails)
                       /\ preq' = [preq EXCEPT ![w] =
                            [preq[w] EXCEPT !.at = "upsert", !.time = now, !.lost = fails,
                                            !.row = row]]
            BY <2>0
      <2>2. PICK old \in Rows \cup {None} : old = IF fails THEN None ELSE profiles[preq[w].user]
            BY <1>1
      <2>3. row = ChangedAt(preq[w], old, now)
            BY <1>1, <2>1, <2>2, ProfileConstants
               DEF Changed, ChangedAt, RowRead, applyProfilePatch
      <2>4. row \in Rows
            BY <1>1, <2>3, ChangedIsRow
      <2>5. PICK q : q = [preq[w] EXCEPT !.at = "upsert", !.time = now, !.lost = fails, !.row = row]
            OBVIOUS
      <2>6. /\ q \in ProfileRequests /\ q.at = "upsert" /\ q.time = now /\ q.lost = fails
            /\ q.row = row /\ q.op = preq[w].op /\ q.patch = preq[w].patch
            /\ q.text = preq[w].text /\ q.user = preq[w].user
            BY <1>1, <2>4, <2>5, ProfileConstants DEF ProfileRequests, PRequest, Rows
      <2>7. WritesWhatItRead(q)
            BY <2>2, <2>3, <2>6 DEF WritesWhatItRead, ChangedAt
      <2>8. preq' = [preq EXCEPT ![w] = q] /\ UNCHANGED <<profiles, acked, disturbed>>
            BY <2>1, <2>5 DEF GetByPlayerID
      <2>9. ProfileTypes'
            BY <2>6, <2>8 DEF ProfilesInv, ProfileTypes
      <2>10. ASSUME NEW v \in Workers, preq'[v] # None, preq'[v].at = "upsert"
             PROVE  WritesWhatItRead(preq'[v])
             BY <2>7, <2>8, <2>10 DEF ProfilesInv, ProfileTypes
      <2>11. \A v \in Workers : (preq[v] # None /\ preq[v].at = "upsert"
                                     => WritesWhatItRead(preq[v]))'
             BY <2>8, <2>10 DEF WritesWhatItRead
      <2> QED BY <2>8, <2>9, <2>11 DEF ProfilesInv
<1> QED BY <1>2, <1>3

(* After a row is written or deleted nobody who read it is up to date.     *)
LEMMA OverrunProfiles ==
    ASSUME NEW u \in Users, NEW reqs \in [Workers -> ProfileRequests \cup {None}],
           \A v \in Workers : reqs[v] # None /\ reqs[v].at = "upsert" => WritesWhatItRead(reqs[v]),
           NEW row, profiles' = [profiles EXCEPT ![u] = row],
           profiles \in [Users -> Rows \cup {None}]
    PROVE  /\ Overrun(reqs, u) \in [Workers -> ProfileRequests \cup {None}]
           /\ \A v \in Workers : Overrun(reqs, u)[v] # None /\ Overrun(reqs, u)[v].at = "upsert"
                  => WritesWhatItRead(Overrun(reqs, u)[v])'
<1> SUFFICES ASSUME NEW v \in Workers
             PROVE  /\ Overrun(reqs, u)[v] \in ProfileRequests \cup {None}
                    /\ Overrun(reqs, u)[v] # None /\ Overrun(reqs, u)[v].at = "upsert"
                          => WritesWhatItRead(Overrun(reqs, u)[v])'
    BY DEF Overrun
<1>1. CASE reqs[v] # None /\ reqs[v].user = u /\ reqs[v].at = "upsert"
      <2>1. PICK q : q = [reqs[v] EXCEPT !.stale = TRUE]
            OBVIOUS
      <2>2. q \in ProfileRequests /\ q.stale
            BY <1>1, <2>1 DEF ProfileRequests, PRequest
      <2>3. Overrun(reqs, u)[v] = q
            BY <1>1, <2>1 DEF Overrun
      <2> QED BY <2>2, <2>3 DEF WritesWhatItRead
<1>2. CASE ~(reqs[v] # None /\ reqs[v].user = u /\ reqs[v].at = "upsert")
      <2>1. Overrun(reqs, u)[v] = reqs[v]
            BY <1>2 DEF Overrun
      <2>2. reqs[v] # None /\ reqs[v].at = "upsert" => profiles'[reqs[v].user] = profiles[reqs[v].user]
            BY <1>2 DEF ProfileRequests, PRequest
      <2> QED BY <2>1, <2>2 DEF WritesWhatItRead, ChangedAt
<1> QED BY <1>1, <1>2

(* A row written, deleted or imported, and what is told of it from then.   *)
LEMMA RowWritten ==
    ASSUME ProfilesInv, NEW u \in Users, NEW row \in Rows \cup {None}, NEW told \in Profile,
           NEW reqs \in [Workers -> ProfileRequests \cup {None}],
           \A v \in Workers : reqs[v] # None => reqs[v] = preq[v],
           profiles' = [profiles EXCEPT ![u] = row], acked' = [acked EXCEPT ![u] = told],
           preq' = Overrun(reqs, u), UNCHANGED now,
           disturbed' \subseteq Users, disturbed \ {u} \subseteq disturbed',
           u \notin disturbed' => Shows(row, told, u)
    PROVE  ProfilesInv'
<1>1. /\ Overrun(reqs, u) \in [Workers -> ProfileRequests \cup {None}]
      /\ \A v \in Workers : Overrun(reqs, u)[v] # None /\ Overrun(reqs, u)[v].at = "upsert"
             => WritesWhatItRead(Overrun(reqs, u)[v])'
      <2>1. \A v \in Workers : reqs[v] # None /\ reqs[v].at = "upsert" => WritesWhatItRead(reqs[v])
            BY DEF ProfilesInv
      <2> QED BY <2>1, OverrunProfiles DEF ProfilesInv, ProfileTypes
<1>2. ProfileTypes'
      BY <1>1 DEF ProfilesInv, ProfileTypes
<1>3. \A v \in Users \ disturbed' : Shows(profiles'[v], acked'[v], v)
      BY DEF ProfilesInv, ProfileTypes
<1>4. \A v \in Users \ disturbed' : Shows(profiles[v], acked[v], v)'
      BY <1>3 DEF Shows
<1>5. \A v \in Workers : (preq[v] # None /\ preq[v].at = "upsert" => WritesWhatItRead(preq[v]))'
      BY <1>1 DEF WritesWhatItRead
<1> QED BY <1>2, <1>4, <1>5 DEF ProfilesInv

LEMMA UpsertInv ==
    ASSUME ProfilesInv, NEW w \in Workers, Upsert(w), UNCHANGED now
    PROVE  ProfilesInv'
<1>1. PICK r : r = preq[w]
      OBVIOUS
<1>2. /\ r \in ProfileRequests /\ r.at = "upsert" /\ r.user \in Users /\ r.row \in Rows
      /\ r.time \in Times
      BY <1>1, RequestsAssumption
         DEF Upsert, PIdle, ProfilesInv, ProfileTypes, ProfileRequests, PRequest, Times
<1>3. PICK reqs : reqs = [preq EXCEPT ![w] = None]
      OBVIOUS
<1>4. /\ reqs \in [Workers -> ProfileRequests \cup {None}]
      /\ \A v \in Workers : reqs[v] # None => reqs[v] = preq[v]
      BY <1>3 DEF ProfilesInv, ProfileTypes
<1>5. PICK new : new = Told(r, acked[r.user], profiles[r.user])
      OBVIOUS
<1>6. PICK told : told = IF r.user \in disturbed' THEN ZeroProfile ELSE new
      OBVIOUS
<1>7. /\ profiles' = [profiles EXCEPT ![r.user] = r.row]
      /\ preq' = Overrun(reqs, r.user)
      /\ disturbed' = IF r.lost \/ r.stale THEN disturbed \cup {r.user} ELSE disturbed
      BY <1>1, <1>3 DEF Upsert
<1>8. acked' = [acked EXCEPT ![r.user] = told]
      BY <1>1, <1>5, <1>6 DEF Upsert
<1>9. disturbed' \subseteq Users /\ disturbed \ {r.user} \subseteq disturbed'
      BY <1>2, <1>7 DEF ProfilesInv, ProfileTypes
<1>10. ASSUME r.user \notin disturbed' PROVE new \in Profile /\ Shows(r.row, new, r.user)
       <2>1. ~r.lost /\ ~r.stale /\ r.user \notin disturbed
             BY <1>7, <1>10
       <2>2. r.row = ChangedAt(r, profiles[r.user], r.time)
             BY <1>1, <2>1 DEF ProfilesInv, WritesWhatItRead, Upsert, PIdle
       <2>3. Shows(profiles[r.user], acked[r.user], r.user)
             BY <1>2, <2>1 DEF ProfilesInv
       <2>4. profiles[r.user] \in Rows \cup {None} /\ acked[r.user] \in Profile
             BY <1>2 DEF ProfilesInv, ProfileTypes
       <2> QED BY <1>2, <1>5, <2>2, <2>3, <2>4, ChangedShows DEF Told, ToldAt
<1>11. told \in Profile /\ (r.user \notin disturbed' => Shows(r.row, told, r.user))
       BY <1>6, <1>10, ProfileConstants
<1> QED BY <1>2, <1>4, <1>7, <1>8, <1>9, <1>11, RowWritten

LEMMA DeletePlatformDataInv ==
    ASSUME ProfilesInv, NEW u \in Users, DeletePlatformData(u), UNCHANGED now
    PROVE  ProfilesInv'
<1>1. Shows(None, ZeroProfile, u)
      BY DEF Shows
<1> QED BY <1>1, ProfileConstants, RowWritten DEF DeletePlatformData, ProfilesInv, ProfileTypes

LEMMA ImportsRowInv ==
    ASSUME ProfilesInv, NEW i \in 1..Len(Legacy), ImportsRow(i), UNCHANGED now
    PROVE  ProfilesInv'
<1> DEFINE S == [user : Users \cup {None}, row : Profile]
<1>1. Legacy \in Seq(S)
      BY BackfillAssumption
<1>2. Legacy[i] \in S /\ i \in DOMAIN Legacy
      <2> HIDE DEF S
      <2> QED BY <1>1
<1>3. PICK u \in Users, row \in Rows : u = Legacy[i].user /\ row = Legacy[i].row
      BY <1>2, BackfillAssumption DEF ImportsRow, Rows
<1>4. Shows(row, row, u) /\ row \in Profile
      BY <1>3, ProfileConstants DEF Shows, Rows
<1>5. /\ profiles' = [profiles EXCEPT ![u] = row] /\ acked' = [acked EXCEPT ![u] = row]
      /\ preq' = Overrun(preq, u) /\ disturbed' = disturbed \ {u}
      BY <1>3 DEF ImportsRow
<1> QED BY <1>4, <1>5, RowWritten DEF ProfilesInv, ProfileTypes

LEMMA ProfilesStepInv == ProfilesInv /\ [ProfilesStep]_<<now, profileVars>> => ProfilesInv'
<1> SUFFICES ASSUME ProfilesInv, [ProfilesStep]_<<now, profileVars>> PROVE ProfilesInv'
    OBVIOUS
<1>1. ASSUME UNCHANGED profileVars, now' \in Times PROVE ProfilesInv'
      BY <1>1 DEF profileVars, ProfilesInv, ProfileTypes, WritesWhatItRead, ChangedAt, Shows
<1>2. CASE UNCHANGED <<now, profileVars>>
      BY <1>1, <1>2 DEF ProfilesInv, ProfileTypes
<1>3. CASE Tick /\ UNCHANGED profileVars
      <2>1. now' \in Times
            BY <1>3, RequestsAssumption DEF Tick, Times, ProfilesInv, ProfileTypes
      <2> QED BY <1>1, <1>3, <2>1
<1>4. << >> \in Patches /\ Empty \in Texts /\ Registered \subseteq Users
      <2>1. << >> \in [{} -> Texts] /\ {} \in SUBSET Columns
            OBVIOUS
      <2> QED BY <2>1, ProfilesAssumption DEF Patches, Texts
<1>5. ASSUME NEW w \in Workers, NEW u \in Registered, UNCHANGED now,
             UpdateProfile(w, u) \/ UpdateBackground(w, u) \/ HandleInit(w, u) \/ HandleSync(w, u)
      PROVE  ProfilesInv'
      <2>1. CASE UpdateProfile(w, u)
            BY <1>4, <1>5, <2>1, AskInv, ProfilesAssumption DEF UpdateProfile, Operations
      <2>2. CASE UpdateBackground(w, u)
            <3>1. PICK url \in Payloads : Ask(w, "get", "patch", u, [bg |-> url], Empty)
                  BY <2>2 DEF UpdateBackground
            <3>2. [bg |-> url] \in [{"bg"} -> Texts] /\ {"bg"} \in SUBSET Columns
                  BY ProfilesAssumption DEF Columns
            <3>3. [bg |-> url] \in Patches
                  BY <3>2 DEF Patches
            <3> QED BY <1>4, <1>5, <3>1, <3>3, AskInv DEF Operations
      <2>3. CASE HandleInit(w, u)
            BY <1>4, <1>5, <2>3, AskInv, ProfilesAssumption DEF HandleInit, Operations
      <2>4. CASE HandleSync(w, u)
            BY <1>4, <1>5, <2>4, AskInv DEF HandleSync, Operations
      <2> QED BY <1>5, <2>1, <2>2, <2>3, <2>4
<1>6. CASE ProfilesNext /\ UNCHANGED now
      BY <1>4, <1>5, <1>6, ReadUserInv, GetByPlayerIDInv, UpsertInv, PFailInv,
         DeletePlatformDataInv DEF ProfilesNext
<1> QED BY <1>2, <1>3, <1>6, ImportsRowInv DEF ProfilesStep

LEMMA PlatformStepsProfiles ==
    JobInv /\ [PlatformNext]_platformVars => [ProfilesStep]_<<now, profileVars>>
<1> SUFFICES ASSUME JobInv, PlatformNext PROVE [ProfilesStep]_<<now, profileVars>>
    BY DEF platformVars, importVars
<1>1. CASE BackfillNext /\ UNCHANGED now
      <2>1. CASE ImportProfile
            <3>1. job.i \in 1..Len(Legacy)
                  BY <2>1, LegacyLength DEF ImportProfile, JobInv, JobTypes
            <3>2. ImportsRow(job.i)
                  BY <2>1 DEF ImportProfile, ImportsRow, JobInv
            <3> QED BY <1>1, <3>1, <3>2 DEF ProfilesStep
      <2>2. CASE ~ImportProfile
            BY <1>1, <2>2 DEF BackfillNext, StartBackfill, LookUpUser, ImportPreferences,
                              BackfillFails, tableVars
      <2> QED BY <2>1, <2>2
<1>2. CASE ProfilesNext /\ UNCHANGED now
      BY <1>2 DEF ProfilesStep
<1>3. CASE Tick /\ UNCHANGED profileVars
      BY <1>3 DEF ProfilesStep
<1>4. CASE UNCHANGED <<now, profileVars>>
      BY <1>4
<1> QED BY <1>1, <1>2, <1>3, <1>4 DEF PlatformNext, Handle, TimePasses, HandleProfiles,
           ImportProfiles, ImportSystem, importVars

LEMMA ProfilesInvHolds == PlatformSpec => []ProfilesInv
<1>1. PlatformInit => ProfilesInv
      BY ProfileConstants, RequestsAssumption
         DEF PlatformInit, ClockInit, ProfilesInit, ProfilesInv, ProfileTypes, Shows, Times
<1> QED BY <1>1, JobInvHolds, ProfilesStepInv, PlatformStepsProfiles, PTL DEF PlatformSpec

(* What a reader of a profile sees is what its user was told, however many *)
(* requests and imports write it, unless a read was lost or overrun.       *)
THEOREM AnswersStay == PlatformSpec => []AnswersKept
<1>1. ProfilesInv => AnswersKept
      <2> SUFFICES ASSUME ProfilesInv, NEW u \in Users \ disturbed
                   PROVE  LET told   == acked[u]
                              listed == BatchProfiles({u})[u]
                              seen(fails) == IF fails THEN ZeroProfile ELSE told
                          IN  /\ \A fails \in BOOLEAN :
                                    /\ GetPublic(u, fails) =
                                           [username |-> firstNonEmpty(seen(fails).username, UserName[u]),
                                            bg |-> seen(fails).bg, online |-> seen(fails).online]
                                    /\ GetCurrent(u, fails) = GetPublic(u, fails)
                                    /\ Viewer(u, fails).beta = seen(fails).beta
                              /\ listed = [told EXCEPT !.username = listed.username]
          BY DEF AnswersKept
      <2>1. PICK row, told : row = profiles[u] /\ told = acked[u]
            OBVIOUS
      <2>2. /\ row \in Rows \cup {None} /\ told \in Profile /\ Shows(row, told, u)
            BY <2>1 DEF ProfilesInv, ProfileTypes
      <2>3. CASE row = None
            <3>1. told = ZeroProfile
                  BY <2>2, <2>3 DEF Shows
            <3>2. BatchProfiles({u})[u] = [ZeroProfile EXCEPT !.username = "anonymous"]
                  BY <2>1, <2>3 DEF BatchProfiles
            <3>3. BatchProfiles({u})[u] = [told EXCEPT !.username = BatchProfiles({u})[u].username]
                  BY <3>1, <3>2 DEF ZeroProfile
            <3> QED BY <2>1, <2>3, <3>1, <3>3 DEF GetPublic, GetCurrent, Viewer, RowRead
      <2>4. CASE row # None
            <3>1. /\ row \in Profile /\ row.bg = told.bg /\ row.online = told.online
                  /\ row.beta = told.beta /\ row.created = told.created
                  /\ firstNonEmpty(row.username, UserName[u])
                       = firstNonEmpty(told.username, UserName[u])
                  BY <2>2, <2>4 DEF Shows, Rows
            <3>2. BatchProfiles({u})[u] = row
                  BY <2>1, <2>4 DEF BatchProfiles
            <3>3. row = [told EXCEPT !.username = row.username]
                  BY <2>2, <3>1 DEF Profile
            <3> QED BY <2>1, <2>4, <3>1, <3>2, <3>3 DEF GetPublic, GetCurrent, Viewer, RowRead
      <2> QED BY <2>3, <2>4
<1> QED BY <1>1, ProfilesInvHolds, PTL

-----------------------------------------------------------------------------
(* Approvals                                                               *)

(* The verifiers that approve are no more than the factors that do.        *)
LEMMA ApprovedAreApprovers ==
    ASSUME NEW a \in Approvals
    PROVE  approved(a) \in Nat /\ approved(a) <= Cardinality(Approvers(a))
                               /\ Cardinality(Approvers(a)) \in Nat
<1> DEFINE Named == {a[i].factor : i \in 1..Len(a)}
           First == {i \in DOMAIN a : /\ a[i].factor \in Factors /\ ~a[i].blank
                                      /\ \A j \in 1..i-1 : a[j].factor # a[i].factor}
           f == [i \in First |-> a[i].factor]
           g == [i \in 1..Len(a) |-> a[i].factor]
<1>1. Len(a) \in Nat /\ DOMAIN a = 1..Len(a)
      <2>1. a \in Seq(Assertion)
            BY WalletAssumption
      <2> QED BY <2>1
<1>2. IsFiniteSet(1..Len(a))
      BY <1>1, FS_Interval
<1>3. g \in Surjection(1..Len(a), Named)
      BY Fun_IsSurj
<1>4. IsFiniteSet(Named)
      <2> HIDE DEF Named, g
      <2> QED BY <1>2, <1>3, FS_Surjection
<1>5. Approvers(a) \in SUBSET Named
      BY <1>1 DEF Approvers
<1>6. IsFiniteSet(Approvers(a))
      <2> HIDE DEF Named
      <2> QED BY <1>4, <1>5, FS_Subset
<1>7. f \in [First -> Approvers(a)]
      BY DEF Approvers
<1>8. \A i, j \in First : i # j => f[i] # f[j]
      <2> SUFFICES ASSUME NEW i \in First, NEW j \in First, i < j
                   PROVE  a[i].factor # a[j].factor
          BY <1>1
      <2>1. i \in 1..j-1
            BY <1>1
      <2> QED BY <2>1
<1>9. f \in Injection(First, Approvers(a))
      <2> HIDE DEF First, f
      <2> QED BY <1>7, <1>8, Fun_IsInj
<1>10. /\ IsFiniteSet(First)
       /\ Cardinality(First) <= Cardinality(Approvers(a))
      <2> HIDE DEF First, f
      <2> QED BY <1>6, <1>9, FS_Injection
<1>11. approved(a) = Cardinality(First)
      BY DEF approved
<1>12. Cardinality(First) \in Nat /\ Cardinality(Approvers(a)) \in Nat
      <2> HIDE DEF First
      <2> QED BY <1>6, <1>10, FS_CardinalityType
<1> HIDE DEF First
<1> QED BY <1>10, <1>11, <1>12

EnoughFor(a) == Cardinality(Approvers(a)) >= Threshold

LEMMA AuthorizedIsEnough ==
    ASSUME NEW p, NEW a \in Approvals, Authorize(p, a)
    PROVE  EnoughFor(a)
BY ApprovedAreApprovers, WalletAssumption DEF Authorize, EnoughFor

ApprovalInv ==
    /\ transactions \in [Spends -> {None, "bare", "signed"}]
    /\ signed \subseteq Envelope
    /\ proving \in [Workers -> ProofRequest \cup {None}]
    /\ \A e \in signed : EnoughFor(e.approval)
    /\ \A w \in Workers : proving[w] # None /\ proving[w].by # "none" =>
           /\ EnoughFor(proving[w].approval)
           /\ proving[w].by = "delegated" => proving[w].paired

approvalVars == <<transactions, signed, proving>>

LEMMA SpendingApprovals == ApprovalInv /\ SpendingNext /\ UNCHANGED proving => ApprovalInv'
<1> SUFFICES ASSUME ApprovalInv, SpendingNext, UNCHANGED proving PROVE ApprovalInv'
    OBVIOUS
<1>1. ASSUME NEW p \in Spends, SubmitTransaction(p) PROVE ApprovalInv'
      <2>1. PICK how \in {"bare", "signed"} : Store(p, how)
            BY <1>1 DEF SubmitTransaction
      <2>2. transactions' = [transactions EXCEPT ![p] = how] /\ signed' = signed
            BY <2>1 DEF Store
      <2> QED BY <2>2 DEF ApprovalInv, EnoughFor
<1>2. ASSUME NEW p \in Spends, NEW a \in Approvals, SignTransaction(p, a) PROVE ApprovalInv'
      <2>1. EnoughFor(a)
            BY <1>2, AuthorizedIsEnough DEF SignTransaction
      <2>2. PICK new \in Envelope : new.spend = p /\ new.approval = a
                                    /\ signed' = signed \cup {new}
            BY <1>2 DEF SignTransaction, Envelope
      <2>3. transactions' = transactions
            BY <1>2 DEF SignTransaction
      <2> QED BY <2>1, <2>2, <2>3 DEF ApprovalInv, EnoughFor
<1>3. CASE RestartWallet
      BY <1>3, WalletAssumption DEF RestartWallet, ApprovalInv, EnoughFor
<1> QED BY <1>1, <1>2, <1>3 DEF SpendingNext

(* A proof request starts unproved, ends, or is proved when authorised.    *)
LEMMA ProvingApprovals ==
    ASSUME ApprovalInv, ProvingNext, UNCHANGED spendVars
    PROVE  ApprovalInv'
<1>1. UNCHANGED <<transactions, signed>>
      BY DEF spendVars
<1>2. \A w \in Workers : proving[w] # None => proving[w] \in ProofRequest
      BY DEF ApprovalInv
<1>3. ASSUME NEW w \in Workers, NEW r \in ProofRequest \cup {None},
             proving' = [proving EXCEPT ![w] = r],
             r # None /\ r.by # "none" => /\ EnoughFor(r.approval)
                                          /\ r.by = "delegated" => r.paired
      PROVE  ApprovalInv'
      BY <1>1, <1>3 DEF ApprovalInv, EnoughFor
<1>4. ASSUME NEW w \in Workers, NEW p \in Spends, NEW i \in Numbers, NEW j \in Numbers,
             VerifyAuthorizeAndProve(w, p, i, j)
      PROVE  ApprovalInv'
      <2>1. PICK r \in ProofRequest : r.by = "none" /\ proving' = [proving EXCEPT ![w] = r]
            BY <1>4 DEF VerifyAuthorizeAndProve, ProofRequest
      <2> QED BY <1>3, <2>1
<1>5. ASSUME NEW w \in Workers, VerifyRange(w) PROVE ApprovalInv'
      <2>1. CASE fetching'[w] = None
            BY <1>3, <1>5, <2>1 DEF VerifyRange
      <2>2. CASE fetching'[w] # None
            BY <1>2, <1>3, <1>5, <2>2 DEF VerifyRange, ApprovalInv
      <2> QED BY <2>1, <2>2
<1>6. ASSUME NEW w \in Workers, GenerateProof(w) PROVE ApprovalInv'
      <2>1. /\ proving[w] \in ProofRequest
            /\ EnoughFor(proving[w].approval)
            <3>1. proving[w] \in ProofRequest
                  BY <1>2, <1>6 DEF GenerateProof
            <3>2. proving[w].approval \in Approvals
                  BY <3>1 DEF ProofRequest
            <3> QED BY <1>6, <3>1, <3>2, AuthorizedIsEnough DEF GenerateProof
      <2>2. PICK m \in Provers(proving[w]) : proving' = [proving EXCEPT ![w].by = m]
            BY <1>6 DEF GenerateProof
      <2>3. PICK r : r = [proving[w] EXCEPT !.by = m]
            OBVIOUS
      <2>4. m \in {"local", "delegated"} /\ (m = "delegated" => proving[w].paired)
            BY <2>2 DEF Provers
      <2>5. /\ r \in ProofRequest /\ r.by = m /\ r.approval = proving[w].approval
            /\ r.paired = proving[w].paired
            BY <2>1, <2>3, <2>4 DEF ProofRequest
      <2>6. proving' = [proving EXCEPT ![w] = r]
            BY <2>2, <2>3 DEF ApprovalInv
      <2> QED BY <1>3, <2>1, <2>4, <2>5, <2>6
<1>7. ASSUME NEW w \in Workers, EndProof(w) PROVE ApprovalInv'
      BY <1>3, <1>7 DEF EndProof
<1>8. ASSUME UNCHANGED proving PROVE ApprovalInv'
      BY <1>1, <1>8 DEF ApprovalInv, EnoughFor
<1> QED BY <1>4, <1>5, <1>6, <1>7, <1>8 DEF ProvingNext

WalletStep == \/ SpendingNext /\ UNCHANGED proofVars
              \/ ProvingNext /\ UNCHANGED spendVars

LEMMA PlatformStepsWallet == [PlatformNext]_platformVars => [WalletStep]_walletVars
BY DEF platformVars, walletVars, PlatformNext, Handle, TimePasses, WalletStep

(* The platform takes no other steps on the wallet and its light client.   *)
THEOREM PlatformDoesWallet == PlatformSpec => WalletSpec
<1>1. PlatformInit => WalletInit
      BY DEF PlatformInit
<1> QED BY <1>1, PlatformStepsWallet, PTL DEF PlatformSpec, WalletSpec, WalletStep

LEMMA ApprovalInvHolds == PlatformSpec => []ApprovalInv
<1>1. PlatformInit => ApprovalInv
      BY WalletAssumption DEF PlatformInit, WalletInit, ApprovalInv
<1>2. ApprovalInv /\ [WalletStep]_walletVars => ApprovalInv'
      <2> SUFFICES ASSUME ApprovalInv, [WalletStep]_walletVars PROVE ApprovalInv'
          OBVIOUS
      <2>1. CASE UNCHANGED walletVars
            BY <2>1 DEF walletVars, spendVars, proofVars, ApprovalInv, EnoughFor
      <2>2. CASE SpendingNext /\ UNCHANGED proofVars
            BY <2>2, SpendingApprovals DEF proofVars
      <2>3. CASE ProvingNext /\ UNCHANGED spendVars
            BY <2>3, ProvingApprovals
      <2> QED BY <2>1, <2>2, <2>3 DEF WalletStep
<1> QED BY <1>1, <1>2, PlatformStepsWallet, PTL DEF PlatformSpec

(* The service signs and proves nothing unless as many distinct factors as *)
(* the threshold asks for have approved it: the verifiers it counts one by *)
(* one are of distinct factors, for any lists of assertions, thresholds,   *)
(* spends and chains.                                                      *)
THEOREM SpendsAreApproved == PlatformSpec => []EnoughApprove
<1>1. ApprovalInv => EnoughApprove
      BY DEF ApprovalInv, EnoughApprove, EnoughFor
<1> QED BY <1>1, ApprovalInvHolds, PTL

-----------------------------------------------------------------------------
(* Accepted ranges                                                         *)

(* Induction over the naturals, for a set of them.                         *)
LEMMA SetOfAllNaturals ==
    ASSUME NEW S \in SUBSET Nat, 0 \in S, \A n \in S : n + 1 \in S
    PROVE  S = Nat
<1> SUFFICES ASSUME Nat \ S # {} PROVE FALSE
    OBVIOUS
<1>1. PICK m \in Nat \ S : \A n \in Nat \ S : ~(<<n, m>> \in OpToRel(<, Nat))
      <2>1. Nat \ S \subseteq Nat
            OBVIOUS
      <2> QED BY <2>1, WFMin, NatLessThanWellFounded, Zenon
<1>2. m - 1 \in Nat \ S /\ m - 1 < m
      <2>1. m # 0 /\ m - 1 \in Nat /\ (m - 1) + 1 = m /\ m - 1 < m
            OBVIOUS
      <2> QED BY <2>1
<1>3. <<m - 1, m>> \in OpToRel(<, Nat)
      BY <1>2, Zenon DEF OpToRel
<1> QED BY <1>1, <1>2, <1>3

(* A range as it is fetched: no more headers than asked for, and verified  *)
(* once they are all there.                                                *)
RangeSound(r) ==
    /\ r.start <= r.end
    /\ Len(r.headers) <= r.end - r.start + 1
    /\ r.verified => /\ Len(r.headers) = r.end - r.start + 1
                     /\ VerifyHeaderChain(r.headers)

ChainInv ==
    /\ LightClientTypeOK
    /\ \A w \in Workers : fetching[w] # None => RangeSound(fetching[w])

(* From the last header of a verified range back to any of them.           *)
LEMMA HeadersAreAncestors ==
    ASSUME NEW hs \in Seq(Blocks), VerifyHeaderChain(hs), NEW n \in 1..Len(hs)
    PROVE  hs[n] \in Ancestors[Last(hs)]
<1>1. Len(hs) \in Nat /\ hs \in [1..Len(hs) -> Blocks] /\ Last(hs) = hs[Len(hs)]
      BY DEF Last
<1>2. ASSUME NEW S \in SUBSET Blocks, Last(hs) \in S,
             \A x \in S : Parent[x] # None => Parent[x] \in S
      PROVE  hs[n] \in S
      <2> DEFINE Back == {k \in Nat : k < Len(hs) => hs[Len(hs) - k] \in S}
      <2>1. 0 \in Back
            BY <1>1, <1>2
      <2>2. ASSUME NEW k \in Back PROVE k + 1 \in Back
            <3> SUFFICES ASSUME k + 1 < Len(hs) PROVE hs[Len(hs) - (k + 1)] \in S
                BY <2>2
            <3>1. PICK m \in 2..Len(hs) : m = Len(hs) - k /\ m - 1 = Len(hs) - (k + 1)
                  BY <1>1, <2>2
            <3>2. hs[m] \in S
                  BY <1>1, <2>2, <3>1
            <3>3. Parent[hs[m]] = hs[m - 1] /\ hs[m - 1] \in Blocks
                  <4>1. m - 1 \in 1..Len(hs)
                        BY <1>1, <3>1
                  <4> QED BY <1>1, <3>1, <4>1 DEF VerifyHeaderChain, Linked
            <3> QED BY <1>2, <3>1, <3>2, <3>3, BlocksAssumption
      <2>3. Back = Nat
            <3> HIDE DEF Back
            <3>1. Back \in SUBSET Nat
                  BY DEF Back
            <3> QED BY <2>1, <2>2, <3>1, SetOfAllNaturals
      <2>4. Len(hs) - n \in Back /\ Len(hs) - (Len(hs) - n) = n /\ Len(hs) - n < Len(hs)
            BY <1>1, <2>3
      <2> QED BY <2>4
<1>3. Last(hs) \in Blocks /\ hs[n] \in Blocks
      BY <1>1
<1> QED BY <1>2, <1>3 DEF Ancestors

(* The numbers of a verified range are consecutive.                        *)
LEMMA HeadersAreConsecutive ==
    ASSUME NEW hs \in Seq(Blocks), VerifyHeaderChain(hs), NEW n \in 1..Len(hs)
    PROVE  Number[hs[n]] = Number[hs[1]] + n - 1
<1>1. Len(hs) \in Nat /\ hs \in [1..Len(hs) -> Blocks] /\ 1 \in 1..Len(hs)
      OBVIOUS
<1>2. \A i \in 1..Len(hs) : Number[hs[i]] \in Nat
      BY <1>1, BlocksAssumption
<1> DEFINE Up == {k \in Nat : k < Len(hs) => Number[hs[k + 1]] = Number[hs[1]] + k}
<1>3. 0 \in Up
      BY <1>1, <1>2
<1>4. ASSUME NEW k \in Up PROVE k + 1 \in Up
      <2> SUFFICES ASSUME k + 1 < Len(hs)
                   PROVE  Number[hs[(k + 1) + 1]] = Number[hs[1]] + (k + 1)
          BY <1>4
      <2>1. PICK m \in 2..Len(hs) : m = (k + 1) + 1 /\ m - 1 = k + 1
            BY <1>1, <1>4
      <2>2. Number[hs[m]] = Number[hs[m - 1]] + 1
            BY <2>1 DEF VerifyHeaderChain, Linked
      <2>3. Number[hs[k + 1]] = Number[hs[1]] + k
            BY <1>1, <1>4
      <2> QED BY <1>1, <1>2, <1>4, <2>1, <2>2, <2>3
<1>5. Up = Nat
      <2> HIDE DEF Up
      <2>1. Up \in SUBSET Nat
            BY DEF Up
      <2> QED BY <1>3, <1>4, <2>1, SetOfAllNaturals
<1>6. n - 1 \in Up /\ (n - 1) + 1 = n /\ n - 1 < Len(hs)
      BY <1>1, <1>5
<1> QED BY <1>2, <1>6

LEMMA SoundIsOneChain ==
    ASSUME NEW r \in Fetch, RangeSound(r), r.verified
    PROVE  LET hs == r.headers IN
           /\ Len(hs) = r.end - r.start + 1
           /\ ToSet(hs) \subseteq Ancestors[Last(hs)]
           /\ {Number[b] : b \in ToSet(hs)} = Number[hs[1]] .. Number[hs[1]] + Len(hs) - 1
<1> DEFINE hs == r.headers
<1>1. /\ hs \in Seq(Blocks) /\ r.start \in Nat /\ r.end \in Nat /\ Len(hs) \in Nat
      /\ Len(hs) = r.end - r.start + 1 /\ VerifyHeaderChain(hs)
      /\ 1 \in 1..Len(hs)
      BY BlocksAssumption DEF Fetch, RangeSound, Numbers
<1>2. ToSet(hs) = {hs[n] : n \in 1..Len(hs)}
      <2>1. DOMAIN hs = 1..Len(hs)
            BY <1>1
      <2> QED BY <2>1 DEF ToSet
<1>3. ToSet(hs) \subseteq Ancestors[Last(hs)]
      BY <1>1, <1>2, HeadersAreAncestors
<1>4. PICK first : first = Number[hs[1]]
      OBVIOUS
<1>5. first \in Nat /\ \A n \in 1..Len(hs) : Number[hs[n]] = first + n - 1
      <2>1. hs[1] \in Blocks
            BY <1>1
      <2> QED BY <1>1, <1>4, <2>1, HeadersAreConsecutive, BlocksAssumption
<1>6. ASSUME NEW k \in first .. first + Len(hs) - 1 PROVE k \in {Number[b] : b \in ToSet(hs)}
      <2>1. k - first + 1 \in 1..Len(hs) /\ first + (k - first + 1) - 1 = k
            BY <1>1, <1>5
      <2> QED BY <1>2, <1>5, <2>1
<1>7. ASSUME NEW b \in ToSet(hs) PROVE Number[b] \in first .. first + Len(hs) - 1
      BY <1>1, <1>2, <1>5
<1> QED BY <1>1, <1>3, <1>4, <1>6, <1>7

LEMMA NewRangeInv ==
    ASSUME ChainInv, head' \in Blocks, NEW w \in Workers, NEW r \in Fetch \cup {None},
           fetching' = [fetching EXCEPT ![w] = r], r # None => RangeSound(r)
    PROVE  ChainInv'
BY DEF ChainInv, LightClientTypeOK

LEMMA FetchRangeInv ==
    ASSUME ChainInv, UNCHANGED head, NEW w \in Workers,
           NEW start \in Numbers, NEW end \in Numbers, FetchRange(w, start, end)
    PROVE  ChainInv'
<1>1. PICK r : r = [start |-> start, end |-> end, headers |-> <<>>, verified |-> FALSE]
      OBVIOUS
<1>2. r \in Fetch /\ start \in Nat /\ end \in Nat
      BY <1>1 DEF Fetch, Numbers
<1>3. start <= end /\ fetching' = [fetching EXCEPT ![w] = r]
      BY <1>1 DEF FetchRange
<1>4. RangeSound(r)
      BY <1>1, <1>2, <1>3 DEF RangeSound
<1> QED BY <1>2, <1>3, <1>4, NewRangeInv DEF ChainInv, LightClientTypeOK

(* A header from whichever chain the node is on.                           *)
LEMMA HeaderInv ==
    ASSUME ChainInv, UNCHANGED head, NEW w \in Workers, HeaderByNumber(w)
    PROVE  ChainInv'
<1>1. PICK old : old = fetching[w]
      OBVIOUS
<1>2. /\ old \in Fetch /\ RangeSound(old) /\ old.start \in Nat /\ old.end \in Nat
      /\ old.headers \in Seq(Blocks) /\ Len(old.headers) \in Nat
      BY <1>1 DEF ChainInv, LightClientTypeOK, HeaderByNumber, Fetch, Numbers
<1>3. PICK b \in Ancestors[head] :
             fetching' = [fetching EXCEPT ![w].headers = Append(@, b)]
      BY DEF HeaderByNumber
<1>4. b \in Blocks
      BY <1>3 DEF Ancestors, ChainInv, LightClientTypeOK
<1>5. old.start + Len(old.headers) <= old.end /\ ~old.verified
      BY <1>1, <1>2 DEF NextNumber, HeaderByNumber, Fetched, RangeSound
<1>6. PICK r : r = [old EXCEPT !.headers = Append(old.headers, b)]
      OBVIOUS
<1>7. /\ r \in Fetch /\ r.start = old.start /\ r.end = old.end /\ r.verified = old.verified
      /\ r.headers = Append(old.headers, b)
      BY <1>2, <1>4, <1>6 DEF Fetch
<1>8. fetching' = [fetching EXCEPT ![w] = r]
      BY <1>1, <1>3, <1>6 DEF ChainInv, LightClientTypeOK
<1>9. RangeSound(r)
      <2>1. Len(r.headers) = Len(old.headers) + 1
            BY <1>2, <1>4, <1>7
      <2> QED BY <1>2, <1>5, <1>7, <2>1 DEF RangeSound
<1> QED BY <1>7, <1>8, <1>9, NewRangeInv DEF ChainInv, LightClientTypeOK

LEMMA AcceptInv ==
    ASSUME ChainInv, UNCHANGED head, NEW w \in Workers, AcceptRange(w)
    PROVE  ChainInv'
<1>1. PICK old : old = fetching[w]
      OBVIOUS
<1>2. /\ old \in Fetch /\ RangeSound(old) /\ old.start \in Nat /\ old.end \in Nat
      /\ Len(old.headers) \in Nat
      BY <1>1 DEF ChainInv, LightClientTypeOK, AcceptRange, Fetch, Numbers
<1>3. /\ fetching' = [fetching EXCEPT ![w].verified = TRUE]
      /\ VerifyHeaderChain(old.headers) /\ old.start + Len(old.headers) > old.end
      BY <1>1 DEF AcceptRange, Fetched, NextNumber
<1>4. PICK r : r = [old EXCEPT !.verified = TRUE]
      OBVIOUS
<1>5. /\ r \in Fetch /\ r.start = old.start /\ r.end = old.end /\ r.headers = old.headers
      BY <1>2, <1>4 DEF Fetch
<1>6. fetching' = [fetching EXCEPT ![w] = r]
      BY <1>1, <1>3, <1>4 DEF ChainInv, LightClientTypeOK
<1>7. RangeSound(r)
      BY <1>2, <1>3, <1>5 DEF RangeSound
<1> QED BY <1>5, <1>6, <1>7, NewRangeInv DEF ChainInv, LightClientTypeOK

LEMMA ChainStepInv == ChainInv /\ [WalletStep]_walletVars => ChainInv'
<1> SUFFICES ASSUME ChainInv, [WalletStep]_walletVars PROVE ChainInv'
    OBVIOUS
<1>1. CASE UNCHANGED lightClientVars
      BY <1>1 DEF lightClientVars, ChainInv, LightClientTypeOK
<1>2. ASSUME NEW w \in Workers, NEW p \in Spends, NEW n \in Numbers, NEW m \in Numbers,
             VerifyAuthorizeAndProve(w, p, n, m)
      PROVE  ChainInv'
      BY <1>2, FetchRangeInv DEF VerifyAuthorizeAndProve
<1>3. ASSUME NEW w \in Workers, UNCHANGED head, HeaderMissing(w) \/ RefuseRange(w) \/ EndProof(w)
      PROVE  ChainInv'
      BY <1>3, NewRangeInv DEF HeaderMissing, RefuseRange, EndProof, ChainInv, LightClientTypeOK
<1>4. ASSUME NEW w \in Workers, VerifyRange(w) PROVE ChainInv'
      BY <1>3, <1>4, HeaderInv, AcceptInv DEF VerifyRange
<1>5. ASSUME NEW w \in Workers, GenerateProof(w) PROVE ChainInv'
      BY <1>1, <1>5 DEF GenerateProof, lightClientVars
<1>6. ASSUME NEW w \in Workers, EndProof(w) PROVE ChainInv'
      BY <1>3, <1>6 DEF EndProof
<1>7. ASSUME NEW b \in Blocks, Reorganise(b) PROVE ChainInv'
      BY <1>7 DEF Reorganise, ChainInv, LightClientTypeOK
<1>8. CASE ProvingNext
      BY <1>2, <1>4, <1>5, <1>6, <1>7, <1>8 DEF ProvingNext
<1> QED BY <1>1, <1>8 DEF WalletStep, walletVars, proofVars

LEMMA ChainInvHolds == PlatformSpec => []ChainInv
<1>1. PlatformInit => ChainInv
      BY DEF PlatformInit, WalletInit, LightClientInit, ChainInv, LightClientTypeOK
<1> QED BY <1>1, ChainStepInv, PlatformStepsWallet, PTL DEF PlatformSpec

(* An accepted range is a gapless piece of one chain, as long as the one   *)
(* asked for, for any tree of blocks, however the node moves in it and     *)
(* whatever numbers it answers with: only the parents tie the headers      *)
(* together, never the chain the node is on.                               *)
THEOREM RangesAreChains == PlatformSpec => []RangeIsOneChain
<1>1. ChainInv => RangeIsOneChain
      BY SoundIsOneChain DEF ChainInv, LightClientTypeOK, RangeIsOneChain
<1> QED BY <1>1, ChainInvHolds, PTL

-----------------------------------------------------------------------------
(* Marks                                                                   *)

(* The notes a wallet's stored transactions spend, one by one.             *)
SpentBy(u, note) ==
    \E p \in Spends : p.wallet = u /\ transactions[p] # None /\ note \in ToSet(p.notes)

MarksInv ==
    /\ transactions \in [Spends -> {None, "bare", "signed"}]
    /\ spentNotes \in [Users -> SUBSET Notes]
    /\ \A u \in Users, note \in Notes : note \in spentNotes[u] <=> SpentBy(u, note)

marksVars == <<transactions, spentNotes>>

LEMMA SpendTypes ==
    ASSUME NEW p \in Spends
    PROVE  p.wallet \in Users /\ ToSet(p.notes) \subseteq Notes
<1>1. p.wallet \in Users /\ p.notes \in Seq(Notes)
      BY WalletAssumption DEF Spend
<1> QED BY <1>1 DEF ToSet

LEMMA StoreMarks ==
    ASSUME MarksInv, NEW p \in Spends, NEW how \in {"bare", "signed"}, Store(p, how)
    PROVE  MarksInv'
<1>1. /\ transactions' = [transactions EXCEPT ![p] = how]
      /\ spentNotes' = [spentNotes EXCEPT ![p.wallet] = spentNotes[p.wallet] \cup ToSet(p.notes)]
      BY DEF Store, Consumed
<1>2. /\ transactions' \in [Spends -> {None, "bare", "signed"}]
      /\ spentNotes' \in [Users -> SUBSET Notes]
      BY <1>1, SpendTypes DEF MarksInv
<1>3. ASSUME NEW u \in Users, NEW note \in Notes
      PROVE  note \in spentNotes'[u] <=> \/ SpentBy(u, note)
                                         \/ p.wallet = u /\ note \in ToSet(p.notes)
      BY <1>1, <1>3, SpendTypes DEF MarksInv
<1>4. ASSUME NEW u \in Users, NEW note \in Notes
      PROVE  SpentBy(u, note)' <=> \/ SpentBy(u, note)
                                   \/ p.wallet = u /\ note \in ToSet(p.notes)
      <2>1. how # None
            BY WalletAssumption
      <2> QED BY <1>1, <2>1 DEF SpentBy, MarksInv
<1> QED BY <1>2, <1>3, <1>4 DEF MarksInv

LEMMA MarksStepInv == MarksInv /\ [WalletStep]_walletVars => MarksInv'
<1> SUFFICES ASSUME MarksInv, [WalletStep]_walletVars PROVE MarksInv'
    OBVIOUS
<1>1. CASE UNCHANGED marksVars
      BY <1>1 DEF marksVars, MarksInv, SpentBy
<1>2. ASSUME NEW p \in Spends, SubmitTransaction(p) PROVE MarksInv'
      BY <1>2, StoreMarks DEF SubmitTransaction
<1>3. CASE RestartWallet
      BY <1>3 DEF RestartWallet, MarksInv, SpentBy
<1>4. CASE SpendingNext
      BY <1>1, <1>2, <1>3, <1>4
         DEF SpendingNext, SignTransaction, marksVars
<1> QED BY <1>1, <1>4 DEF WalletStep, walletVars, spendVars, marksVars

LEMMA MarksInvSuffices == MarksInv => MarksFollowTransactions
<1> SUFFICES ASSUME MarksInv, NEW u \in Users,
                    NEW consumed, consumed = UNION {ToSet(p.notes) : p \in {q \in Spends :
                                                 GetTransactionStatus(u, q) # None}}
             PROVE  /\ spentNotes[u] = consumed
                    /\ \A note \in consumed, all \in BOOLEAN, limit \in 0..2 :
                           \A n \in ScanNotes(u, all, limit) :
                               n.note = note => all /\ n.status = "spent"
    BY DEF MarksFollowTransactions
<1>1. \A note : note \in consumed <=> SpentBy(u, note)
      BY DEF SpentBy, GetTransactionStatus
<1>2. spentNotes[u] = consumed
      <2>1. \A note : SpentBy(u, note) => note \in Notes
            BY SpendTypes DEF SpentBy
      <2>2. \A note \in spentNotes[u] : note \in Notes
            BY DEF MarksInv
      <2> QED BY <1>1, <2>1, <2>2 DEF MarksInv
<1>3. ASSUME NEW note \in consumed, NEW all \in BOOLEAN, NEW limit \in 0..2,
             NEW n \in ScanNotes(u, all, limit), n.note = note
      PROVE  all /\ n.status = "spent"
      <2>1. PICK i \in DOMAIN FixtureNotes :
               /\ n = [FixtureNotes[i] EXCEPT !.status =
                          IF FixtureNotes[i].note \in spentNotes[u] THEN "spent"
                                                                   ELSE FixtureNotes[i].status]
               /\ all \/ (IF FixtureNotes[i].note \in spentNotes[u]
                          THEN "spent" ELSE FixtureNotes[i].status) # "spent"
            BY DEF ScanNotes
      <2>2. PICK name, status : FixtureNotes[i] = [note |-> name, status |-> status]
            <3>1. i = 1 \/ i = 2 \/ i = 3
                  BY DEF FixtureNotes
            <3>2. /\ FixtureNotes[1] = [note |-> "note-01", status |-> "unspent"]
                  /\ FixtureNotes[2] = [note |-> "note-02", status |-> "pending"]
                  /\ FixtureNotes[3] = [note |-> "note-03", status |-> "spent"]
                  BY DEF FixtureNotes
            <3> QED BY <3>1, <3>2, Zenon
      <2> PICK shown : shown = IF name \in spentNotes[u] THEN "spent" ELSE status
          OBVIOUS
      <2>3. n.note = name /\ n.status = shown
            BY <2>1, <2>2
      <2>4. name \in spentNotes[u]
            BY <1>2, <1>3, <2>3
      <2> QED BY <2>1, <2>2, <2>3, <2>4
<1> QED BY <1>2, <1>3

LEMMA MarksInvHolds == PlatformSpec => []MarksInv
<1>1. PlatformInit => MarksInv
      BY DEF PlatformInit, WalletInit, MarksInv, SpentBy
<1> QED BY <1>1, MarksStepInv, PlatformStepsWallet, PTL DEF PlatformSpec

(* The marks are those of the stored transactions, whatever is submitted   *)
(* again, and no scan offers a note of theirs, for any spends and limits.  *)
THEOREM MarksStay == PlatformSpec => []MarksFollowTransactions
BY MarksInvHolds, MarksInvSuffices, PTL

-----------------------------------------------------------------------------
(* Types                                                                   *)

(* What a run has done are entries of the export.                          *)
JobBounds ==
    /\ job.i <= Len(Legacy) + 1
    /\ job.imported \subseteq 1..Len(Legacy) /\ job.unread \subseteq 1..Len(Legacy)

LEMMA ProceedBounds ==
    ASSUME JobInv, JobBounds, job.at \in {"user", "upsert"}, NEW j, NEW more,
           job.i \in more, more \subseteq {job.i}, j.i = job.i,
           job' = Proceed(j) \/ job' = [j EXCEPT !.at = "upsert"],
           \/ j = [job EXCEPT !.unread = @ \cup more]
           \/ j = [job EXCEPT !.imported = @ \cup more]
           \/ j = job
    PROVE  JobBounds'
<1>1. /\ job \in [at : {"idle", "user", "upsert", "prefs", "done", "failed"},
                  dry : BOOLEAN, allow : BOOLEAN, i : Nat \ {0},
                  imported : SUBSET (Nat \ {0}), unread : SUBSET (Nat \ {0}), prefs : BOOLEAN]
      /\ job.i \in 1..Len(Legacy)
      BY LegacyLength DEF JobInv, JobTypes
<1>2. /\ j.imported \subseteq 1..Len(Legacy) /\ j.unread \subseteq 1..Len(Legacy)
      /\ j \in [at : {"idle", "user", "upsert", "prefs", "done", "failed"},
                dry : BOOLEAN, allow : BOOLEAN, i : Nat \ {0},
                imported : SUBSET (Nat \ {0}), unread : SUBSET (Nat \ {0}), prefs : BOOLEAN]
      BY <1>1 DEF JobBounds
<1>3. CASE job' = [j EXCEPT !.at = "upsert"]
      BY <1>1, <1>2, <1>3, LegacyLength DEF JobBounds
<1>4. CASE job' = Proceed(j)
      <2>1. job'.i = job.i + 1 /\ job'.imported = j.imported /\ job'.unread = j.unread
            BY <1>2, <1>4 DEF Proceed
      <2> QED BY <1>1, <1>2, <2>1, LegacyLength DEF JobBounds
<1> QED BY <1>3, <1>4

LEMMA JobBoundsKept == JobInv /\ JobBounds /\ [BackfillNext]_job => JobBounds'
<1> SUFFICES ASSUME JobInv, JobBounds, [BackfillNext]_job PROVE JobBounds'
    OBVIOUS
<1>1. CASE UNCHANGED job
      BY <1>1 DEF JobBounds
<1>2. CASE StartBackfill
      <2>1. job'.i = 1 /\ job'.imported = {} /\ job'.unread = {}
            BY <1>2 DEF StartBackfill, NoJob
      <2> QED BY <2>1, LegacyLength, BackfillAssumption DEF JobBounds
<1>3. CASE BackfillFails
      <2>1. job'.i = 1 /\ job'.imported = {} /\ job'.unread = {}
            BY <1>3 DEF BackfillFails, NoJob
      <2> QED BY <2>1, LegacyLength DEF JobBounds
<1>4. CASE ImportPreferences
      <2>1. job'.i = job.i /\ job'.imported = job.imported /\ job'.unread = job.unread
            BY <1>4 DEF ImportPreferences, JobInv, JobTypes
      <2> QED BY <2>1 DEF JobBounds
<1>5. CASE LookUpUser
      <2>1. PICK j : /\ job' = Proceed(j) \/ job' = [j EXCEPT !.at = "upsert"]
                     /\ j = [job EXCEPT !.unread = @ \cup {job.i}] \/ j = job
            <3>1. CASE job' = Proceed(job)
                  BY <3>1
            <3>2. CASE job' # Proceed(job)
                  <4>1. PICK err, j :
                           /\ j = [job EXCEPT !.unread =
                                      IF err /\ Legacy[job.i].user \in Registered
                                         /\ ~job.allow /\ ~job.dry
                                      THEN @ \cup {job.i} ELSE @]
                           /\ job' = IF Skips(err, job.allow) \/ job.dry THEN Proceed(j)
                                     ELSE [j EXCEPT !.at = "upsert"]
                        BY <1>5, <3>2 DEF LookUpUser
                  <4>2. j = [job EXCEPT !.unread = @ \cup {job.i}] \/ j = job
                        BY <4>1 DEF JobInv, JobTypes
                  <4> QED BY <4>1, <4>2
            <3> QED BY <3>1, <3>2
      <2>2. j.i = job.i /\ job.at = "user"
            BY <1>5, <2>1 DEF LookUpUser, JobInv, JobTypes
      <2> QED BY <2>1, <2>2, ProceedBounds
<1>6. CASE ImportProfile
      <2>1. PICK j : j = [job EXCEPT !.imported = @ \cup {job.i}] /\ job' = Proceed(j)
            BY <1>6 DEF ImportProfile
      <2>2. j.i = job.i /\ job.at = "upsert"
            BY <1>6, <2>1 DEF ImportProfile, JobInv, JobTypes
      <2> QED BY <2>1, <2>2, ProceedBounds
<1> QED BY <1>1, <1>2, <1>3, <1>4, <1>5, <1>6 DEF BackfillNext

LEMMA BackfillTypes == JobInv /\ JobBounds => BackfillTypeOK
BY LegacyLength DEF JobInv, JobTypes, JobBounds, BackfillTypeOK

PlayersTypeOK ==
    /\ settings \in [Users -> UserSettings \cup {None}]
    /\ subscribed \in [Users -> NotificationPreferences \cup {None}]

LEMMA RefreshIsPeriod == \A k \in Int : (IF k <= 0 THEN DefaultRefresh ELSE k) \in Nat \ {0}
BY DEF DefaultRefresh

(* The settings of a player have a theme and a period to show.             *)
LEMMA SavedSettings ==
    \A t \in Themes \cup {""}, r \in Refreshes : SaveSettings(t, r) \in UserSettings
<1> SUFFICES ASSUME NEW t \in Themes \cup {""}, NEW r \in Refreshes
             PROVE  SaveSettings(t, r) \in UserSettings
    OBVIOUS
<1>1. (IF t = "" THEN DefaultTheme ELSE t) \in (Themes \cup {DefaultTheme}) \ {""}
      BY DEF DefaultTheme
<1>2. r \in Int
      BY PreferencesAssumption
<1> QED BY <1>1, <1>2, RefreshIsPeriod, Zenon DEF SaveSettings, UserSettings

LEMMA PlayersTypesKept == PlayersTypeOK /\ [PlayersNext]_playerVars => PlayersTypeOK'
<1> SUFFICES ASSUME PlayersTypeOK, [PlayersNext]_playerVars PROVE PlayersTypeOK'
    OBVIOUS
<1>1. ASSUME NEW u \in Users, UpdateSettings(u) PROVE PlayersTypeOK'
      BY SavedSettings, <1>1 DEF UpdateSettings, PlayersTypeOK
<1>2. ASSUME NEW u \in Users, UpdateNotificationPreferences(u) PROVE PlayersTypeOK'
      BY <1>2 DEF UpdateNotificationPreferences, PlayersTypeOK
<1> QED BY <1>1, <1>2 DEF PlayersNext, playerVars, PlayersTypeOK

LEMMA PlatformStepsPlayers == [PlatformNext]_platformVars => [PlayersNext]_playerVars
<1>1. SystemNext => UNCHANGED playerVars
      BY DEF SystemNext, UpdateMode, UpdateCallingState, UpdateOAuthProviders, AskUpdate,
             ReadPreferences, WritePreferences, UpdateFails
<1>2. BackfillNext => UNCHANGED playerVars
      BY DEF BackfillNext, StartBackfill, LookUpUser, ImportProfile, ImportPreferences,
             BackfillFails, tableVars, preferenceVars, playerVars
<1>3. UNCHANGED preferenceVars => UNCHANGED playerVars
      BY DEF preferenceVars, playerVars
<1>4. PlatformNext => [PlayersNext]_playerVars
      BY <1>1, <1>2, <1>3 DEF PlatformNext, Handle, TimePasses, HandlePlayers, ImportProfiles,
           ImportSystem, importVars
<1>5. UNCHANGED platformVars => UNCHANGED playerVars
      BY <1>3 DEF platformVars, importVars
<1> QED BY <1>4, <1>5

LEMMA FocusKept == focus \in Foci /\ [PlatformNext]_platformVars => (focus \in Foci)'
BY DEF PlatformNext, platformVars

(* Types of the platform: every row, request and answer of every table,    *)
(* the backfill, the wallet and its light client.                          *)
THEOREM PlatformTypes == PlatformSpec => []PlatformTypeOK
<1>1. PlatformInit => JobInv /\ JobBounds /\ PlayersTypeOK /\ focus \in Foci
      BY LegacyLength, BackfillAssumption
         DEF PlatformInit, BackfillInit, NoJob, JobInv, JobTypes, JobBounds, PreferencesInit,
             PlayersTypeOK
<1>2. /\ ProfilesInv => ProfilesTypeOK /\ now \in Times
      /\ SystemInv /\ PlayersTypeOK => PreferencesTypeOK
      /\ JobInv /\ JobBounds => BackfillTypeOK
      BY BackfillTypes DEF ProfilesInv, ProfileTypes, ProfileRequests, Rows, ProfilesTypeOK,
         SystemInv, SystemTypes, SystemColumns, PlayersTypeOK, PreferencesTypeOK
<1>3. /\ PresenceInv => PresenceTypeOK
      /\ NotificationsInv => NotificationsTypeOK
      /\ FilesInv => FilesTypeOK
      BY DEF PresenceInv, NotificationsInv, SubscriptionsInv, FilesInv
<1>4. ChainInv /\ ApprovalInv /\ MarksInv => WalletTypeOK
      BY DEF ChainInv, ApprovalInv, MarksInv, WalletTypeOK
<1>5. PlatformSpec => []JobBounds
      BY <1>1, JobInvHolds, JobBoundsKept, PlatformStepsBackfill, PTL DEF PlatformSpec
<1>6. PlatformSpec => [](PlayersTypeOK /\ focus \in Foci)
      BY <1>1, PlayersTypesKept, PlatformStepsPlayers, FocusKept, PTL DEF PlatformSpec
<1>7. PlatformSpec => [](PresenceInv /\ NotificationsInv /\ FilesInv)
      BY PresenceSpecInv, PlatformDoesPresence, PlatformKeepsNotifications, FilesSpecInv,
         PlatformDoesFiles, PTL
<1> QED BY <1>2, <1>3, <1>4, <1>5, <1>6, <1>7, ProfilesInvHolds, SystemInvHolds, JobInvHolds,
           ChainInvHolds, ApprovalInvHolds, MarksInvHolds, PTL DEF PlatformTypeOK
=============================================================================
