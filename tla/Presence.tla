------------------------------ MODULE Presence ------------------------------
(***************************************************************************)
(* The o2ul_presence table: heartbeats of the clients and the counts of    *)
(* concurrent users.  An update takes the time, reads the row (the error   *)
(* is dropped, and every column it reads is replaced) and writes it; the   *)
(* status is stored as it comes.                                           *)
(***************************************************************************)
EXTENDS Requests

CONSTANTS
    Statuses,   \* the statuses clients send, the three known ones among them
    Minute, Day, Month   \* the windows of the counts, in ticks

ASSUME PresenceAssumption ==
    /\ {"online", "away", "offline"} \subseteq Statuses
    /\ Minute \in Nat /\ Day \in Nat /\ Month \in Nat
    /\ Minute <= Day /\ Day <= Month

PresenceRow == [status : Statuses, isOnline : BOOLEAN, lastSeen : 0..MaxTime]

ASSUME NoneIsNoPresence ==
    None \notin PresenceRow \cup [status : Statuses, time : Times]

VARIABLES
    presence,   \* the table: user -> row, or None
    hreq,       \* the update each worker is doing, or None
    heard,      \* user -> the last update no other one overtook, or None
    mixed       \* users whose row an overtaken update wrote

presenceVars == <<presence, hreq, heard, mixed>>

HRequest == [at : {"get", "upsert"}, user : Users, status : Statuses, time : Times,
             overtaken : BOOLEAN]

PresenceTypeOK ==
    /\ presence \in [Users -> PresenceRow \cup {None}]
    /\ hreq \in [Workers -> HRequest \cup {None}]
    /\ heard \in [Users -> [status : Statuses, time : Times] \cup {None}]
    /\ mixed \subseteq Users

PresenceInit ==
    /\ presence = [u \in Users |-> None]
    /\ hreq = [w \in Workers |-> None]
    /\ heard = [u \in Users |-> None]
    /\ mixed = {}

-----------------------------------------------------------------------------
HandleUpdatePresence(w, u) ==
    /\ hreq[w] = None
    /\ \E s \in Statuses :
           hreq' = [hreq EXCEPT ![w] = [at |-> "get", user |-> u, status |-> s,
                                        time |-> now, overtaken |-> FALSE]]
    /\ UNCHANGED <<presence, heard, mixed>>

HandleSetOffline(w, u) ==
    /\ hreq[w] = None
    /\ hreq' = [hreq EXCEPT ![w] = [at |-> "get", user |-> u, status |-> "offline",
                                    time |-> now, overtaken |-> FALSE]]
    /\ UNCHANGED <<presence, heard, mixed>>

(* Updates during which another update of the user has been written.       *)
OvertakenBy(reqs, u) ==
    [v \in Workers |-> IF reqs[v] # None /\ reqs[v].user = u
                         THEN [reqs[v] EXCEPT !.overtaken = TRUE] ELSE reqs[v]]

(* What the read returns, or that it fails, makes no difference.           *)
ReadPresence(w) ==
    /\ hreq[w] # None /\ hreq[w].at = "get"
    /\ hreq' = [hreq EXCEPT ![w].at = "upsert"]
    /\ UNCHANGED <<presence, heard, mixed>>

(* Mutant of UpdatePresence: away users count as offline.                  *)
OnlineOnly(status, time) ==
    [status |-> status, isOnline |-> status = "online", lastSeen |-> time]

(* Mutant of UpdatePresence: going offline clears the time.                *)
OfflineClears(status, time) ==
    [status |-> status, isOnline |-> status \in {"online", "away"},
     lastSeen |-> IF status = "offline" THEN 0 ELSE time]

UpdatePresence(status, time) ==
    [status |-> status, isOnline |-> status \in {"online", "away"}, lastSeen |-> time]

WritePresence(w) ==
    /\ hreq[w] # None /\ hreq[w].at = "upsert"
    /\ LET r == hreq[w] IN
       /\ presence' = [presence EXCEPT ![r.user] = UpdatePresence(r.status, r.time)]
       /\ heard' = [heard EXCEPT ![r.user] =
             IF r.overtaken THEN @ ELSE [status |-> r.status, time |-> r.time]]
       /\ hreq' = OvertakenBy([hreq EXCEPT ![w] = None], r.user)
       /\ mixed' = IF r.overtaken THEN mixed \cup {r.user} ELSE mixed \ {r.user}

PresenceFails(w) ==
    /\ hreq[w] # None /\ hreq[w].at = "upsert"
    /\ hreq' = [hreq EXCEPT ![w] = None]
    /\ UNCHANGED <<presence, heard, mixed>>

PresenceNext ==
    \/ \E w \in Workers, u \in Users : HandleUpdatePresence(w, u) \/ HandleSetOffline(w, u)
    \/ \E w \in Workers : ReadPresence(w) \/ WritePresence(w) \/ PresenceFails(w)

PresenceSpec ==
    /\ ClockInit /\ PresenceInit
    /\ [][\/ PresenceNext /\ UNCHANGED now
          \/ Tick /\ UNCHANGED presenceVars]_<<now, presenceVars>>

-----------------------------------------------------------------------------
SeenWithin(window) ==
    {u \in Users : presence[u] # None /\ presence[u].lastSeen >= now - window}

GetCCUMetrics ==
    [current |-> Cardinality({u \in SeenWithin(Minute) : presence[u].isOnline}),
     day     |-> Cardinality(SeenWithin(Day)),
     month   |-> Cardinality(SeenWithin(Month))]

HeardWithin(window) ==
    {u \in Users : heard[u] # None /\ heard[u].time >= now - window}

(* The counts are those of the heartbeats that were answered: a user who   *)
(* last said online or away, within the minute, is counted as concurrent,  *)
(* one who said anything else is not, as long as no user's last update was *)
(* overtaken by another of the same user.                                  *)
CountsAreHeard ==
    mixed = {} =>
        GetCCUMetrics =
            [current |-> Cardinality({u \in HeardWithin(Minute) :
                                          heard[u].status \in {"online", "away"}}),
             day     |-> Cardinality(HeardWithin(Day)),
             month   |-> Cardinality(HeardWithin(Month))]

(* The time a user was last seen goes back only when an update writes that *)
(* another update of that user has overtaken since it took the time.       *)
SeenForward ==
    [][\A u \in Users :
           presence[u] # None /\ presence'[u].lastSeen < presence[u].lastSeen
               => \E w \in Workers : hreq[w] # None /\ hreq[w].user = u /\ hreq[w].overtaken
      ]_<<now, presenceVars>>
=============================================================================
