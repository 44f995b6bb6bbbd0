--------------------------- MODULE Notifications ---------------------------
(***************************************************************************)
(* Push subscriptions and pending notifications.                           *)
(*                                                                         *)
(* A subscription is stored under a new id, and the endpoint column is     *)
(* unique; it is removed by a Search for endpoint and owner and a Delete   *)
(* of the key found.  A status update of a notification is a Get and a Set *)
(* of the whole row that counts the attempt; the status is stored as it    *)
(* comes.                                                                  *)
(***************************************************************************)
EXTENDS Requests, FiniteSetsExt

CONSTANTS
    Endpoints,    \* push endpoints of browsers
    NStatuses,    \* statuses of notifications, "pending" among them
    MaxAttempts   \* bound of the updates of one notification

ASSUME NotificationsAssumption == "pending" \in NStatuses /\ MaxAttempts \in Nat

Subscription == [user : Users, endpoint : Endpoints]
Pending      == [status : NStatuses, attempts : 0..MaxAttempts, createdAt : Times]

VARIABLES
    subscriptions,   \* the table: id (the time it was made) -> row, or None
    pending,         \* the table: id -> row, or None
    nreq,            \* what each worker is doing, or None
    live,            \* subscriptions answered, and not asked to be removed since
    gone,            \* subscriptions whose removal was answered, not stored since
    used,            \* ids some subscription was given, and those given twice
    reported,        \* id -> the answered updates: how many, the last status
    muddled          \* notifications two requests were given or two updates ran over

subscriptionVars == <<subscriptions, live, gone, used>>
pendingVars      == <<pending, reported, muddled>>
notificationVars == <<subscriptionVars, pendingVars, nreq>>

NRequest == [at : {"delete"}, id : Times, row : Subscription, stale : BOOLEAN]
            \cup [at : {"update"}, id : Times, status : NStatuses]
            \cup [at : {"set"}, id : Times, row : Pending, stale : BOOLEAN]

ASSUME NoneIsNoRecord == None \notin Subscription \cup Pending \cup NRequest

NotificationsTypeOK ==
    /\ subscriptions \in [Times -> Subscription \cup {None}]
    /\ pending \in [Times -> Pending \cup {None}]
    /\ nreq \in [Workers -> NRequest \cup {None}]
    /\ live \subseteq Subscription /\ gone \subseteq Subscription
    /\ used \in [once : SUBSET Times, twice : SUBSET Times]
    /\ reported \in [Times -> [status : NStatuses, attempts : 0..MaxAttempts]]
    /\ muddled \subseteq Times

NotificationsInit ==
    /\ subscriptions = [id \in Times |-> None]
    /\ pending = [id \in Times |-> None]
    /\ nreq = [w \in Workers |-> None]
    /\ live = {} /\ gone = {}
    /\ used = [once |-> {}, twice |-> {}]
    /\ reported = [id \in Times |-> [status |-> "pending", attempts |-> 0]]
    /\ muddled = {}

-----------------------------------------------------------------------------
(* Mutant of EndpointFree: the endpoint column is not unique.              *)
AnyEndpoint(id, e) == TRUE

(* The unique column refuses a second row of an endpoint, except the row   *)
(* that is written over.                                                   *)
EndpointFree(id, e) ==
    \A other \in Times \ {id} :
        subscriptions[other] # None => subscriptions[other].endpoint # e

StaleDeletes(reqs, row) ==
    [v \in Workers |-> IF reqs[v] # None /\ reqs[v].at = "delete" /\ reqs[v].row = row
                         THEN [reqs[v] EXCEPT !.stale = TRUE] ELSE reqs[v]]

(* The id is the time: a request of the same tick has taken it already.    *)
StoreSubscription(u, e) ==
    LET row == [user |-> u, endpoint |-> e] IN
    /\ EndpointFree(now, e)
    /\ subscriptions' = [subscriptions EXCEPT ![now] = row]
    /\ used' = [once  |-> used.once \cup {now},
                twice |-> used.twice \cup (used.once \cap {now})]
    /\ live' = live \cup {row}
    /\ gone' = gone \ {row}
    /\ nreq' = StaleDeletes(nreq, row)
    /\ UNCHANGED pendingVars

(* Mutant of Matching: the owner is not part of the search.                *)
MatchingEndpoint(row) ==
    {id \in Times : subscriptions[id] # None
                     /\ subscriptions[id].endpoint = row.endpoint}

Matching(row) == {id \in Times : subscriptions[id] = row}

(* RemoveSubscriptionByEndpoint searches for one row; nothing found is a   *)
(* success.                                                                *)
RemoveSubscription(w, u, e) ==
    LET row == [user |-> u, endpoint |-> e] IN
    /\ nreq[w] = None
    /\ live' = live \ {row}
    /\ \/ /\ Matching(row) = {}
          /\ gone' = gone \cup {row}
          /\ UNCHANGED nreq
       \/ /\ \E id \in Matching(row) :
                 nreq' = [nreq EXCEPT ![w] =
                     [at |-> "delete", id |-> id, row |-> row, stale |-> FALSE]]
          /\ UNCHANGED gone
    /\ UNCHANGED <<subscriptions, used, pendingVars>>

DeleteSubscription(w) ==
    /\ nreq[w] # None /\ nreq[w].at = "delete"
    /\ subscriptions' = [subscriptions EXCEPT ![nreq[w].id] = None]
    /\ gone' = IF nreq[w].stale THEN gone ELSE gone \cup {nreq[w].row}
    /\ nreq' = [nreq EXCEPT ![w] = None]
    /\ UNCHANGED <<live, used, pendingVars>>

-----------------------------------------------------------------------------
NewPending == [status |-> "pending", attempts |-> 0, createdAt |-> now]

(* For callers that act as moderator.  The id is the time.                 *)
CreateNotification ==
    /\ pending' = [pending EXCEPT ![now] = NewPending]
    /\ muddled' = IF pending[now] # None THEN muddled \cup {now} ELSE muddled
    /\ UNCHANGED <<subscriptionVars, nreq, reported>>

(* For callers that act as moderator.                                      *)
UpdateStatus(w, id) ==
    /\ nreq[w] = None
    /\ \E s \in NStatuses :
           nreq' = [nreq EXCEPT ![w] = [at |-> "update", id |-> id, status |-> s]]
    /\ UNCHANGED <<subscriptionVars, pendingVars>>

(* Mutant of Attempted: an update that keeps the status is not counted.    *)
AttemptedOnChange(row, status) ==
    [row EXCEPT !.status = status, !.attempts = IF row.status = status THEN @ ELSE @ + 1]

Attempted(row, status) == [row EXCEPT !.status = status, !.attempts = @ + 1]

(* UpdatePendingStatus reads: an unknown id ends the request.              *)
ReadPending(w) ==
    /\ nreq[w] # None /\ nreq[w].at = "update"
    /\ LET row == pending[nreq[w].id] IN
       /\ row # None => row.attempts < MaxAttempts
       /\ nreq' = [nreq EXCEPT ![w] =
             IF row = None THEN None
             ELSE [at |-> "set", id |-> @.id, row |-> Attempted(row, @.status),
                   stale |-> FALSE]]
    /\ UNCHANGED <<subscriptionVars, pendingVars>>

StaleSets(reqs, id) ==
    [v \in Workers |-> IF reqs[v] # None /\ reqs[v].at = "set" /\ reqs[v].id = id
                         THEN [reqs[v] EXCEPT !.stale = TRUE] ELSE reqs[v]]

SetPending(w) ==
    /\ nreq[w] # None /\ nreq[w].at = "set"
    /\ LET r == nreq[w] IN
       /\ pending' = [pending EXCEPT ![r.id] = r.row]
       /\ nreq' = StaleSets([nreq EXCEPT ![w] = None], r.id)
       /\ muddled' = IF r.stale THEN muddled \cup {r.id} ELSE muddled
       /\ reported' = [reported EXCEPT ![r.id] =
             [status |-> r.row.status,
              attempts |-> IF @.attempts < MaxAttempts THEN @.attempts + 1 ELSE @.attempts]]
    /\ UNCHANGED subscriptionVars

NotificationFails(w) ==
    /\ nreq[w] # None
    /\ nreq' = [nreq EXCEPT ![w] = None]
    /\ UNCHANGED <<subscriptionVars, pendingVars>>

(* ListPending: the newest ones, at most n.                                *)
ListPending(n) ==
    LET all   == {id \in Times : pending[id] # None /\ pending[id].status = "pending"}
        newer(id) == {other \in all : pending[other].createdAt > pending[id].createdAt}
    IN  {id \in all : Cardinality(newer(id)) < n}

SubscriptionsNext ==
    \/ \E u \in Users, e \in Endpoints :
           \/ StoreSubscription(u, e)
           \/ \E w \in Workers : RemoveSubscription(w, u, e)
    \/ \E w \in Workers : DeleteSubscription(w) \/ NotificationFails(w)

PendingNext ==
    \/ CreateNotification
    \/ \E w \in Workers : \/ \E id \in Times : UpdateStatus(w, id)
                          \/ ReadPending(w) \/ SetPending(w) \/ NotificationFails(w)

NotificationsSpec ==
    /\ ClockInit /\ NotificationsInit
    /\ [][\/ (SubscriptionsNext \/ PendingNext) /\ UNCHANGED now
          \/ Tick /\ UNCHANGED notificationVars]_<<now, notificationVars>>

-----------------------------------------------------------------------------
(* A browser that has subscribed stays subscribed until its player asks to *)
(* remove it: no removal, however late its Delete, takes another row than  *)
(* the one it looked for.  Two requests that got one id are the exception. *)
SubscriptionsKept ==
    used.twice = {} => \A row \in live : \E id \in Times : subscriptions[id] = row

(* A removal that was answered leaves no subscription of that player and   *)
(* endpoint, although it deletes one row only, unless one was stored       *)
(* during the removal or after it.                                         *)
RemovalsHold == \A row \in gone : \A id \in Times : subscriptions[id] # row

(* What the sender of notifications is told to send is what was last       *)
(* reported of them, and the attempts count every answered report, unless  *)
(* two reports on one notification overlapped or two notifications got     *)
(* one id.                                                                 *)
ReportsKept ==
    \A id \in {x \in Times \ muddled : pending[x] # None} :
        /\ pending[id].attempts = reported[id].attempts
        /\ id \in ListPending(MaxTime) <=> reported[id].status = "pending"
=============================================================================
