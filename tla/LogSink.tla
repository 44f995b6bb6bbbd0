------------------------------ MODULE LogSink ------------------------------
(***************************************************************************)
(* The log sink of the orchestrator process: the last Capacity entries     *)
(* posted to it and their timestamps, in two slices that one mutex guards, *)
(* and the listing of them since a time and up to a limit.  The slices are *)
(* in memory: a restart of the orchestrator forgets them.                  *)
(***************************************************************************)
EXTENDS Integers, SequencesExt

CONSTANTS
    Entries,    \* what may be posted
    TimeOf,     \* entry -> its timestamp, 0 if it has none
    Capacity    \* entries kept

ASSUME LogSinkAssumption == TimeOf \in [Entries -> Nat] /\ Capacity \in Nat \ {0}

VARIABLES logs, logTimes

sinkVars == <<logs, logTimes>>

SinkTypeOK == logs \in Seq(Entries) /\ logTimes \in Seq(Nat)

SinkInit == logs = <<>> /\ logTimes = <<>>

-----------------------------------------------------------------------------
extractLogTimestamp(e) == TimeOf[e]

(* Mutant of Cut: the slice is cut when it has reached the capacity.       *)
CutEarly(s, t) == IF Len(t) >= Capacity THEN SubSeq(s, 2, Len(s)) ELSE s

(* s without its oldest element, if the logs t have passed the capacity.   *)
Cut(s, t) ==
    IF Len(t) > Capacity THEN SubSeq(s, Len(s) - Capacity + 1, Len(s)) ELSE s

IngestLog(e) ==
    LET all == Append(logs, e) IN
    /\ logs' = Cut(all, all)
    /\ logTimes' = Cut(Append(logTimes, extractLogTimestamp(e)), all)

RestartSink == logs' = <<>> /\ logTimes' = <<>>

SinkNext == RestartSink \/ \E e \in Entries : IngestLog(e)

SinkSpec == SinkInit /\ [][SinkNext]_sinkVars

-----------------------------------------------------------------------------
(* An entry without a timestamp is never before since.                     *)
Since(i, since) == logTimes[i] = 0 \/ logTimes[i] >= since

(* Mutant of Collect: the walk back ends at the first entry before since.  *)
UntilBefore(i, since, limit, found) ==
    IF Len(found) < limit /\ \A j \in i..Len(logs) : Since(j, since)
    THEN Append(found, logs[i]) ELSE found

(* One step of a walk over the entries.                                    *)
Collect(i, since, limit, found) ==
    IF Len(found) < limit /\ Since(i, since) THEN Append(found, logs[i]) ELSE found

(* What a walk over the entries in an order of their indices finds.        *)
Walk(order, since, limit) ==
    LET found[n \in 0..Len(order)] ==
            IF n = 0 THEN <<>> ELSE Collect(order[n], since, limit, found[n - 1])
    IN  found[Len(order)]

(* Without since, the newest limit entries; with it, a walk from the       *)
(* newest entry back that stops at the limit, reversed, or one over all    *)
(* of them.  limit 0 stands for no limit, since 0 for no time.             *)
ListLogs(since, limit) ==
    LET oldestFirst == [i \in 1..Len(logs) |-> i] IN
    IF since = 0
    THEN SubSeq(logs, IF limit \in 1..Len(logs) THEN Len(logs) - limit + 1 ELSE 1, Len(logs))
    ELSE IF limit > 0 THEN Reverse(Walk(Reverse(oldestFirst), since, limit))
                      ELSE Walk(oldestFirst, since, Len(logs))

(* The listing shows entries of wanted, in order, none of them twice: all  *)
(* of them or, if there is a limit, that many, and no older instead of a   *)
(* newer one.                                                              *)
IsListing(listing, wanted, limit) ==
    \E at \in [1..Len(listing) -> wanted] :
        /\ \A k \in DOMAIN at : listing[k] = logs[at[k]]
        /\ \A j, k \in DOMAIN at : j < k => at[j] < at[k]
        /\ limit > 0 => Len(listing) <= limit
        /\ \A i \in wanted : \/ \E k \in DOMAIN at : at[k] = i
                             \/ limit > 0 /\ Len(listing) = limit
                                /\ \A k \in DOMAIN at : i < at[k]

ListingIsExact(since, limit) ==
    LET wanted == {i \in DOMAIN logs : \/ since = 0 \/ TimeOf[logs[i]] = 0
                                       \/ TimeOf[logs[i]] >= since}
    IN  IsListing(ListLogs(since, limit), wanted, limit)

(* The listing is what it says: the last limit of the kept entries that    *)
(* are not before since by their own timestamp, in the order they were     *)
(* posted, though writers' clocks and posts do not agree on one order.     *)
ListingsExact == \A since \in 0..2, limit \in 0..Capacity : ListingIsExact(since, limit)

(* The two slices are one window of the entries posted.                    *)
Window == INSTANCE LogWindow WITH
              window <- [i \in DOMAIN logs |-> [entry |-> logs[i], time |-> logTimes[i]]]

ShowsTheWindow == Window!Spec
=============================================================================
