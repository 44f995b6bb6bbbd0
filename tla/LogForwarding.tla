--------------------------- MODULE LogForwarding ---------------------------
(***************************************************************************)
(* The loggers of the API process in front of the log sink.  A goroutine   *)
(* that logs reads the clock and then offers its entry to a channel; a     *)
(* full channel drops it.  One worker takes the entries out and posts each *)
(* with a timeout, never again: an entry whose post has timed out may be   *)
(* on the wire still, and reach the sink after later ones.  Whoever else   *)
(* posts to the sink sends entries without a timestamp.                    *)
(*                                                                         *)
(* Entries are numbered in the order they enter the channel, from 1; 0 is  *)
(* an entry of another client.                                             *)
(***************************************************************************)
EXTENDS LogSink

CONSTANTS
    Writers,      \* goroutines of the API process that log
    QueueSize,    \* capacity of the channel
    MaxEntries,   \* bound of the entries that enter the channel
    MaxTime,      \* bound of the clock
    None

ASSUME ForwardingAssumption ==
    /\ Entries = {[n |-> n, time |-> t] : n \in 0..MaxEntries, t \in 0..MaxTime}
    /\ MaxEntries \in Nat /\ MaxTime \in Nat \ {0} /\ QueueSize \in Nat
    /\ None \notin Entries /\ None \notin 1..MaxTime

VARIABLES
    now,
    stamp,      \* writer -> the time it has read, or None
    count,      \* entries that entered the channel
    queue,      \* sinkQueue
    posting,    \* the entry the worker posts, or None
    wire,       \* entries on their way to the sink
    late        \* entries whose post timed out before they were ingested

loggerVars == <<stamp, count, queue, posting, late>>
vars       == <<sinkVars, loggerVars, now, wire>>

ForwardingTypeOK ==
    /\ SinkTypeOK
    /\ now \in 1..MaxTime /\ count \in 0..MaxEntries
    /\ stamp \in [Writers -> 1..MaxTime \cup {None}]
    /\ queue \in Seq(Entries) /\ Len(queue) <= QueueSize
    /\ posting \in Entries \cup {None}
    /\ wire \subseteq Entries /\ late \subseteq Entries

Init ==
    /\ SinkInit
    /\ now = 1 /\ count = 0
    /\ stamp = [w \in Writers |-> None]
    /\ queue = <<>> /\ posting = None
    /\ wire = {} /\ late = {}

-----------------------------------------------------------------------------
Tick ==
    /\ now < MaxTime /\ now' = now + 1
    /\ UNCHANGED <<sinkVars, loggerVars, wire>>

(* write reads the clock and encodes the entry ...                         *)
Stamp(w) ==
    /\ stamp[w] = None
    /\ stamp' = [stamp EXCEPT ![w] = now]
    /\ UNCHANGED <<sinkVars, now, count, queue, posting, wire, late>>

(* Mutant of HasRoom: one entry more than the channel has room for.        *)
RoomForOneMore == Len(queue) <= QueueSize

HasRoom == Len(queue) < QueueSize

(* ... and offers it to the channel, without waiting.                      *)
Offer(w) ==
    /\ stamp[w] # None /\ count < MaxEntries
    /\ stamp' = [stamp EXCEPT ![w] = None]
    /\ IF HasRoom
       THEN /\ queue' = Append(queue, [n |-> count + 1, time |-> stamp[w]])
            /\ count' = count + 1
       ELSE UNCHANGED <<queue, count>>
    /\ UNCHANGED <<sinkVars, now, posting, wire, late>>

-----------------------------------------------------------------------------
(* The worker takes the next entry and puts it on the wire.                *)
TakeAndPost ==
    /\ posting = None /\ queue # <<>>
    /\ posting' = Head(queue) /\ queue' = Tail(queue)
    /\ wire' = wire \cup {posting'}
    /\ UNCHANGED <<sinkVars, now, stamp, count, late>>

(* Mutant of HasAnswer: the worker goes on without the answer.             *)
PostSent == posting # None

HasAnswer == posting # None /\ posting \notin wire

(* The answer, whatever its status: the entry was ingested or refused.     *)
Answered ==
    /\ HasAnswer
    /\ posting' = None
    /\ UNCHANGED <<sinkVars, now, stamp, count, queue, wire, late>>

(* Mutant of AfterTimeout: the client has no Timeout and waits on.         *)
WaitsOn == posting

AfterTimeout == None

(* Do fails, after Timeout at the latest; the entry may be on the wire.    *)
TimesOut ==
    /\ posting # None /\ posting \in wire
    /\ posting' = AfterTimeout
    /\ late' = late \cup {posting}
    /\ UNCHANGED <<sinkVars, now, stamp, count, queue, wire>>

(* The sink handles a post, or the network or the sink loses it.           *)
Deliver(e) ==
    /\ e \in wire
    /\ wire' = wire \ {e}
    /\ IngestLog(e) \/ UNCHANGED sinkVars
    /\ UNCHANGED <<now, loggerVars>>

(* Another client posts an entry of its own.                               *)
ForeignPost ==
    /\ IngestLog([n |-> 0, time |-> 0])
    /\ UNCHANGED <<now, loggerVars, wire>>

(* The orchestrator starts again with an empty sink; what was on the wire  *)
(* to it is lost.                                                          *)
RestartOrchestrator ==
    /\ RestartSink
    /\ wire' = {}
    /\ UNCHANGED <<now, loggerVars>>

(* The API process ends, with the entries in its channel, and starts anew. *)
RestartAPI ==
    /\ stamp' = [w \in Writers |-> None]
    /\ queue' = <<>> /\ posting' = None
    /\ late' = late \cup wire
    /\ UNCHANGED <<sinkVars, now, count, wire>>

Next ==
    \/ Tick
    \/ \E w \in Writers : Stamp(w) \/ Offer(w)
    \/ TakeAndPost \/ Answered \/ TimesOut
    \/ \E e \in wire : Deliver(e)
    \/ ForeignPost \/ RestartOrchestrator \/ RestartAPI

(* The worker is a goroutine that never waits for anything but the channel *)
(* and Do, which its client's Timeout ends.                                *)
Spec ==
    /\ Init /\ [][Next]_vars
    /\ WF_vars(TakeAndPost) /\ WF_vars(Answered \/ TimesOut)

-----------------------------------------------------------------------------
(* An entry is in the sink once at most, and the entries of the loggers    *)
(* are there in the order they entered the channel, but for those whose    *)
(* post had timed out: the worker has one post under way at a time.        *)
PostedInOrder ==
    \A i, j \in DOMAIN logs :
        i < j /\ logs[i].n # 0 /\ logs[j].n # 0 /\ logs[j] \notin late
            => logs[i].n < logs[j].n

(* What has entered the channel leaves it, however many posts fail or hang *)
(* and however full the channel is: one failed post never stops the worker.*)
QueueDrains ==
    \A n \in 1..MaxEntries :
        (\E i \in DOMAIN queue : queue[i].n = n) ~> (\A i \in DOMAIN queue : queue[i].n # n)
=============================================================================
