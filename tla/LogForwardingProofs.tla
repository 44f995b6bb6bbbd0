------------------------- MODULE LogForwardingProofs -------------------------
(***************************************************************************)
(* Theorems about the log sink and the loggers in front of it, for any     *)
(* capacities of the channel and of the sink, any number of goroutines     *)
(* that log, and any bounds of the entries and of the clock.               *)
(***************************************************************************)
EXTENDS LogForwarding, SequenceTheorems, WellFoundedInduction, TLAPS

-----------------------------------------------------------------------------
(* The two slices                                                          *)

Timed(s, t) == [i \in DOMAIN s |-> [entry |-> s[i], time |-> t[i]]]

Latest(s, n) == SubSeq(s, Len(s) - n + 1, Len(s))

LEMMA TimedProperties ==
    ASSUME NEW s \in Seq(Entries), NEW t \in Seq(Nat), Len(s) = Len(t)
    PROVE  /\ Timed(s, t) \in Seq(Window!Shown)
           /\ Len(Timed(s, t)) = Len(s)
           /\ \A i \in 1..Len(s) : Timed(s, t)[i] = [entry |-> s[i], time |-> t[i]]
<1>1. Len(s) \in Nat /\ DOMAIN s = 1..Len(s)
      BY LenProperties
<1>2. \A i \in 1..Len(s) : s[i] \in Entries /\ t[i] \in Nat
      BY ElementOfSeq
<1>3. Timed(s, t) \in [1..Len(s) -> Window!Shown]
      BY <1>1, <1>2 DEF Timed, Window!Shown
<1> QED BY <1>1, <1>3 DEF Timed

LEMMA TimedOfAppend ==
    ASSUME NEW s \in Seq(Entries), NEW t \in Seq(Nat), Len(s) = Len(t),
           NEW e \in Entries, NEW d \in Nat
    PROVE  Timed(Append(s, e), Append(t, d)) = Append(Timed(s, t), [entry |-> e, time |-> d])
<1> DEFINE x == [entry |-> e, time |-> d]
           a == Append(s, e)
           b == Append(t, d)
           z == Append(Timed(s, t), x)
<1>1. x \in Window!Shown
      BY DEF Window!Shown
<1>2. /\ a \in Seq(Entries) /\ Len(a) = Len(s) + 1 /\ a[Len(s) + 1] = e
      /\ b \in Seq(Nat) /\ Len(b) = Len(s) + 1 /\ b[Len(s) + 1] = d
      /\ \A i \in 1..Len(s) : a[i] = s[i] /\ b[i] = t[i]
      BY AppendProperties
<1>3. /\ z \in Seq(Window!Shown) /\ Len(z) = Len(s) + 1 /\ z[Len(s) + 1] = x
      /\ \A i \in 1..Len(s) : z[i] = Timed(s, t)[i]
      BY <1>1, TimedProperties, AppendProperties
<1>4. /\ Timed(a, b) \in Seq(Window!Shown) /\ Len(Timed(a, b)) = Len(s) + 1
      /\ \A i \in 1..Len(s) + 1 : Timed(a, b)[i] = [entry |-> a[i], time |-> b[i]]
      BY <1>2, TimedProperties
<1>5. Len(s) \in Nat
      BY LenProperties
<1> HIDE DEF a, b, z
<1>6. ASSUME NEW i \in 1..Len(s) + 1 PROVE Timed(a, b)[i] = z[i]
      <2>1. CASE i \in 1..Len(s)
            <3>1. z[i] = [entry |-> s[i], time |-> t[i]]
                  BY <1>3, <2>1, TimedProperties
            <3>2. Timed(a, b)[i] = [entry |-> a[i], time |-> b[i]]
                  BY <1>4
            <3> QED BY <1>2, <2>1, <3>1, <3>2
      <2>2. CASE i = Len(s) + 1
            BY <1>2, <1>3, <1>4, <2>2
      <2> QED BY <1>5, <2>1, <2>2
<1>7. Timed(a, b) = z
      BY <1>3, <1>4, <1>6, SeqEqual
<1> QED BY <1>7 DEF a, b, z

LEMMA LatestProperties ==
    ASSUME NEW S, NEW s \in Seq(S), NEW n \in Nat, n <= Len(s)
    PROVE  /\ Latest(s, n) \in Seq(S)
           /\ Len(Latest(s, n)) = n
           /\ \A i \in 1..n : Latest(s, n)[i] = s[Len(s) - n + i]
<1>1. Len(s) \in Nat
      BY LenProperties
<1>2. \A i \in Len(s) - n + 1..Len(s) : s[i] \in S
      BY <1>1, ElementOfSeq
<1> QED BY <1>1, <1>2, SubSeqProperties DEF Latest

LEMMA TimedOfLatest ==
    ASSUME NEW s \in Seq(Entries), NEW t \in Seq(Nat), Len(s) = Len(t),
           NEW n \in Nat, n <= Len(s)
    PROVE  Timed(Latest(s, n), Latest(t, n)) = Latest(Timed(s, t), n)
<1> DEFINE a == Latest(s, n)
           b == Latest(t, n)
           z == Latest(Timed(s, t), n)
<1>1. /\ a \in Seq(Entries) /\ Len(a) = n /\ \A i \in 1..n : a[i] = s[Len(s) - n + i]
      BY LatestProperties
<1>7. /\ b \in Seq(Nat) /\ Len(b) = n /\ \A i \in 1..n : b[i] = t[Len(s) - n + i]
      <2>1. n <= Len(t)
            OBVIOUS
      <2> HIDE DEF b
      <2>2. /\ Latest(t, n) \in Seq(Nat) /\ Len(Latest(t, n)) = n
            /\ \A i \in 1..n : Latest(t, n)[i] = t[Len(t) - n + i]
            BY <2>1, LatestProperties
      <2> QED BY <2>2 DEF b
<1>2. /\ z \in Seq(Window!Shown) /\ Len(z) = n
      /\ \A i \in 1..n : z[i] = Timed(s, t)[Len(s) - n + i]
      <2>1. Timed(s, t) \in Seq(Window!Shown) /\ Len(Timed(s, t)) = Len(s)
            BY TimedProperties
      <2> DEFINE w == Timed(s, t)
      <2> HIDE DEF w
      <2>2. /\ Latest(w, n) \in Seq(Window!Shown) /\ Len(Latest(w, n)) = n
            /\ \A i \in 1..n : Latest(w, n)[i] = w[Len(w) - n + i]
            BY <2>1, LatestProperties DEF w
      <2> QED BY <2>1, <2>2 DEF w
<1>3. /\ Timed(a, b) \in Seq(Window!Shown) /\ Len(Timed(a, b)) = n
      /\ \A i \in 1..n : Timed(a, b)[i] = [entry |-> a[i], time |-> b[i]]
      BY <1>1, <1>7, TimedProperties
<1>4. Len(s) \in Nat
      BY LenProperties
<1> HIDE DEF a, b, z
<1>5. ASSUME NEW i \in 1..n PROVE Timed(a, b)[i] = z[i]
      <2>1. Len(s) - n + i \in 1..Len(s)
            BY <1>4
      <2>2. z[i] = [entry |-> s[Len(s) - n + i], time |-> t[Len(s) - n + i]]
            BY <1>2, <2>1, TimedProperties
      <2>3. Timed(a, b)[i] = [entry |-> a[i], time |-> b[i]]
            BY <1>3
      <2> QED BY <1>1, <1>7, <2>2, <2>3
<1>6. Timed(a, b) = z
      BY <1>2, <1>3, <1>5, SeqEqual
<1> QED BY <1>6 DEF a, b, z

-----------------------------------------------------------------------------
(* The sink is a window of what was posted                                 *)

(* The slices are of one length, and never longer than the capacity.       *)
SinkInv ==
    SinkTypeOK /\ Len(logs) = Len(logTimes) /\ Len(logs) <= Capacity

LEMMA SinkInitInv == SinkInit => SinkInv /\ Window!Init
<1> SUFFICES ASSUME SinkInit PROVE SinkInv /\ Window!Init
    OBVIOUS
<1>1. SinkInv
      BY EmptySeq, LogSinkAssumption DEF SinkInit, SinkInv, SinkTypeOK
<1>2. DOMAIN logs = {}
      BY EmptySeq DEF SinkInit
<1>3. Window!Init
      BY <1>2 DEF Window!Init, SinkInit
<1> QED BY <1>1, <1>3

LEMMA IngestLogInv ==
    ASSUME SinkInv, NEW e \in Entries, IngestLog(e)
    PROVE  SinkInv' /\ Window!Post(e)
<1> DEFINE d   == TimeOf[e]
           all == Append(logs, e)
           ats == Append(logTimes, d)
           z   == Timed(logs, logTimes)
<1>1. d \in Nat /\ Capacity \in Nat \ {0}
      BY LogSinkAssumption
<1>2. logs \in Seq(Entries) /\ logTimes \in Seq(Nat) /\ Len(logs) = Len(logTimes)
      BY DEF SinkInv, SinkTypeOK
<1>3. Len(logs) \in Nat /\ Len(logs) <= Capacity
      BY <1>2, LenProperties DEF SinkInv
<1>4. /\ all \in Seq(Entries) /\ Len(all) = Len(logs) + 1
      /\ ats \in Seq(Nat) /\ Len(ats) = Len(logs) + 1
      BY <1>1, <1>2, AppendProperties
<1>5. /\ logs' = IF Len(all) > Capacity THEN Latest(all, Capacity) ELSE all
      /\ logTimes' = IF Len(all) > Capacity THEN Latest(ats, Capacity) ELSE ats
      BY <1>4 DEF IngestLog, Cut, Latest, extractLogTimestamp
<1>6. Timed(all, ats) = Append(z, [entry |-> e, time |-> d])
      BY <1>1, <1>2, TimedOfAppend
<1>7. Len(Timed(all, ats)) = Len(all)
      BY <1>4, TimedProperties
<1> HIDE DEF d, all, ats, z
<1>8. /\ SinkInv'
      /\ Timed(logs', logTimes') = Window!Recent(Timed(all, ats))
      <2>1. CASE Len(all) > Capacity
            <3>1. Capacity \in Nat /\ Capacity <= Len(all)
                  BY <1>1, <1>3, <1>4, <2>1
            <3>2. /\ logs' \in Seq(Entries) /\ Len(logs') = Capacity
                  /\ logTimes' \in Seq(Nat) /\ Len(logTimes') = Capacity
                  BY <1>4, <1>5, <2>1, <3>1, LatestProperties
            <3>3. Timed(logs', logTimes') = Latest(Timed(all, ats), Capacity)
                  BY <1>4, <1>5, <2>1, <3>1, TimedOfLatest
            <3> QED BY <1>1, <1>7, <2>1, <3>2, <3>3
                    DEF SinkInv, SinkTypeOK, Window!Recent, Latest
      <2>2. CASE ~(Len(all) > Capacity)
            BY <1>1, <1>3, <1>4, <1>5, <1>7, <2>2 DEF SinkInv, SinkTypeOK, Window!Recent
      <2> QED BY <2>1, <2>2
<1>9. Window!Post(e)
      BY <1>6, <1>8 DEF Window!Post, Timed, z, d
<1> QED BY <1>8, <1>9

LEMMA SinkNextInv ==
    ASSUME SinkInv, [SinkNext]_sinkVars
    PROVE  SinkInv' /\ [Window!Next]_([i \in DOMAIN logs |->
                                          [entry |-> logs[i], time |-> logTimes[i]]])
<1>1. CASE RestartSink
      <2>1. SinkInv' /\ Window!Init'
            BY <1>1, SinkInitInv, EmptySeq, LogSinkAssumption
               DEF RestartSink, SinkInv, SinkTypeOK, Window!Init
      <2> QED BY <2>1 DEF Window!Next, Window!Restart, Window!Init
<1>2. ASSUME NEW e \in Entries, IngestLog(e)
      PROVE  SinkInv' /\ Window!Next
      BY <1>2, IngestLogInv DEF Window!Next
<1>3. CASE UNCHANGED sinkVars
      BY <1>3 DEF sinkVars, SinkInv, SinkTypeOK
<1> QED BY <1>1, <1>2, <1>3 DEF SinkNext

(* The two parallel slices, cut alike, implement one window of the last    *)
(* Capacity entries, each with its own time.                               *)
THEOREM SinkShowsTheWindow == SinkSpec => ShowsTheWindow
BY SinkInitInv, SinkNextInv, PTL DEF SinkSpec, ShowsTheWindow, Window!Spec

-----------------------------------------------------------------------------
(* The loggers                                                             *)

(* A post adds one entry at the end, and may push the oldest one out.      *)
LEMMA IngestShifts ==
    ASSUME SinkInv, NEW e \in Entries, IngestLog(e)
    PROVE  \E d \in {0, 1} :
              /\ Len(logs') = Len(logs) + 1 - d
              /\ logs'[Len(logs')] = e
              /\ \A i \in 1..Len(logs') - 1 :
                    i + d \in 1..Len(logs) /\ logs'[i] = logs[i + d]
<1> DEFINE all == Append(logs, e)
<1>1. logs \in Seq(Entries) /\ Len(logs) \in Nat /\ Capacity \in Nat \ {0}
      BY LenProperties, LogSinkAssumption DEF SinkInv, SinkTypeOK
<1>2. /\ all \in Seq(Entries) /\ Len(all) = Len(logs) + 1 /\ all[Len(logs) + 1] = e
      /\ \A i \in 1..Len(logs) : all[i] = logs[i]
      BY <1>1, AppendProperties
<1>3. logs' = IF Len(all) > Capacity THEN Latest(all, Capacity) ELSE all
      BY DEF IngestLog, Cut, Latest
<1> HIDE DEF all
<1>4. CASE Len(all) > Capacity
      <2>1. Len(logs) = Capacity
            BY <1>1, <1>2, <1>4 DEF SinkInv
      <2>2. /\ Len(logs') = Capacity
            /\ \A i \in 1..Capacity : logs'[i] = all[Len(all) - Capacity + i]
            <3>1. Capacity \in Nat /\ Capacity <= Len(all)
                  BY <1>1, <1>2, <1>4
            <3>2. all \in Seq(Entries)
                  BY <1>2
            <3>3. /\ Len(Latest(all, Capacity)) = Capacity
                  /\ \A i \in 1..Capacity :
                        Latest(all, Capacity)[i] = all[Len(all) - Capacity + i]
                  BY <3>1, <3>2, LatestProperties
            <3> QED BY <1>3, <1>4, <3>3
      <2>3. \A i \in 1..Capacity : logs'[i] = all[i + 1]
            BY <1>1, <1>2, <2>1, <2>2
      <2> QED BY <1>1, <1>2, <2>1, <2>2, <2>3
<1>5. CASE ~(Len(all) > Capacity)
      BY <1>1, <1>2, <1>3, <1>5
<1> QED BY <1>4, <1>5

(* n is the number of an entry that has left the channel.                  *)
Taken(n) ==
    /\ n \in 0..count
    /\ \A k \in 1..Len(queue) : n < queue[k].n

QueueInOrder ==
    /\ \A k \in 1..Len(queue) : queue[k].n \in 1..count
    /\ \A j, k \in 1..Len(queue) : j < k => queue[j].n < queue[k].n

(* The entry the worker posts is the newest of those that have left the    *)
(* channel, and as long as it is on the wire the sink does not have it.    *)
PostingNewest ==
    posting # None =>
        /\ posting.n \in 1..count /\ Taken(posting.n) /\ posting \notin late
        /\ posting \in wire => \A i \in 1..Len(logs) : logs[i].n < posting.n

(* Any other entry on the wire has timed out.                              *)
WireLate ==
    \A e \in wire :
        /\ Taken(e.n)
        /\ e # posting => e \in late /\ (posting # None => e.n < posting.n)

ForwardingInv ==
    /\ SinkInv /\ ForwardingTypeOK
    /\ QueueInOrder /\ PostingNewest /\ WireLate
    /\ \A e \in late : Taken(e.n)
    /\ \A i \in 1..Len(logs) : Taken(logs[i].n)
    /\ PostedInOrder

LEMMA EntryTypes ==
    ASSUME NEW e \in Entries
    PROVE  e.n \in 0..MaxEntries /\ e.time \in 0..MaxTime
BY ForwardingAssumption

LEMMA EntryMade ==
    ASSUME NEW n \in 0..MaxEntries, NEW t \in 0..MaxTime
    PROVE  [n |-> n, time |-> t] \in Entries
BY ForwardingAssumption

LEMMA ForwardingInitInv == Init => ForwardingInv
<1> SUFFICES ASSUME Init PROVE ForwardingInv
    OBVIOUS
<1>1. SinkInv /\ Len(logs) = 0 /\ Len(queue) = 0
      BY SinkInitInv, EmptySeq DEF Init, SinkInit
<1>2. ForwardingTypeOK
      BY <1>1, EmptySeq, ForwardingAssumption DEF Init, ForwardingTypeOK, SinkInv
<1>3. DOMAIN logs = {}
      BY EmptySeq DEF Init, SinkInit
<1> QED BY <1>1, <1>2, <1>3
        DEF Init, ForwardingInv, QueueInOrder, PostingNewest, WireLate, PostedInOrder

(* The steps that leave the sink, the channel and the wire alone.          *)
LEMMA TickInv == ForwardingInv /\ Tick => ForwardingInv'
<1> SUFFICES ASSUME ForwardingInv, Tick PROVE ForwardingInv'
    OBVIOUS
<1>1. now' \in 1..MaxTime /\ UNCHANGED <<logs, logTimes, stamp, count, queue, posting, late, wire>>
      BY ForwardingAssumption
         DEF ForwardingInv, ForwardingTypeOK, Tick, sinkVars, loggerVars
<1> QED BY <1>1
        DEF ForwardingInv, ForwardingTypeOK, SinkInv, SinkTypeOK, QueueInOrder,
            PostingNewest, WireLate, PostedInOrder, Taken

LEMMA StampInv ==
    ASSUME ForwardingInv, NEW w \in Writers, Stamp(w)
    PROVE  ForwardingInv'
<1>1. /\ stamp' \in [Writers -> 1..MaxTime \cup {None}]
      /\ UNCHANGED <<logs, logTimes, now, count, queue, posting, late, wire>>
      BY DEF ForwardingInv, ForwardingTypeOK, Stamp, sinkVars
<1> QED BY <1>1
        DEF ForwardingInv, ForwardingTypeOK, SinkInv, SinkTypeOK, QueueInOrder,
            PostingNewest, WireLate, PostedInOrder, Taken

LEMMA OfferInv ==
    ASSUME ForwardingInv, NEW w \in Writers, Offer(w)
    PROVE  ForwardingInv'
<1>1. /\ UNCHANGED <<logs, logTimes, now, posting, wire, late>>
      /\ stamp' \in [Writers -> 1..MaxTime \cup {None}]
      /\ stamp[w] \in 1..MaxTime /\ count \in Nat /\ count < MaxEntries
      BY DEF ForwardingInv, ForwardingTypeOK, Offer, sinkVars
<1>2. queue \in Seq(Entries) /\ Len(queue) \in Nat /\ Len(queue) <= QueueSize
      BY LenProperties DEF ForwardingInv, ForwardingTypeOK
<1>3. CASE UNCHANGED <<queue, count>>
      BY <1>1, <1>3
         DEF ForwardingInv, ForwardingTypeOK, SinkInv, SinkTypeOK, QueueInOrder,
             PostingNewest, WireLate, PostedInOrder, Taken
<1>4. CASE HasRoom /\ queue' = Append(queue, [n |-> count + 1, time |-> stamp[w]])
                   /\ count' = count + 1
      <2> DEFINE e == [n |-> count + 1, time |-> stamp[w]]
      <2>1. e \in Entries /\ e.n = count + 1
            BY <1>1, EntryMade, ForwardingAssumption
      <2> HIDE DEF e
      <2>2. /\ queue' \in Seq(Entries) /\ Len(queue') = Len(queue) + 1
            /\ \A k \in 1..Len(queue) : queue'[k] = queue[k]
            /\ queue'[Len(queue) + 1] = e
            BY <1>2, <1>4, <2>1, AppendProperties DEF e
      <2>3. ForwardingTypeOK'
            <3>1. Len(queue') <= QueueSize
                  BY <1>2, <1>4, <2>2, ForwardingAssumption DEF HasRoom
            <3>2. count' \in 0..MaxEntries
                  BY <1>1, <1>4, ForwardingAssumption
            <3> QED BY <1>1, <2>2, <3>1, <3>2
                    DEF ForwardingInv, ForwardingTypeOK, SinkTypeOK
      <2>4. \A n : Taken(n) => Taken(n)'
            <3> SUFFICES ASSUME NEW n, Taken(n), NEW k \in 1..Len(queue')
                         PROVE  n \in 0..count' /\ n < queue'[k].n
                BY <1>1, <1>4 DEF Taken
            <3>1. n \in 0..count'
                  BY <1>1, <1>4 DEF Taken
            <3>2. CASE k \in 1..Len(queue)
                  BY <2>2, <3>1, <3>2 DEF Taken
            <3>3. CASE k = Len(queue) + 1
                  <4>1. n \in 0..count /\ queue'[k].n = count + 1
                        BY <2>1, <2>2, <3>3 DEF Taken
                  <4> QED BY <1>1, <3>1, <4>1
            <3> QED BY <1>2, <2>2, <3>1, <3>2, <3>3
      <2>5. QueueInOrder'
            <3>1. \A k \in 1..Len(queue) : queue'[k].n \in 1..count
                  BY <2>2 DEF ForwardingInv, QueueInOrder
            <3>2. \A k \in 1..Len(queue') : k \in 1..Len(queue) \/ k = Len(queue) + 1
                  BY <1>2, <2>2
            <3>3. \A k \in 1..Len(queue') : queue'[k].n \in 1..count'
                  BY <1>1, <1>4, <2>1, <2>2, <3>1, <3>2
            <3>4. ASSUME NEW j \in 1..Len(queue'), NEW k \in 1..Len(queue'), j < k
                  PROVE  queue'[j].n < queue'[k].n
                  <4>1. j \in 1..Len(queue)
                        BY <1>2, <3>2, <3>4
                  <4>2. CASE k \in 1..Len(queue)
                        BY <2>2, <3>4, <4>1, <4>2 DEF ForwardingInv, QueueInOrder
                  <4>3. CASE k = Len(queue) + 1
                        BY <1>1, <2>1, <2>2, <3>1, <4>1, <4>3
                  <4> QED BY <3>2, <4>2, <4>3
            <3> QED BY <3>3, <3>4 DEF QueueInOrder
      <2>6. PostingNewest' /\ WireLate'
            BY <1>1, <1>4, <2>4 DEF ForwardingInv, PostingNewest, WireLate
      <2> QED BY <1>1, <2>3, <2>4, <2>5, <2>6
              DEF ForwardingInv, SinkInv, SinkTypeOK, PostedInOrder
<1> QED BY <1>3, <1>4 DEF Offer

LEMMA TakeAndPostInv ==
    ASSUME ForwardingInv, TakeAndPost
    PROVE  ForwardingInv'
<1>1. /\ posting = None /\ queue # <<>>
      /\ posting' = Head(queue) /\ queue' = Tail(queue)
      /\ wire' = wire \cup {posting'}
      /\ UNCHANGED <<logs, logTimes, now, stamp, count, late>>
      BY DEF TakeAndPost, sinkVars
<1>2. queue \in Seq(Entries) /\ Len(queue) \in Nat /\ Len(queue) <= QueueSize
      BY LenProperties DEF ForwardingInv, ForwardingTypeOK
<1>3. /\ posting' \in Entries /\ posting' = queue[1] /\ 1 \in 1..Len(queue)
      /\ queue' \in Seq(Entries) /\ Len(queue') = Len(queue) - 1
      /\ \A k \in 1..Len(queue') : k + 1 \in 1..Len(queue) /\ queue'[k] = queue[k + 1]
      <2>1. Len(queue) # 0
            BY <1>1, <1>2, EmptySeq
      <2>2. posting' = queue[1]
            BY <1>1
      <2> QED BY <1>1, <1>2, <2>1, <2>2, HeadTailProperties
<1> PICK p : p = posting'
    OBVIOUS
<1>4. p.n \in 1..count
      BY <1>3 DEF ForwardingInv, QueueInOrder
<1>5. \A n : Taken(n) => Taken(n)' /\ n < p.n
      BY <1>1, <1>3 DEF Taken
<1>6. Taken(p.n)'
      <2>1. \A k \in 1..Len(queue') : p.n < queue'[k].n
            <3> SUFFICES ASSUME NEW k \in 1..Len(queue') PROVE p.n < queue'[k].n
                OBVIOUS
            <3>1. k \in 1..Len(queue') /\ 1 < k + 1 /\ k + 1 \in 1..Len(queue)
                  BY <1>2, <1>3
            <3> QED BY <1>3, <3>1 DEF ForwardingInv, QueueInOrder
      <2>2. count \in Nat
            BY DEF ForwardingInv, ForwardingTypeOK
      <2>3. p.n \in 0..count
            BY <1>4, <2>2
      <2> QED BY <1>1, <2>1, <2>3 DEF Taken
<1>7. p \notin late
      <2>1. p.n \in Int
            BY <1>4
      <2>2. p \in late => p.n < p.n
            BY <1>5 DEF ForwardingInv
      <2> QED BY <2>1, <2>2
<1>8. ForwardingTypeOK'
      BY <1>1, <1>2, <1>3, ForwardingAssumption DEF ForwardingInv, ForwardingTypeOK, SinkTypeOK
<1>9. QueueInOrder'
      <2>1. \A k \in 1..Len(queue') : queue'[k].n \in 1..count'
            BY <1>1, <1>3 DEF ForwardingInv, QueueInOrder
      <2>2. ASSUME NEW j \in 1..Len(queue'), NEW k \in 1..Len(queue'), j < k
            PROVE  queue'[j].n < queue'[k].n
            <3>1. j + 1 < k + 1
                  BY <1>2, <1>3, <2>2
            <3> QED BY <1>3, <3>1 DEF ForwardingInv, QueueInOrder
      <2> QED BY <2>1, <2>2 DEF QueueInOrder
<1>10. PostingNewest'
       <2>1. \A i \in 1..Len(logs') : logs'[i].n < p.n
             BY <1>1, <1>5 DEF ForwardingInv
       <2> QED BY <1>1, <1>4, <1>6, <1>7, <2>1 DEF PostingNewest
<1>11. WireLate'
       <2> SUFFICES ASSUME NEW e \in wire'
                    PROVE  /\ Taken(e.n)'
                           /\ e # p => e \in late' /\ e.n < p.n
           BY DEF WireLate
       <2>1. CASE e = p
             BY <1>6, <2>1
       <2>2. CASE e # p
             <3>1. e \in wire /\ Taken(e.n) /\ e \in late
                   BY <1>1, <2>2, ForwardingAssumption
                      DEF ForwardingInv, ForwardingTypeOK, WireLate
             <3> QED BY <1>1, <1>5, <3>1
       <2> QED BY <2>1, <2>2
<1> QED BY <1>1, <1>5, <1>8, <1>9, <1>10, <1>11
        DEF ForwardingInv, SinkInv, SinkTypeOK, PostedInOrder

LEMMA AnsweredInv == ForwardingInv /\ Answered => ForwardingInv'
BY DEF Answered, HasAnswer, sinkVars, ForwardingInv, ForwardingTypeOK, SinkInv, SinkTypeOK,
       QueueInOrder, PostingNewest, WireLate, PostedInOrder, Taken

LEMMA TimesOutInv == ForwardingInv /\ TimesOut => ForwardingInv'
<1> SUFFICES ASSUME ForwardingInv, TimesOut PROVE ForwardingInv'
    OBVIOUS
<1>1. /\ posting # None /\ posting' = None /\ late' = late \cup {posting}
      /\ UNCHANGED <<logs, logTimes, now, stamp, count, queue, wire>>
      BY DEF TimesOut, AfterTimeout, sinkVars
<1> QED BY <1>1
        DEF ForwardingInv, ForwardingTypeOK, SinkInv, SinkTypeOK, QueueInOrder,
            PostingNewest, WireLate, PostedInOrder, Taken

(* A post reaches the sink with an entry that the sink may have: a late    *)
(* one, the one under way, or one of another client.                       *)
LEMMA IngestInv ==
    ASSUME ForwardingInv, NEW e \in Entries, IngestLog(e), UNCHANGED <<now, loggerVars>>,
           Taken(e.n), wire' \subseteq wire,
           e.n = 0 \/ e \in late \/ \A i \in 1..Len(logs) : logs[i].n < e.n,
           posting # None /\ posting \in wire' => e.n < posting.n
    PROVE  ForwardingInv'
<1>1. UNCHANGED <<now, stamp, count, queue, posting, late>>
      BY DEF loggerVars
<1>2. SinkInv'
      BY IngestLogInv DEF ForwardingInv
<1>3. PICK d \in {0, 1} :
          /\ Len(logs') = Len(logs) + 1 - d
          /\ logs'[Len(logs')] = e
          /\ \A i \in 1..Len(logs') - 1 :
                i + d \in 1..Len(logs) /\ logs'[i] = logs[i + d]
      BY IngestShifts DEF ForwardingInv
<1>4. /\ logs' \in Seq(Entries) /\ DOMAIN logs' = 1..Len(logs') /\ Len(logs') \in Nat
      /\ DOMAIN logs = 1..Len(logs) /\ Len(logs) \in Nat
      BY <1>2, LenProperties DEF SinkInv, SinkTypeOK, ForwardingInv
<1>5. ForwardingTypeOK'
      BY <1>1, <1>2 DEF ForwardingInv, ForwardingTypeOK, SinkInv
<1>6. ASSUME NEW i \in 1..Len(logs')
      PROVE  i = Len(logs') \/ i \in 1..Len(logs') - 1
      <2>1. Len(logs') \in Nat
            BY <1>4
      <2> QED BY <2>1
<1>7. \A i \in 1..Len(logs') : Taken(logs'[i].n)
      <2> SUFFICES ASSUME NEW i \in 1..Len(logs') PROVE Taken(logs'[i].n)
          OBVIOUS
      <2>1. CASE i = Len(logs')
            BY <1>3, <2>1
      <2>2. CASE i \in 1..Len(logs') - 1
            BY <1>3, <2>2 DEF ForwardingInv
      <2> QED BY <1>6, <2>1, <2>2
<1>8. PostingNewest'
      BY <1>1, <1>3, <1>6 DEF ForwardingInv, PostingNewest, Taken
<1>9. WireLate'
      BY <1>1 DEF ForwardingInv, WireLate, Taken
<1>10. PostedInOrder'
       <2> SUFFICES ASSUME NEW i \in 1..Len(logs'), NEW j \in 1..Len(logs'), i < j,
                           logs'[i].n # 0, logs'[j].n # 0, logs'[j] \notin late
                    PROVE  logs'[i].n < logs'[j].n
           BY <1>1, <1>4 DEF PostedInOrder
       <2>1. i \in 1..Len(logs') - 1
             BY <1>4
       <2>2. i + d \in DOMAIN logs /\ logs'[i] = logs[i + d]
             BY <1>3, <1>4, <2>1
       <2>3. CASE j = Len(logs')
             BY <1>3, <1>4, <2>2, <2>3
       <2>4. CASE j \in 1..Len(logs') - 1
             <3>1. j + d \in DOMAIN logs /\ logs'[j] = logs[j + d] /\ i + d < j + d
                   <4>1. i + d < j + d
                         OBVIOUS
                   <4> QED BY <1>3, <1>4, <2>4, <4>1
             <3> QED BY <2>2, <3>1 DEF ForwardingInv, PostedInOrder
       <2> QED BY <1>6, <2>3, <2>4
<1> QED BY <1>1, <1>2, <1>5, <1>7, <1>8, <1>9, <1>10
        DEF ForwardingInv, QueueInOrder, Taken

LEMMA DeliverInv ==
    ASSUME ForwardingInv, NEW e \in wire, Deliver(e)
    PROVE  ForwardingInv'
<1>1. wire' = wire \ {e} /\ UNCHANGED <<now, loggerVars>> /\ e \in Entries
      BY DEF Deliver, ForwardingInv, ForwardingTypeOK
<1>2. CASE UNCHANGED sinkVars
      BY <1>1, <1>2
         DEF ForwardingInv, ForwardingTypeOK, SinkInv, SinkTypeOK, QueueInOrder, sinkVars,
             loggerVars, PostingNewest, WireLate, PostedInOrder, Taken
<1>3. CASE IngestLog(e)
      <2>1. Taken(e.n) /\ wire' \subseteq wire
            BY <1>1 DEF ForwardingInv, WireLate
      <2>2. e.n = 0 \/ e \in late \/ \A i \in 1..Len(logs) : logs[i].n < e.n
            <3>1. CASE e = posting
                  BY <3>1, ForwardingAssumption
                     DEF ForwardingInv, ForwardingTypeOK, PostingNewest
            <3> QED BY <3>1 DEF ForwardingInv, WireLate
      <2>3. posting # None /\ posting \in wire' => e.n < posting.n
            BY <1>1 DEF ForwardingInv, WireLate
      <2> QED BY <1>1, <1>3, <2>1, <2>2, <2>3, IngestInv
<1> QED BY <1>2, <1>3 DEF Deliver

LEMMA ForeignPostInv == ForwardingInv /\ ForeignPost => ForwardingInv'
<1> SUFFICES ASSUME ForwardingInv, ForeignPost PROVE ForwardingInv'
    OBVIOUS
<1> DEFINE e == [n |-> 0, time |-> 0]
<1>1. e \in Entries /\ e.n = 0
      BY EntryMade, ForwardingAssumption
<1>2. IngestLog(e) /\ UNCHANGED <<now, loggerVars, wire>>
      BY DEF ForeignPost
<1> HIDE DEF e
<1>3. Taken(e.n)
      BY <1>1 DEF Taken, ForwardingInv, ForwardingTypeOK, QueueInOrder
<1>4. posting # None => e.n < posting.n
      BY <1>1 DEF ForwardingInv, PostingNewest
<1> QED BY <1>1, <1>2, <1>3, <1>4, IngestInv

LEMMA RestartOrchestratorInv == ForwardingInv /\ RestartOrchestrator => ForwardingInv'
<1> SUFFICES ASSUME ForwardingInv, RestartOrchestrator PROVE ForwardingInv'
    OBVIOUS
<1>1. wire' = {} /\ UNCHANGED <<now, stamp, count, queue, posting, late>>
      BY DEF RestartOrchestrator, loggerVars
<1>2. SinkInv' /\ Len(logs') = 0 /\ DOMAIN logs' = {}
      BY SinkNextInv, EmptySeq
         DEF RestartOrchestrator, RestartSink, SinkNext, ForwardingInv
<1> QED BY <1>1, <1>2
        DEF ForwardingInv, ForwardingTypeOK, SinkInv, QueueInOrder, PostingNewest, WireLate,
            PostedInOrder, Taken

LEMMA RestartAPIInv == ForwardingInv /\ RestartAPI => ForwardingInv'
<1> SUFFICES ASSUME ForwardingInv, RestartAPI PROVE ForwardingInv'
    OBVIOUS
<1>1. /\ posting' = None /\ late' = late \cup wire /\ queue' = <<>>
      /\ stamp' \in [Writers -> 1..MaxTime \cup {None}]
      /\ UNCHANGED <<logs, logTimes, now, count, wire>>
      BY DEF RestartAPI, sinkVars
<1>2. queue' \in Seq(Entries) /\ Len(queue') = 0
      BY <1>1, EmptySeq
<1>3. ForwardingTypeOK'
      BY <1>1, <1>2, ForwardingAssumption DEF ForwardingInv, ForwardingTypeOK, SinkTypeOK
<1>4. \A n : Taken(n) => Taken(n)'
      BY <1>1, <1>2 DEF Taken
<1> QED BY <1>1, <1>2, <1>3, <1>4
        DEF ForwardingInv, SinkInv, SinkTypeOK, QueueInOrder, PostingNewest, WireLate,
            PostedInOrder

LEMMA ForwardingNextInv == ForwardingInv /\ [Next]_vars => ForwardingInv'
<1> SUFFICES ASSUME ForwardingInv, [Next]_vars PROVE ForwardingInv'
    OBVIOUS
<1>1. CASE UNCHANGED vars
      BY <1>1
         DEF vars, ForwardingInv, ForwardingTypeOK, SinkInv, SinkTypeOK, QueueInOrder,
             sinkVars, loggerVars, PostingNewest, WireLate, PostedInOrder, Taken
<1>2. CASE Next
      BY <1>2, TickInv, StampInv, OfferInv, TakeAndPostInv, AnsweredInv, TimesOutInv,
         DeliverInv, ForeignPostInv, RestartOrchestratorInv, RestartAPIInv DEF Next
<1> QED BY <1>1, <1>2

LEMMA ForwardingSpecInv == Spec => []ForwardingInv
BY ForwardingInitInv, ForwardingNextInv, PTL DEF Spec

(* Variables keep their types: no more entries wait than the channel has   *)
(* room for.                                                               *)
THEOREM ForwardingTypes == Spec => []ForwardingTypeOK
<1>1. ForwardingInv => ForwardingTypeOK
      BY DEF ForwardingInv
<1> QED BY <1>1, ForwardingSpecInv, PTL

(* The sink has the loggers' entries once and in the order they entered    *)
(* the channel, but for those whose post had timed out.                    *)
THEOREM SinkKeepsTheOrder == Spec => []PostedInOrder
<1>1. ForwardingInv => PostedInOrder
      BY DEF ForwardingInv
<1> QED BY <1>1, ForwardingSpecInv, PTL

(* Whatever the loggers and the network do, they do to the sink what its   *)
(* own specification allows.                                               *)
THEOREM LoggersUseTheSink == Spec => SinkSpec
<1>1. Init => SinkInit
      BY DEF Init
<1>2. ForwardingInv /\ [Next]_vars => [SinkNext]_sinkVars
      <2> SUFFICES ASSUME ForwardingInv, [Next]_vars PROVE [SinkNext]_sinkVars
          OBVIOUS
      <2>1. ASSUME NEW e \in wire, Deliver(e) PROVE [SinkNext]_sinkVars
            BY <2>1 DEF Deliver, SinkNext, ForwardingInv, ForwardingTypeOK
      <2>2. ASSUME ForeignPost PROVE SinkNext
            BY <2>2, EntryMade, ForwardingAssumption DEF ForeignPost, SinkNext
      <2> QED BY <2>1, <2>2
              DEF Next, vars, Tick, Stamp, Offer, TakeAndPost, Answered, TimesOut,
                  RestartOrchestrator, RestartAPI, SinkNext
<1> QED BY <1>1, <1>2, ForwardingSpecInv, PTL DEF Spec, SinkSpec

(* The listing shows the window of the entries that were posted.           *)
THEOREM LoggersShowTheWindow == Spec => ShowsTheWindow
BY LoggersUseTheSink, SinkShowsTheWindow, PTL

-----------------------------------------------------------------------------
(* The listings                                                            *)

(* Induction over the naturals, for a set of them.                         *)
LEMMA SetOfAllNaturals ==
    ASSUME NEW S \in SUBSET Nat, 0 \in S, \A n \in S : n + 1 \in S
    PROVE  S = Nat
<1> SUFFICES ASSUME Nat \ S # {} PROVE FALSE
    OBVIOUS
<1>1. PICK m \in Nat \ S : \A n \in Nat \ S : ~(<<n, m>> \in OpToRel(<, Nat))
      <2>1. Nat \ S \subseteq Nat
            OBVIOUS
      <2> QED BY <2>1, WFMin, NatLessThanWellFounded, Zenon
<1>2. m - 1 \in Nat \ S /\ m - 1 < m
      <2>1. m # 0 /\ m - 1 \in Nat /\ (m - 1) + 1 = m /\ m - 1 < m
            OBVIOUS
      <2> QED BY <2>1
<1>3. <<m - 1, m>> \in OpToRel(<, Nat)
      BY <1>2, Zenon DEF OpToRel
<1> QED BY <1>1, <1>2, <1>3

LEMMA ReverseProperties ==
    ASSUME NEW S, NEW s \in Seq(S)
    PROVE  /\ Reverse(s) \in Seq(S) /\ Len(Reverse(s)) = Len(s)
           /\ \A k \in 1..Len(s) : Reverse(s)[k] = s[Len(s) - k + 1]
<1>1. Len(s) \in Nat
      BY LenProperties
<1>2. \A k \in 1..Len(s) : s[Len(s) - k + 1] \in S
      BY <1>1, ElementOfSeq
<1>3. Reverse(s) = [k \in 1..Len(s) |-> s[Len(s) - k + 1]]
      BY DEF Reverse
<1> QED BY <1>1, <1>2, <1>3, IsASeq

(* The steps of a walk, one after the other.                               *)
WalkSteps(f, n, order, since, limit) ==
    f = [m \in 0..n |-> IF m = 0 THEN <<>> ELSE Collect(order[m], since, limit, f[m - 1])]

LEMMA WalkHasSteps ==
    ASSUME NEW order, NEW since, NEW limit, Len(order) \in Nat
    PROVE  \E f : /\ WalkSteps(f, Len(order), order, since, limit)
                  /\ Walk(order, since, limit) = f[Len(order)]
<1> DEFINE S == {n \in Nat : \E f : WalkSteps(f, n, order, since, limit)}
<1>1. 0 \in S
      <2> DEFINE f == [m \in 0..0 |-> <<>>]
      <2>1. WalkSteps(f, 0, order, since, limit)
            BY DEF WalkSteps
      <2> QED BY <2>1
<1>2. ASSUME NEW n \in S PROVE n + 1 \in S
      <2>1. PICK f : WalkSteps(f, n, order, since, limit)
            OBVIOUS
      <2> DEFINE g == [m \in 0..n + 1 |->
                          IF m <= n THEN f[m] ELSE Collect(order[m], since, limit, f[n])]
                 h == [m \in 0..n + 1 |->
                          IF m = 0 THEN <<>> ELSE Collect(order[m], since, limit, g[m - 1])]
      <2>2. ASSUME NEW m \in 0..n + 1 PROVE g[m] = h[m]
            <3>1. CASE m = 0
                  BY <2>1, <3>1 DEF WalkSteps
            <3>2. CASE m \in 1..n
                  <4>1. f[m] = Collect(order[m], since, limit, f[m - 1])
                        BY <2>1, <3>2 DEF WalkSteps
                  <4>2. g[m] = f[m] /\ g[m - 1] = f[m - 1]
                        BY <3>2
                  <4>3. h[m] = Collect(order[m], since, limit, g[m - 1])
                        BY <3>2
                  <4> HIDE DEF g, h
                  <4> QED BY <4>1, <4>2, <4>3
            <3>3. CASE m = n + 1
                  <4>1. g[m] = Collect(order[m], since, limit, f[n]) /\ g[m - 1] = f[n]
                        BY <3>3
                  <4>2. h[m] = Collect(order[m], since, limit, g[m - 1])
                        BY <3>3
                  <4> HIDE DEF g, h
                  <4> QED BY <4>1, <4>2
            <3> QED BY <3>1, <3>2, <3>3
      <2>3. g = h
            BY <2>2
      <2>4. WalkSteps(g, n + 1, order, since, limit)
            BY <2>3 DEF WalkSteps
      <2> QED BY <2>4
<1>3. S = Nat
      <2>1. S \in SUBSET Nat
            OBVIOUS
      <2> HIDE DEF S
      <2> QED BY <1>1, <1>2, <2>1, SetOfAllNaturals
<1>4. \E f : WalkSteps(f, Len(order), order, since, limit)
      BY <1>3
<1> DEFINE found == CHOOSE f : WalkSteps(f, Len(order), order, since, limit)
<1>5. WalkSteps(found, Len(order), order, since, limit)
      BY <1>4
<1>6. Walk(order, since, limit) = found[Len(order)]
      BY DEF Walk, WalkSteps
<1> QED BY <1>5, <1>6

(* After n steps a walk has found r: the entries that are not before since *)
(* at the positions at, in the walk's order, and no more than limit.       *)
WalkFound(r, at, n, order, since, limit) ==
    /\ r \in Seq(Entries) /\ Len(r) <= limit /\ Len(r) <= n
    /\ at \in [1..Len(r) -> 1..n]
    /\ \A k \in 1..Len(r) : Since(order[at[k]], since) /\ r[k] = logs[order[at[k]]]
    /\ \A j, k \in 1..Len(r) : j < k => at[j] < at[k]
    /\ \A p \in 1..n : Since(order[p], since) =>
          \/ \E k \in 1..Len(r) : at[k] = p
          \/ Len(r) = limit /\ limit < p /\ \A k \in 1..Len(r) : at[k] < p

LEMMA CollectFinds ==
    ASSUME logs \in Seq(Entries), NEW order \in Seq(1..Len(logs)),
           NEW since \in Nat, NEW limit \in Nat,
           NEW n \in Nat, n + 1 \in 1..Len(order), NEW r, NEW at,
           WalkFound(r, at, n, order, since, limit)
    PROVE  \E to : WalkFound(Collect(order[n + 1], since, limit, r), to, n + 1,
                             order, since, limit)
<1> DEFINE i == order[n + 1]
           s == Collect(i, since, limit, r)
<1>1. Len(r) \in Nat /\ r \in Seq(Entries)
      BY LenProperties DEF WalkFound
<1>2. i \in 1..Len(logs) /\ logs[i] \in Entries
      BY ElementOfSeq
<1> HIDE DEF i
<1>3. CASE Len(r) < limit /\ Since(i, since)
      <2> DEFINE to == [k \in 1..Len(r) + 1 |-> IF k <= Len(r) THEN at[k] ELSE n + 1]
      <2>1. s = Append(r, logs[i])
            BY <1>3 DEF Collect
      <2> HIDE DEF s
      <2>2. /\ s \in Seq(Entries) /\ Len(s) = Len(r) + 1 /\ s[Len(r) + 1] = logs[i]
            /\ \A k \in 1..Len(r) : s[k] = r[k]
            BY <1>1, <1>2, <2>1, AppendProperties
      <2>3. /\ \A k \in 1..Len(r) : at[k] \in 1..n /\ to[k] = at[k]
            /\ to[Len(r) + 1] = n + 1
            <3>1. \A k \in 1..Len(r) : at[k] \in 1..n
                  BY DEF WalkFound
            <3>2. \A k \in 1..Len(r) : to[k] = at[k]
                  BY <1>1
            <3>3. to[Len(r) + 1] = n + 1
                  BY <1>1
            <3> QED BY <3>1, <3>2, <3>3
      <2>4. to \in [1..Len(s) -> 1..n + 1]
            <3>1. to \in [1..Len(r) + 1 -> 1..n + 1]
                  BY <1>1 DEF WalkFound
            <3> HIDE DEF to
            <3> QED BY <2>2, <3>1
      <2> HIDE DEF to
      <2>5. \A k \in 1..Len(s) : Since(order[to[k]], since) /\ s[k] = logs[order[to[k]]]
            <3>1. \A k \in 1..Len(r) : Since(order[to[k]], since) /\ s[k] = logs[order[to[k]]]
                  BY <2>2, <2>3 DEF WalkFound
            <3>2. Since(order[to[Len(r) + 1]], since) /\ s[Len(r) + 1] = logs[order[to[Len(r) + 1]]]
                  BY <1>3, <2>2, <2>3 DEF i
            <3>3. \A k \in 1..Len(s) : k \in 1..Len(r) \/ k = Len(r) + 1
                  BY <1>1, <2>2
            <3> QED BY <3>1, <3>2, <3>3
      <2>6. ASSUME NEW j \in 1..Len(s), NEW k \in 1..Len(s), j < k PROVE to[j] < to[k]
            <3>1. j \in 1..Len(r)
                  BY <1>1, <2>2, <2>6
            <3>2. CASE k \in 1..Len(r)
                  BY <2>3, <2>6, <3>1, <3>2 DEF WalkFound
            <3>3. CASE k = Len(r) + 1
                  <4>1. to[j] \in 1..n
                        BY <2>3, <3>1
                  <4>2. to[k] = n + 1
                        BY <2>3, <3>3
                  <4> QED BY <4>1, <4>2
            <3> QED BY <1>1, <2>2, <3>2, <3>3
      <2>7. ASSUME NEW p \in 1..n + 1, Since(order[p], since)
            PROVE  \/ \E k \in 1..Len(s) : to[k] = p
                   \/ Len(s) = limit /\ limit < p /\ \A k \in 1..Len(s) : to[k] < p
            <3>1. CASE p = n + 1
                  <4>1. Len(r) + 1 \in 1..Len(s) /\ to[Len(r) + 1] = p
                        BY <1>1, <2>2, <2>3, <3>1
                  <4> QED BY <4>1
            <3>2. CASE p \in 1..n
                  <4>1. PICK k \in 1..Len(r) : at[k] = p
                        BY <1>3, <2>7, <3>2 DEF WalkFound
                  <4>2. k \in 1..Len(s) /\ to[k] = p
                        BY <1>1, <2>2, <2>3, <4>1
                  <4> QED BY <4>2
            <3> QED BY <3>1, <3>2
      <2>8. Len(s) <= limit /\ Len(s) <= n + 1
            BY <1>1, <1>3, <2>2 DEF WalkFound
      <2>9. WalkFound(s, to, n + 1, order, since, limit)
            BY <2>2, <2>4, <2>5, <2>6, <2>7, <2>8 DEF WalkFound
      <2> QED BY <2>9 DEF s, i
<1>4. CASE ~(Len(r) < limit /\ Since(i, since))
      <2>1. s = r
            BY <1>4 DEF Collect
      <2>2. ASSUME NEW p \in 1..n + 1, Since(order[p], since)
            PROVE  \/ \E k \in 1..Len(r) : at[k] = p
                   \/ Len(r) = limit /\ limit < p /\ \A k \in 1..Len(r) : at[k] < p
            <3>1. CASE p = n + 1
                  <4>1. Len(r) = limit
                        BY <1>1, <1>4, <2>2, <3>1 DEF WalkFound, i
                  <4>2. \A k \in 1..Len(r) : at[k] \in 1..n
                        BY DEF WalkFound
                  <4> QED BY <3>1, <4>1, <4>2 DEF WalkFound
            <3>2. CASE p \in 1..n
                  BY <2>2, <3>2 DEF WalkFound
            <3> QED BY <3>1, <3>2
      <2>3. at \in [1..Len(r) -> 1..n + 1] /\ Len(r) <= n + 1
            BY <1>1 DEF WalkFound
      <2>4. WalkFound(r, at, n + 1, order, since, limit)
            BY <2>2, <2>3 DEF WalkFound
      <2> QED BY <2>1, <2>4 DEF s, i
<1> QED BY <1>3, <1>4

LEMMA WalkFinds ==
    ASSUME logs \in Seq(Entries), NEW order \in Seq(1..Len(logs)),
           NEW since \in Nat, NEW limit \in Nat
    PROVE  \E at : WalkFound(Walk(order, since, limit), at, Len(order), order, since, limit)
<1>1. Len(order) \in Nat
      BY LenProperties
<1>2. PICK f : /\ WalkSteps(f, Len(order), order, since, limit)
               /\ Walk(order, since, limit) = f[Len(order)]
      BY <1>1, WalkHasSteps
<1> DEFINE S == {n \in Nat : n <= Len(order) =>
                             \E at : WalkFound(f[n], at, n, order, since, limit)}
<1>3. 0 \in S
      <2>1. f[0] = <<>>
            BY <1>1, <1>2 DEF WalkSteps
      <2>2. <<>> \in Seq(Entries) /\ Len(<<>>) = 0
            OBVIOUS
      <2>3. WalkFound(<<>>, [k \in 1..0 |-> 0], 0, order, since, limit)
            BY <2>2 DEF WalkFound
      <2> QED BY <2>1, <2>3
<1>4. ASSUME NEW n \in S PROVE n + 1 \in S
      <2> SUFFICES ASSUME n + 1 <= Len(order)
                   PROVE  \E at : WalkFound(f[n + 1], at, n + 1, order, since, limit)
          OBVIOUS
      <2>1. n \in Nat /\ n + 1 \in 1..Len(order)
            BY <1>1
      <2>2. PICK at : WalkFound(f[n], at, n, order, since, limit)
            BY <1>1, <2>1
      <2>3. f[n + 1] = Collect(order[n + 1], since, limit, f[n])
            <3>1. f[n + 1] = IF n + 1 = 0 THEN <<>>
                             ELSE Collect(order[n + 1], since, limit, f[(n + 1) - 1])
                  BY <1>1, <1>2, <2>1 DEF WalkSteps
            <3> QED BY <2>1, <3>1
      <2> QED BY <2>1, <2>2, <2>3, CollectFinds
<1>5. S = Nat
      <2>1. S \in SUBSET Nat
            OBVIOUS
      <2> HIDE DEF S
      <2> QED BY <1>3, <1>4, <2>1, SetOfAllNaturals
<1>6. Len(order) \in S
      BY <1>1, <1>5
<1> QED BY <1>1, <1>2, <1>6

(* Every entry is kept with its own time.                                  *)
TimesInv == SinkInv /\ \A i \in 1..Len(logs) : logTimes[i] = TimeOf[logs[i]]

LEMMA IngestLogTimes ==
    ASSUME TimesInv, NEW e \in Entries, IngestLog(e)
    PROVE  TimesInv'
<1> DEFINE d   == TimeOf[e]
           all == Append(logs, e)
           ats == Append(logTimes, d)
<1>1. d \in Nat /\ Capacity \in Nat \ {0} /\ SinkInv'
      BY LogSinkAssumption, IngestLogInv DEF TimesInv
<1>2. logs \in Seq(Entries) /\ logTimes \in Seq(Nat) /\ Len(logs) = Len(logTimes)
      BY DEF TimesInv, SinkInv, SinkTypeOK
<1>3. Len(logs) \in Nat
      BY <1>2, LenProperties
<1>4. /\ all \in Seq(Entries) /\ Len(all) = Len(logs) + 1 /\ all[Len(logs) + 1] = e
      /\ ats \in Seq(Nat) /\ Len(ats) = Len(logs) + 1 /\ ats[Len(logs) + 1] = d
      /\ \A i \in 1..Len(logs) : all[i] = logs[i] /\ ats[i] = logTimes[i]
      BY <1>1, <1>2, AppendProperties
<1>5. /\ logs' = IF Len(all) > Capacity THEN Latest(all, Capacity) ELSE all
      /\ logTimes' = IF Len(all) > Capacity THEN Latest(ats, Capacity) ELSE ats
      BY <1>4 DEF IngestLog, Cut, Latest, extractLogTimestamp
<1> HIDE DEF all, ats
<1>6. \A i \in 1..Len(all) : ats[i] = TimeOf[all[i]]
      <2>1. \A i \in 1..Len(logs) : ats[i] = TimeOf[all[i]]
            BY <1>4 DEF TimesInv
      <2>2. \A i \in 1..Len(all) : i \in 1..Len(logs) \/ i = Len(logs) + 1
            BY <1>3, <1>4
      <2> QED BY <1>4, <2>1, <2>2
<1>7. \A i \in 1..Len(logs') : logTimes'[i] = TimeOf[logs'[i]]
      <2>1. CASE Len(all) > Capacity
            <3>1. Capacity \in Nat /\ Capacity <= Len(all) /\ Len(ats) = Len(all)
                  BY <1>1, <1>3, <1>4, <2>1
            <3>2. /\ Len(logs') = Capacity
                  /\ \A i \in 1..Capacity : logs'[i] = all[Len(all) - Capacity + i]
                  BY <1>4, <1>5, <2>1, <3>1, LatestProperties
            <3>3. \A i \in 1..Capacity : logTimes'[i] = ats[Len(ats) - Capacity + i]
                  BY <1>4, <1>5, <2>1, <3>1, LatestProperties
            <3>4. \A i \in 1..Capacity : Len(all) - Capacity + i \in 1..Len(all)
                  BY <1>3, <1>4, <3>1
            <3>5. ASSUME NEW i \in 1..Capacity PROVE logTimes'[i] = TimeOf[logs'[i]]
                  <4>1. logTimes'[i] = ats[Len(all) - Capacity + i]
                        BY <3>1, <3>3
                  <4>2. logs'[i] = all[Len(all) - Capacity + i]
                        BY <3>2
                  <4> QED BY <1>6, <3>4, <4>1, <4>2
            <3> QED BY <3>2, <3>5
      <2>2. CASE ~(Len(all) > Capacity)
            BY <1>5, <1>6, <2>2
      <2> QED BY <2>1, <2>2
<1> QED BY <1>1, <1>7 DEF TimesInv

LEMMA TimesInvHolds == SinkSpec => []TimesInv
<1>1. SinkInit => TimesInv
      <2> SUFFICES ASSUME SinkInit PROVE TimesInv
          OBVIOUS
      <2>1. SinkInv /\ Len(logs) = 0
            BY SinkInitInv, EmptySeq DEF SinkInit
      <2> QED BY <2>1 DEF TimesInv
<1>2. TimesInv /\ [SinkNext]_sinkVars => TimesInv'
      <2> SUFFICES ASSUME TimesInv, [SinkNext]_sinkVars PROVE TimesInv'
          OBVIOUS
      <2>1. CASE RestartSink
            <3>1. SinkInv' /\ Len(logs') = 0
                  BY <2>1, SinkNextInv, EmptySeq DEF RestartSink, SinkNext, TimesInv
            <3> QED BY <3>1 DEF TimesInv
      <2>2. ASSUME NEW e \in Entries, IngestLog(e) PROVE TimesInv'
            BY <2>2, IngestLogTimes
      <2>3. CASE UNCHANGED sinkVars
            BY <2>3 DEF sinkVars, TimesInv, SinkInv, SinkTypeOK
      <2> QED BY <2>1, <2>2, <2>3 DEF SinkNext
<1> QED BY <1>1, <1>2, PTL DEF SinkSpec

(* The entries that a listing may show.                                    *)
Wanted(since) ==
    {i \in DOMAIN logs : \/ since = 0 \/ TimeOf[logs[i]] = 0 \/ TimeOf[logs[i]] >= since}

LEMMA WantedIsSince ==
    ASSUME TimesInv, NEW since \in Nat \ {0}
    PROVE  Wanted(since) = {i \in 1..Len(logs) : Since(i, since)}
<1>1. DOMAIN logs = 1..Len(logs)
      BY LenProperties DEF TimesInv, SinkInv, SinkTypeOK
<1> QED BY <1>1 DEF Wanted, Since, TimesInv

LEMMA NewestListed ==
    ASSUME TimesInv, NEW limit \in Nat
    PROVE  IsListing(ListLogs(0, limit), Wanted(0), limit)
<1> DEFINE N    == Len(logs)
           from == IF limit \in 1..N THEN N - limit + 1 ELSE 1
           L    == SubSeq(logs, from, N)
           at   == [k \in 1..Len(L) |-> from + k - 1]
<1>1. N \in Nat /\ logs \in Seq(Entries) /\ DOMAIN logs = 1..N
      BY LenProperties DEF TimesInv, SinkInv, SinkTypeOK
<1>2. from \in 1..N + 1 /\ (limit \in 1..N => from = N - limit + 1)
                        /\ (limit \notin 1..N => from = 1)
      BY <1>1
<1>3. ListLogs(0, limit) = L
      BY DEF ListLogs
<1> HIDE DEF N, from
<1>4. \A i \in from..N : logs[i] \in Entries
      BY <1>1, <1>2, ElementOfSeq DEF N
<1>5. /\ L \in Seq(Entries) /\ Len(L) = N - from + 1
      /\ \A k \in 1..Len(L) : L[k] = logs[from + k - 1]
      <2>1. /\ L \in Seq(Entries)
            /\ Len(L) = IF from <= N THEN N - from + 1 ELSE 0
            /\ \A k \in 1..N - from + 1 : L[k] = logs[from + k - 1]
            BY <1>1, <1>2, <1>4, SubSeqProperties
      <2> HIDE DEF L
      <2> QED BY <1>1, <1>2, <2>1
<1> HIDE DEF L
<1>6. at \in [1..Len(L) -> Wanted(0)] /\ DOMAIN at = 1..Len(L)
      <2>1. \A k \in 1..Len(L) : from + k - 1 \in 1..N
            BY <1>1, <1>2, <1>5
      <2> QED BY <1>1, <2>1 DEF Wanted
<1>7. \A k \in 1..Len(L) : at[k] = from + k - 1
      OBVIOUS
<1> HIDE DEF at
<1>8. \A j, k \in 1..Len(L) : j < k => at[j] < at[k]
      BY <1>1, <1>2, <1>5, <1>7
<1>9. limit > 0 => Len(L) <= limit
      BY <1>1, <1>2, <1>5
<1>10. ASSUME NEW i \in Wanted(0)
       PROVE  \/ \E k \in 1..Len(L) : at[k] = i
              \/ limit > 0 /\ Len(L) = limit /\ \A k \in 1..Len(L) : i < at[k]
      <2>1. i \in 1..N
            BY <1>1 DEF Wanted
      <2>2. CASE i >= from
            <3>1. i - from + 1 \in 1..Len(L) /\ from + (i - from + 1) - 1 = i
                  BY <1>1, <1>2, <1>5, <2>1, <2>2
            <3> QED BY <1>7, <3>1
      <2>3. CASE i < from
            <3>1. limit \in 1..N
                  BY <1>2, <2>1, <2>3
            <3>2. limit > 0 /\ Len(L) = limit
                  BY <1>1, <1>2, <1>5, <3>1
            <3>3. \A k \in 1..Len(L) : i < at[k]
                  BY <1>1, <1>2, <1>5, <1>7, <2>1, <2>3
            <3> QED BY <3>2, <3>3
      <2> QED BY <1>1, <1>2, <2>1, <2>2, <2>3
<1> QED BY <1>3, <1>5, <1>6, <1>7, <1>8, <1>9, <1>10 DEF IsListing

LEMMA OldestFirst ==
    ASSUME NEW n \in Nat
    PROVE  /\ [i \in 1..n |-> i] \in Seq(1..n) /\ Len([i \in 1..n |-> i]) = n
           /\ \A p \in 1..n : [i \in 1..n |-> i][p] = p
<1>1. [i \in 1..n |-> i] \in [1..n -> 1..n]
      OBVIOUS
<1> QED BY <1>1, IsASeq

LEMMA SinceListed ==
    ASSUME TimesInv, NEW since \in Nat \ {0}
    PROVE  IsListing(ListLogs(since, 0), Wanted(since), 0)
<1> DEFINE N     == Len(logs)
           order == [i \in 1..N |-> i]
           L     == Walk(order, since, N)
<1>1. N \in Nat /\ logs \in Seq(Entries)
      BY LenProperties DEF TimesInv, SinkInv, SinkTypeOK
<1>2. order \in Seq(1..N) /\ Len(order) = N /\ \A p \in 1..N : order[p] = p
      <2> HIDE DEF N
      <2> QED BY <1>1, OldestFirst
<1>3. ListLogs(since, 0) = L
      BY DEF ListLogs
<1> HIDE DEF order, L
<1>4. PICK at : WalkFound(L, at, N, order, since, N)
      <2>1. \E at : WalkFound(Walk(order, since, N), at, Len(order), order, since, N)
            BY <1>1, <1>2, WalkFinds
      <2> QED BY <1>2, <2>1 DEF L
<1> HIDE DEF N
<1>5. Wanted(since) = {i \in 1..N : Since(i, since)}
      BY WantedIsSince DEF N
<1>6. /\ DOMAIN at = 1..Len(L)
      /\ \A k \in 1..Len(L) : at[k] \in 1..N /\ Since(at[k], since) /\ L[k] = logs[at[k]]
      /\ at \in [1..Len(L) -> 1..N]
      <2>1. at \in [1..Len(L) -> 1..N]
            BY <1>4 DEF WalkFound
      <2>2. \A k \in 1..Len(L) : at[k] \in 1..N /\ order[at[k]] = at[k]
            BY <1>2, <2>1
      <2> QED BY <1>4, <2>1, <2>2 DEF WalkFound
<1>7. at \in [1..Len(L) -> Wanted(since)]
      BY <1>5, <1>6
<1>8. \A i \in Wanted(since) : \E k \in 1..Len(L) : at[k] = i
      <2> SUFFICES ASSUME NEW i \in 1..N, Since(i, since)
                   PROVE  \E k \in 1..Len(L) : at[k] = i
          BY <1>5
      <2>1. Since(order[i], since) /\ ~(N < i)
            BY <1>1, <1>2
      <2> QED BY <1>4, <2>1 DEF WalkFound
<1>9. \A j, k \in 1..Len(L) : j < k => at[j] < at[k]
      BY <1>4 DEF WalkFound
<1>10. IsListing(L, Wanted(since), 0)
      BY <1>6, <1>7, <1>8, <1>9 DEF IsListing
<1> QED BY <1>3, <1>10

LEMMA NewestSinceListed ==
    ASSUME TimesInv, NEW since \in Nat \ {0}, NEW limit \in Nat \ {0}
    PROVE  IsListing(ListLogs(since, limit), Wanted(since), limit)
<1> DEFINE N     == Len(logs)
           first == [i \in 1..N |-> i]
           order == Reverse(first)
           W     == Walk(order, since, limit)
           L     == Reverse(W)
<1>1. N \in Nat /\ logs \in Seq(Entries)
      BY LenProperties DEF TimesInv, SinkInv, SinkTypeOK
<1>2. order \in Seq(1..N) /\ Len(order) = N /\ \A p \in 1..N : order[p] = N - p + 1
      <2>1. first \in Seq(1..N) /\ Len(first) = N /\ \A p \in 1..N : first[p] = p
            <3> HIDE DEF N
            <3> QED BY <1>1, OldestFirst
      <2> HIDE DEF first, N
      <2>2. /\ order \in Seq(1..N) /\ Len(order) = N
            /\ \A p \in 1..N : order[p] = first[N - p + 1]
            BY <2>1, ReverseProperties
      <2>3. \A p \in 1..N : N - p + 1 \in 1..N
            BY <1>1
      <2> HIDE DEF order
      <2> QED BY <2>1, <2>2, <2>3
<1>3. ListLogs(since, limit) = L
      BY DEF ListLogs
<1> HIDE DEF first, order, W
<1>4. PICK at : WalkFound(W, at, N, order, since, limit)
      <2>1. \E at : WalkFound(Walk(order, since, limit), at, Len(order), order, since, limit)
            BY <1>1, <1>2, WalkFinds
      <2> QED BY <1>2, <2>1 DEF W
<1> HIDE DEF N
<1>5. Wanted(since) = {i \in 1..N : Since(i, since)}
      BY WantedIsSince DEF N
<1> DEFINE M  == Len(W)
           to == [k \in 1..M |-> order[at[M - k + 1]]]
<1>6. /\ M \in Nat /\ L \in Seq(Entries) /\ Len(L) = M
      /\ \A k \in 1..M : L[k] = W[M - k + 1]
      BY <1>4, LenProperties, ReverseProperties DEF WalkFound
<1> HIDE DEF L
<1>7. \A k \in 1..M : /\ at[k] \in 1..N /\ order[at[k]] = N - at[k] + 1
                      /\ order[at[k]] \in 1..N
                      /\ Since(order[at[k]], since) /\ W[k] = logs[order[at[k]]]
      <2>1. \A k \in 1..M : at[k] \in 1..N
            BY <1>4 DEF WalkFound
      <2>2. ASSUME NEW k \in 1..M PROVE order[at[k]] = N - at[k] + 1 /\ order[at[k]] \in 1..N
            <3>1. at[k] \in 1..N
                  BY <2>1
            <3>2. order[at[k]] = N - at[k] + 1
                  BY <1>2, <3>1
            <3> QED BY <1>1, <3>1, <3>2
      <2>3. \A k \in 1..M : Since(order[at[k]], since) /\ W[k] = logs[order[at[k]]]
            BY <1>4 DEF WalkFound
      <2> QED BY <2>1, <2>2, <2>3
<1>8. \A k \in 1..M : M - k + 1 \in 1..M /\ to[k] = order[at[M - k + 1]]
      <2> HIDE DEF M
      <2> QED BY <1>6
<1> HIDE DEF M
<1>9. to \in [1..M -> Wanted(since)] /\ DOMAIN to = 1..M
      BY <1>5, <1>7, <1>8
<1> HIDE DEF to
<1>10. ASSUME NEW k \in 1..M PROVE L[k] = logs[to[k]]
      <2>1. L[k] = W[M - k + 1] /\ to[k] = order[at[M - k + 1]] /\ M - k + 1 \in 1..M
            BY <1>6, <1>8
      <2> QED BY <1>7, <2>1
<1>11. ASSUME NEW j \in 1..M, NEW k \in 1..M, j < k PROVE to[j] < to[k]
      <2>1. M - k + 1 < M - j + 1
            BY <1>6, <1>11
      <2>2. at[M - k + 1] < at[M - j + 1]
            BY <1>4, <1>8, <2>1 DEF WalkFound, M
      <2>3. /\ to[j] = N - at[M - j + 1] + 1 /\ at[M - j + 1] \in 1..N
            /\ to[k] = N - at[M - k + 1] + 1 /\ at[M - k + 1] \in 1..N
            BY <1>7, <1>8
      <2> QED BY <1>1, <2>2, <2>3
<1>12. ASSUME NEW i \in Wanted(since)
       PROVE  \/ \E k \in 1..M : to[k] = i
              \/ limit > 0 /\ M = limit /\ \A k \in 1..M : i < to[k]
      <2> DEFINE p == N - i + 1
      <2>1. i \in 1..N /\ Since(i, since)
            BY <1>5
      <2>2. p \in 1..N /\ order[p] = i
            BY <1>1, <1>2, <2>1
      <2> HIDE DEF p
      <2>3. CASE \E k \in 1..M : at[k] = p
            <3>1. PICK k \in 1..M : at[k] = p
                  BY <2>3
            <3>2. M - k + 1 \in 1..M /\ M - (M - k + 1) + 1 = k
                  BY <1>6
            <3>3. to[M - k + 1] = i
                  BY <1>8, <2>2, <3>1, <3>2
            <3> QED BY <3>2, <3>3
      <2>4. CASE ~\E k \in 1..M : at[k] = p
            <3>1. M = limit /\ \A k \in 1..M : at[k] < p
                  BY <1>4, <2>1, <2>2, <2>4 DEF WalkFound, M
            <3>2. ASSUME NEW k \in 1..M PROVE i < to[k]
                  <4>1. at[M - k + 1] < p /\ at[M - k + 1] \in 1..N
                        BY <1>7, <1>8, <3>1
                  <4>2. to[k] = N - at[M - k + 1] + 1
                        BY <1>7, <1>8
                  <4> QED BY <1>1, <2>1, <4>1, <4>2 DEF p
            <3> QED BY <3>1, <3>2
      <2> QED BY <2>3, <2>4
<1>13. M <= limit
      BY <1>4 DEF WalkFound, M
<1> QED BY <1>3, <1>6, <1>9, <1>10, <1>11, <1>12, <1>13 DEF IsListing

(* Whatever time and limit are asked for, the listing is exact.            *)
LEMMA EveryListingIsExact ==
    ASSUME TimesInv, NEW since \in Nat, NEW limit \in Nat
    PROVE  ListingIsExact(since, limit)
<1>1. IsListing(ListLogs(since, limit), Wanted(since), limit)
      <2>1. CASE since = 0
            BY <2>1, NewestListed
      <2>2. CASE since # 0 /\ limit = 0
            BY <2>2, SinceListed
      <2>3. CASE since # 0 /\ limit # 0
            BY <2>3, NewestSinceListed
      <2> QED BY <2>1, <2>2, <2>3
<1> QED BY <1>1 DEF ListingIsExact, Wanted

(* A listing shows the last of the kept entries that are not before the    *)
(* time asked for, as many as asked for, in the order they were posted.    *)
THEOREM ListingsShowTheNewest == Spec => []ListingsExact
<1>1. TimesInv => ListingsExact
      BY EveryListingIsExact, LogSinkAssumption DEF ListingsExact
<1> QED BY <1>1, LoggersUseTheSink, TimesInvHolds, PTL

EveryListingExact == \A since, limit \in Nat : ListingIsExact(since, limit)

(* So it does for any time and any limit, not those of the runs only.      *)
THEOREM AnyListingShowsTheNewest == Spec => []EveryListingExact
<1>1. TimesInv => EveryListingExact
      BY EveryListingIsExact DEF EveryListingExact
<1> QED BY <1>1, LoggersUseTheSink, TimesInvHolds, PTL
=============================================================================
