-------------------------- MODULE MCLogForwarding --------------------------
(* Two goroutines that log, a channel of two and a sink of two entries.    *)
EXTENDS LogForwarding

MCEntries == {[n |-> n, time |-> t] : n \in 0..MaxEntries, t \in 0..MaxTime}
MCTimeOf  == [e \in MCEntries |-> e.time]
=============================================================================
