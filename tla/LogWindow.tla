----------------------------- MODULE LogWindow -----------------------------
(* What the log sink promises: it shows the last Capacity entries that     *)
(* were posted to it since it started, each with its own time, oldest      *)
(* first.                                                                  *)
EXTENDS Naturals, Sequences

CONSTANTS
    Entries,    \* what may be posted
    TimeOf,     \* entry -> its timestamp, 0 if it has none
    Capacity

VARIABLE window   \* the entries shown, with their times

Shown == [entry : Entries, time : Nat]

Recent(s) == IF Len(s) > Capacity THEN SubSeq(s, Len(s) - Capacity + 1, Len(s)) ELSE s

Init == window = <<>>

Post(e) == window' = Recent(Append(window, [entry |-> e, time |-> TimeOf[e]]))

Restart == window' = <<>>

Next == Restart \/ \E e \in Entries : Post(e)

Spec == Init /\ [][Next]_window
=============================================================================
