------------------------------ MODULE Requests ------------------------------
(***************************************************************************)
(* What the tables of the O2UL endpoints have in common: the players that  *)
(* call them, the workers (goroutines of net/http) their requests run on,  *)
(* and the clock.  As in Accounts, one Get, Set, Delete or Search of the   *)
(* datastore library is atomic, and requests interleave between calls.     *)
(* Ids are made from the clock in nanoseconds: two requests that read it   *)
(* in one tick get one id.                                                 *)
(***************************************************************************)
EXTENDS Integers, FiniteSets

CONSTANTS
    Users,     \* player ids
    Workers,   \* requests in flight at once
    None,
    MaxTime    \* bound of the clock

ASSUME RequestsAssumption == MaxTime \in Nat \ {0}

VARIABLE now   \* the clock, one tick for as much time as the code can tell

Times == 1..MaxTime

ClockInit == now = 1

(* A row with the columns of another record set, the others kept.          *)
Overwrite(row, set) == [c \in DOMAIN row |-> IF c \in DOMAIN set THEN set[c] ELSE row[c]]

Tick == now < MaxTime /\ now' = now + 1
=============================================================================
