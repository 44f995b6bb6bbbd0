------------------------ MODULE ServerShutdownProofs ------------------------
(***************************************************************************)
(* The safety properties of ServerShutdown, for any set of requests, where *)
(* main waits for the shutdown goroutine: cmd/api.                         *)
(***************************************************************************)
EXTENDS ServerShutdown, TLAPS

(* What the phases leave behind: how far the goroutine is tells whether    *)
(* the listener and the store are open, and who may still be in flight.    *)
Drained   == closer \in {"snapshot_runtime_state", "close_datastore", "done"}
PhaseInv ==
    /\ listening <=> closer \in {"none", "begun"}
    /\ store = "closed" <=> closer = "done" \/ main = "failed"
    /\ IF Drained THEN inflight # {} => expired ELSE ~expired
    /\ main \in {"returned", "exited"} => ~listening
    /\ main = "exited" => closer = "done"
    /\ main = "failed" => listening /\ waiting = Requests

SInv == TypeOK /\ PhaseInv /\ DrainedOrExpired

LEMMA PhaseNames ==
    /\ ShutdownPhases[1] = "drain_http_inflight"
    /\ ShutdownPhases[2] = "snapshot_runtime_state"
    /\ ShutdownPhases[3] = "close_datastore"
    /\ Closers = {"none", "begun", "done", "drain_http_inflight",
                  "snapshot_runtime_state", "close_datastore"}
<1>1. DOMAIN ShutdownPhases = {1, 2, 3}
      BY DEF ShutdownPhases
<1> QED BY <1>1 DEF ShutdownPhases, Closers

LEMMA InitSInv == Init => SInv
BY PhaseNames DEF Init, SInv, TypeOK, PhaseInv, Drained, DrainedOrExpired

LEMMA NextSInv ==
    ASSUME MainWaits, SInv, [Next]_vars
    PROVE  SInv'
<1> USE PhaseNames DEF SInv, TypeOK, PhaseInv, Drained, DrainedOrExpired
<1> USE DEF Running
<1>1. ASSUME NEW r \in Requests, Accept(r) PROVE SInv'
      BY <1>1 DEF Accept
<1>2. ASSUME NEW r \in Requests, Respond(r) PROVE SInv'
      <2>1. r \in inflight /\ inflight' = inflight \ {r} /\ expired' = expired
            BY <1>2 DEF Respond
      <2>2. CASE store = "closed"
            BY <1>2, <2>1, <2>2 DEF Respond
      <2>3. CASE store # "closed"
            BY <1>2, <2>1, <2>3 DEF Respond
      <2> QED BY <2>2, <2>3
<1>3. CASE RequestShutdown
      BY <1>3 DEF RequestShutdown
<1>4. CASE BeginDrain
      BY <1>4 DEF BeginDrain
<1>5. CASE EndDrain
      <2>1. ~expired /\ cut = {} /\ cut' = {} /\ Drained'
            BY <1>5 DEF EndDrain
      <2>2. inflight' = inflight /\ (expired' <=> inflight # {})
            BY <1>5 DEF EndDrain
      <2> QED BY <1>5, <2>1, <2>2 DEF EndDrain
<1>6. CASE Snapshot
      BY <1>6 DEF Snapshot
<1>7. CASE CloseDatastore
      BY <1>7 DEF CloseDatastore
<1>8. CASE MainReturns
      BY <1>8 DEF MainReturns
<1>9. CASE MainExits
      <2>1. closer = "done" /\ (inflight # {} => expired)
            BY <1>9 DEF MainExits
      <2> QED BY <1>9, <2>1 DEF MainExits
<1>10. CASE ListenFails
      BY <1>10 DEF ListenFails
<1>11. CASE UNCHANGED vars
      BY <1>11 DEF vars
<1> QED BY <1>1, <1>2, <1>3, <1>4, <1>5, <1>6, <1>7, <1>8, <1>9, <1>10,
        <1>11 DEF Next, Stopping

(* What holds of the phases in every reachable state of cmd/api.           *)
THEOREM PhasesHold == ASSUME MainWaits PROVE Spec => []SInv
BY InitSInv, NextSInv, PTL DEF Spec

(* An accepted request of cmd/api runs to its end on an open datastore in  *)
(* a live process unless it outlasts the timeout of the drain phase,       *)
(* however many requests there are.                                        *)
THEOREM RequestsDrain == ASSUME MainWaits PROVE Spec => []DrainedOrExpired
<1>1. SInv => DrainedOrExpired
      BY DEF SInv
<1> QED BY <1>1, PhasesHold, PTL

(* cmd/api exits with its phases done and its datastore closed, or has     *)
(* failed to listen and closed the store.                                  *)
THEOREM StoreClosedAtExit == ASSUME MainWaits PROVE Spec => []ClosedAtExit
<1>1. SInv => ClosedAtExit
      BY DEF SInv, PhaseInv, ClosedAtExit
<1> QED BY <1>1, PhasesHold, PTL
=============================================================================
