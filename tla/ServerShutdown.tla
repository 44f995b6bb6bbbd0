--------------------------- MODULE ServerShutdown ---------------------------
(***************************************************************************)
(* How a server process of the portal stops: main runs ListenAndServe, and *)
(* the first shutdown request (a signal, or a call of /internal/shutdown)  *)
(* starts a goroutine that runs the phases of startup.RunShutdownPhases    *)
(* while main returns from ListenAndServe at once.  cmd/api waits for that *)
(* goroutine before it exits, cmd/web does not: MainWaits.  The phases are *)
(* those of cmd/api; cmd/web drains two listeners and has no datastore.    *)
(***************************************************************************)
EXTENDS Naturals, FiniteSets

CONSTANTS
    Requests,    \* HTTP requests that may ever arrive
    MainWaits    \* main waits for shutdownDone (cmd/api) or not (cmd/web)

ASSUME ShutdownAssumption == MainWaits \in BOOLEAN

VARIABLES
    main,        \* the main goroutine; failed: it could not listen
    listening,   \* the listener accepts connections
    closer,      \* the shutdown goroutine: none, or the phase it runs
    waiting,     \* requests that have not arrived yet
    inflight,    \* requests a handler works on
    store,       \* the datastore
    expired,     \* the drain phase ran into its timeout
    cut          \* requests whose handler lost the store or the process

vars == <<main, listening, closer, waiting, inflight, store, expired, cut>>

ShutdownPhases == <<"drain_http_inflight", "snapshot_runtime_state", "close_datastore">>
Closers == {"none", "begun", "done"} \cup {ShutdownPhases[i] : i \in DOMAIN ShutdownPhases}

TypeOK ==
    /\ main \in {"serving", "returned", "exited", "failed"}
    /\ listening \in BOOLEAN
    /\ closer \in Closers
    /\ waiting \subseteq Requests
    /\ inflight \subseteq Requests \ waiting
    /\ store \in {"open", "closed"}
    /\ expired \in BOOLEAN
    /\ cut \subseteq Requests

Init ==
    /\ main = "serving"
    /\ listening = TRUE
    /\ closer = "none"
    /\ waiting = Requests
    /\ inflight = {}
    /\ store = "open"
    /\ expired = FALSE
    /\ cut = {}

Running == main \notin {"exited", "failed"}

Accept(r) ==
    /\ Running
    /\ listening
    /\ r \in waiting
    /\ waiting' = waiting \ {r}
    /\ inflight' = inflight \cup {r}
    /\ UNCHANGED <<main, listening, closer, store, expired, cut>>

(* A handler ends.  Its last call of the store fails if that is closed.    *)
Respond(r) ==
    /\ Running
    /\ r \in inflight
    /\ inflight' = inflight \ {r}
    /\ cut' = IF store = "closed" THEN cut \cup {r} ELSE cut
    /\ UNCHANGED <<main, listening, closer, waiting, store, expired>>

(* requestShutdown, from the signal goroutine or from a handler: once.     *)
RequestShutdown ==
    /\ Running
    /\ closer = "none"
    /\ closer' = "begun"
    /\ UNCHANGED <<main, listening, waiting, inflight, store, expired, cut>>

(* server.Shutdown closes the listeners first, then waits for handlers.    *)
BeginDrain ==
    /\ Running
    /\ closer = "begun"
    /\ closer' = ShutdownPhases[1]
    /\ listening' = FALSE
    /\ UNCHANGED <<main, waiting, inflight, store, expired, cut>>

(* Mutant of EndDrain: the phase has no timeout.                           *)
EndDrainUntimed ==
    /\ Running
    /\ closer = ShutdownPhases[1] /\ inflight = {}
    /\ closer' = ShutdownPhases[2]
    /\ UNCHANGED <<main, listening, waiting, inflight, store, expired, cut>>

(* A phase that fails or times out does not stop the ones after it.        *)
EndDrain ==
    /\ Running
    /\ closer = ShutdownPhases[1]
    /\ closer' = ShutdownPhases[2]
    /\ expired' = (inflight # {})
    /\ UNCHANGED <<main, listening, waiting, inflight, store, cut>>

(* ds.Stats and ds.Close ignore the context of their phase: they return    *)
(* when the datastore lets them.                                           *)
Snapshot ==
    /\ Running
    /\ closer = ShutdownPhases[2]
    /\ closer' = ShutdownPhases[3]
    /\ UNCHANGED <<main, listening, waiting, inflight, store, expired, cut>>

CloseDatastore ==
    /\ Running
    /\ closer = ShutdownPhases[3]
    /\ closer' = "done"
    /\ store' = "closed"
    /\ UNCHANGED <<main, listening, waiting, inflight, expired, cut>>

(* The address cannot be bound: main closes the store and log.Fatalf ends  *)
(* the process, whatever the shutdown goroutine is about to do.            *)
ListenFails ==
    /\ main = "serving"
    /\ listening /\ waiting = Requests
    /\ main' = "failed"
    /\ store' = "closed"
    /\ UNCHANGED <<listening, closer, waiting, inflight, expired, cut>>

(* ListenAndServe returns http.ErrServerClosed.                            *)
MainReturns ==
    /\ main = "serving"
    /\ ~listening
    /\ main' = "returned"
    /\ UNCHANGED <<listening, closer, waiting, inflight, store, expired, cut>>

(* Mutant of MainExits: main does not wait for the phases.                 *)
MainExitsAtOnce ==
    /\ main = "returned"
    /\ main' = "exited"
    /\ cut' = cut \cup inflight
    /\ inflight' = {}
    /\ UNCHANGED <<listening, closer, waiting, store, expired>>

MainExits ==
    /\ main = "returned"
    /\ MainWaits => closer = "done"
    /\ main' = "exited"
    /\ cut' = cut \cup inflight
    /\ inflight' = {}
    /\ UNCHANGED <<listening, closer, waiting, store, expired>>

Stopping == BeginDrain \/ EndDrain \/ Snapshot \/ CloseDatastore \/ MainReturns
            \/ MainExits

Next ==
    \/ \E r \in Requests : Accept(r) \/ Respond(r)
    \/ RequestShutdown
    \/ ListenFails
    \/ Stopping

(* Goroutines are scheduled and server.Shutdown ends with its context.     *)
(* Nothing makes a handler end, or the two calls of the datastore return:  *)
(* RunShutdownPhases waits for phase.Run, whatever its timeout.            *)
Spec == Init /\ [][Next]_vars /\ WF_vars(BeginDrain) /\ WF_vars(EndDrain)
             /\ WF_vars(MainReturns) /\ WF_vars(MainExits)

-----------------------------------------------------------------------------
(* A request that was accepted runs to its end on an open datastore in a   *)
(* live process, unless it outlasts the drain phase's timeout.             *)
DrainedOrExpired == cut # {} => expired

(* The process exits with the phases done and the store closed, in that    *)
(* order: nothing in flight is left behind a closed store but what the     *)
(* timeout gave up on.  A process that could not listen exits with the     *)
(* store closed, too, and has accepted nothing.                            *)
ClosedAtExit ==
    /\ main = "exited" => closer = "done" /\ store = "closed"
    /\ main = "failed" => store = "closed" /\ waiting = Requests

(* Once asked to stop, the process exits however its handlers behave; only *)
(* the datastore can keep it alive, in one of the two phases that call it. *)
StorePhase == closer \in {ShutdownPhases[2], ShutdownPhases[3]}
OnlyTheStoreHolds == (closer # "none") ~> (~Running \/ []StorePhase)

(* What a timeout per phase and one for the whole shutdown would give:     *)
(* false, see MCApiShutdownTimed.cfg.                                      *)
ExitsEventually == (closer # "none") ~> ~Running
=============================================================================
