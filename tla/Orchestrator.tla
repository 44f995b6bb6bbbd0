----------------------------- MODULE Orchestrator -----------------------------
(***************************************************************************)
(* cmd/orchestrator with its local backend: managed startup of the API and *)
(* then the WEB server, the spawn and despawn endpoints, and the shutdown  *)
(* phases.  The orchestrator may be stopped and started again; its         *)
(* registry is in memory, the processes it started are not.                *)
(*                                                                         *)
(* An instance is the process that was started and the server in it.  With *)
(* the default command, go run, they are two processes, and killing the    *)
(* first leaves the second: GoRun.                                         *)
(***************************************************************************)
EXTENDS Naturals, FiniteSets

CONSTANTS
    Ids,               \* instance ids (uuids), never reused
    None,
    GoRun,             \* the managed command is a launcher of the server
    ShutdownTargets,   \* services whose shutdown URL is configured
    MaxStarts          \* bound: starts of the orchestrator

Services == {"api", "web"}

ASSUME OrchestratorAssumption ==
    /\ None \notin Services
    /\ GoRun \in BOOLEAN
    /\ ShutdownTargets \subseteq Services
    /\ MaxStarts \in Nat

VARIABLES
    service,    \* id -> the service it was started for, or None
    started,    \* started processes that are alive
    server,     \* ids whose server process is alive
    up,         \* servers that listen on the port of their service
    stopping,   \* servers that were asked to shut down
    main,       \* what the main function of the orchestrator does
    starts,     \* starts so far
    registry,   \* LocalExecAdapter.instances and meta
    spawning,   \* ids of spawn calls between cmd.Start and registration
    signal,     \* the channel shutdownSignals, capacity one
    doomed,     \* what the despawn phase still has to despawn
    by,         \* history: id -> the start that spawned it
    excused     \* history: ids that the shutdown phases could not have seen

procs  == <<service, started, server, up, stopping>>
memory == <<registry, spawning, signal, doomed>>
hist   == <<by, excused>>
vars   == <<procs, main, starts, memory, hist>>

Startup == {"spawn_api", "wait_api", "spawn_web", "wait_web"}
Closing == {"despawn_managed_instances", "request_api_shutdown",
            "request_web_shutdown", "drain_orchestrator_http"}
Open    == {"serving", "list_instances"} \cup Closing   \* requests are served
Over    == {"off", "failed", "died", "exited"}

Types ==
    /\ service \in [Ids -> Services \cup {None}]
    /\ started \subseteq Ids
    /\ server \subseteq Ids
    /\ up \subseteq server
    /\ stopping \subseteq up
    /\ main \in Startup \cup {"listen"} \cup Open \cup Over
    /\ starts \in 0..MaxStarts
    /\ registry \cup spawning \cup doomed \cup excused \subseteq Ids
    /\ signal \in BOOLEAN
    /\ by \in [Ids -> 0..MaxStarts]

(* Every id that is listed, about to be, or still to be despawned is that  *)
(* of a process that was started for a service.                            *)
TypeOK ==
    /\ Types
    /\ \A i \in started \cup registry \cup spawning \cup doomed : service[i] # None

Init ==
    /\ service = [i \in Ids |-> None]
    /\ started = {} /\ server = {} /\ up = {} /\ stopping = {}
    /\ main = "off" /\ starts = 0
    /\ registry = {} /\ spawning = {} /\ signal = FALSE /\ doomed = {}
    /\ by = [i \in Ids |-> 0] /\ excused = {}

-----------------------------------------------------------------------------
(* The processes: the orchestrator starts them, kills them and asks them   *)
(* to stop; the rest of their lives is their own.                          *)

Healthy(s) == \E i \in up : service[i] = s

(* Mutant of StartProcess: the command cannot be started, and nobody looks *)
(* at the error of cmd.Start.                                              *)
StartIgnored(i, s) ==
    /\ service[i] = None
    /\ by' = [by EXCEPT ![i] = starts]
    /\ UNCHANGED <<service, started, server, up, stopping>>

(* cmd.Start.  A call of Spawn that fails here has changed nothing.        *)
StartProcess(i, s) ==
    /\ service[i] = None
    /\ service' = [service EXCEPT ![i] = s]
    /\ by' = [by EXCEPT ![i] = starts]
    /\ started' = started \cup {i}
    /\ server' = server \cup {i}
    /\ UNCHANGED <<up, stopping>>

ServersEnd(dead) ==
    /\ server' = server \ dead
    /\ up' = up \ dead
    /\ stopping' = stopping \ dead

(* Process.Kill.                                                           *)
Kill(dead) ==
    /\ started' = started \ dead
    /\ ServersEnd(IF GoRun THEN {} ELSE dead)
    /\ UNCHANGED service

(* net.Listen of a server that booted: the port must be free.              *)
ServerListens(i) ==
    /\ i \in server \ up
    /\ ~Healthy(service[i])
    /\ up' = up \cup {i}
    /\ UNCHANGED <<service, started, server, stopping, main, starts, memory, hist>>

(* A server ends: its boot failed, it crashed, or it was asked to.         *)
ServerExits(i) ==
    /\ i \in server
    /\ ServersEnd({i})
    /\ started' = started \ {i}
    /\ UNCHANGED <<service, main, starts, memory, hist>>

-----------------------------------------------------------------------------
(* LocalExecAdapter.  Spawn registers the command after it has started it, *)
(* and a goroutine waits for its end to delete the entry.                  *)
Register(i) ==
    /\ registry' = registry \cup {i}
    /\ spawning' = spawning \ {i}

Reap(i) ==
    /\ main \notin Over
    /\ i \in registry \ started
    /\ registry' = registry \ {i}
    /\ UNCHANGED <<procs, main, starts, spawning, signal, doomed, hist>>

(* Mutant of Despawn: the entry is deleted, the process is not killed.     *)
DespawnForgets(i) == registry' = registry \ {i} /\ UNCHANGED procs

(* Despawn looks the command up, kills it and deletes the entry.  Before   *)
(* the entry is deleted others may see it, and where the process has ended *)
(* Kill may fail and Despawn returns the error: Reap deletes what is left. *)
(* Ids are never reused, so nothing else depends on the lookup.            *)
Despawn(i) ==
    IF i \in registry
      THEN Kill({i}) /\ registry' \in {registry, registry \ {i}}
      ELSE UNCHANGED <<procs, registry>>

-----------------------------------------------------------------------------
(* main: managed startup, one call after the other.                        *)
Goto(from, to) == main = from /\ main' = to

Start ==
    /\ main \in Over
    /\ main' = "spawn_api"
    /\ starts < MaxStarts
    /\ starts' = starts + 1
    /\ UNCHANGED <<procs, memory, hist>>

SpawnManaged(i, s, from, to) ==
    /\ Goto(from, to)
    /\ StartProcess(i, s)
    /\ Register(i)
    /\ UNCHANGED <<starts, signal, doomed, excused>>

(* A GET of the health URL that whoever listens there answers.             *)
WaitForHealth(s, from, to) ==
    /\ Goto(from, to)
    /\ Healthy(s)
    /\ UNCHANGED <<procs, starts, memory, hist>>

Serve ==
    /\ Goto("listen", "serving")
    /\ UNCHANGED <<procs, starts, memory, hist>>

(* The orchestrator's process is over: what it kept in memory is lost.     *)
End(how) ==
    /\ main' = how
    /\ registry' = {} /\ spawning' = {} /\ signal' = FALSE /\ doomed' = {}
    /\ UNCHANGED <<starts, hist>>

(* A spawn error, or ManagedStartupTimeoutSeconds are over: the instances  *)
(* started so far are despawned, then log.Fatalf.                          *)
StartupFails ==
    /\ main \in Startup
    /\ Kill(registry)
    /\ End("failed")

(* A signal before main listens for it, log.Fatalf because the address is  *)
(* in use, a crash: the orchestrator is gone and despawns nothing.         *)
Dies ==
    /\ main \notin Over
    /\ End("died")
    /\ UNCHANGED procs

-----------------------------------------------------------------------------
(* The HTTP endpoints.  server.Shutdown waits for a handler, or times out. *)
SpawnRequest(i, s) ==
    /\ main \in Open \ {"drain_orchestrator_http"}
    /\ StartProcess(i, s)
    /\ spawning' = spawning \cup {i}
    /\ excused' = IF main \in Closing THEN excused \cup {i} ELSE excused
    /\ UNCHANGED <<main, starts, registry, signal, doomed>>

SpawnRegisters(i) ==
    /\ i \in spawning
    /\ Register(i)
    /\ UNCHANGED <<procs, main, starts, signal, doomed, hist>>

DespawnRequest(i) ==
    /\ main \in Open
    /\ i \in registry
    /\ Despawn(i)
    /\ UNCHANGED <<main, starts, spawning, signal, doomed, hist>>

(* SIGTERM, SIGINT or POST /control/shutdown: a send that never blocks.    *)
RequestShutdown ==
    /\ main \in Open
    /\ signal' = TRUE
    /\ UNCHANGED <<procs, main, starts, registry, spawning, doomed, hist>>

(* shutdownOnce: only the first reason starts the phases.                  *)
ReceiveShutdown ==
    /\ signal
    /\ signal' = FALSE
    /\ main' = IF main = "serving" THEN "list_instances" ELSE main
    /\ UNCHANGED <<procs, starts, registry, spawning, doomed, hist>>

(* Phase despawn_managed_instances: a snapshot of the registry, then one   *)
(* Despawn after the other; a failed one is counted and skipped.           *)
ListInstances ==
    /\ Goto("list_instances", "despawn_managed_instances")
    /\ doomed' = registry
    /\ excused' = excused \cup spawning
    /\ UNCHANGED <<procs, starts, registry, spawning, signal, by>>

(* Mutant of DespawnNext: a failed Despawn is tried again.                 *)
DespawnAgain(i) ==
    /\ main = "despawn_managed_instances"
    /\ i \in doomed
    /\ Despawn(i)
    /\ doomed' = IF i \in registry THEN doomed \ {i} ELSE doomed
    /\ UNCHANGED <<main, starts, spawning, signal, hist>>

DespawnNext(i) ==
    /\ main = "despawn_managed_instances"
    /\ i \in doomed
    /\ Despawn(i)
    /\ doomed' = doomed \ {i}
    /\ UNCHANGED <<main, starts, spawning, signal, hist>>

(* Mutant of DespawnedAll: the phase ends with its first instance.         *)
DespawnedOne ==
    /\ Goto("despawn_managed_instances", "request_api_shutdown")
    /\ UNCHANGED <<procs, starts, memory, hist>>

DespawnedAll ==
    /\ doomed = {}
    /\ Goto("despawn_managed_instances", "request_api_shutdown")
    /\ UNCHANGED <<procs, starts, memory, hist>>

(* RequestManagedShutdown: whoever listens on the port is asked to stop.   *)
(* A refused connection is no error, an error is logged and the phases go  *)
(* on.                                                                     *)
RequestManagedShutdown(s, from, to) ==
    /\ Goto(from, to)
    /\ \E asked \in SUBSET {i \in up : service[i] = s /\ s \in ShutdownTargets} :
           stopping' = stopping \cup asked
    /\ UNCHANGED <<service, started, server, up, starts, memory, hist>>

(* server.Shutdown returns, main returns.                                  *)
Exit ==
    /\ main = "drain_orchestrator_http"
    /\ End("exited")
    /\ UNCHANGED procs

Phases ==
    \/ ListInstances \/ DespawnedAll \/ Exit
    \/ \E i \in doomed : DespawnNext(i)
    \/ RequestManagedShutdown("api", "request_api_shutdown", "request_web_shutdown")
    \/ RequestManagedShutdown("web", "request_web_shutdown", "drain_orchestrator_http")

Next ==
    \/ Start
    \/ \E i \in Ids : SpawnManaged(i, "api", "spawn_api", "wait_api")
    \/ WaitForHealth("api", "wait_api", "spawn_web")
    \/ \E i \in Ids : SpawnManaged(i, "web", "spawn_web", "wait_web")
    \/ WaitForHealth("web", "wait_web", "listen")
    \/ Serve \/ StartupFails \/ Dies
    \/ \E i \in Ids, s \in Services : SpawnRequest(i, s)
    \/ \E i \in Ids : SpawnRegisters(i) \/ DespawnRequest(i) \/ Reap(i)
    \/ RequestShutdown \/ ReceiveShutdown \/ Phases
    \/ \E i \in Ids : ServerListens(i) \/ ServerExits(i)

(* The goroutine that receives from the channel and the one that runs the  *)
(* phases are scheduled, and every phase has a timeout.  Nothing is        *)
(* assumed of the processes it started.                                    *)
Spec == Init /\ [][Next]_vars /\ WF_vars(ReceiveShutdown) /\ WF_vars(Phases)

-----------------------------------------------------------------------------
(* The orchestrator loses track of no process of its own: whatever spawn   *)
(* and despawn requests, exits and the shutdown do to the registry, a live *)
(* process of this start is listed or about to be.                         *)
Tracked ==
    main \notin Over =>
        \A i \in started : by[i] = starts => i \in registry \cup spawning

(* Where the commands are the servers themselves, a startup that failed    *)
(* and a shutdown that ran its phases leave no server of this start behind *)
(* but those spawned too late for the snapshot of the despawn phase.       *)
CleanExit ==
    ~GoRun => \A i \in server : by[i] = starts =>
        /\ main # "failed"
        /\ main = "exited" => i \in excused

(* The despawn phase comes before those that ask for a shutdown.  Where    *)
(* the commands are the servers themselves, it leaves nobody to ask: of    *)
(* the servers of this start, a request reaches only those spawned too     *)
(* late for the snapshot.  The others are killed, never asked.             *)
KilledNotAsked ==
    [][~GoRun => \A i \in stopping' \ stopping : by[i] = starts => i \in excused]_vars

(* A shutdown request is never lost: from the first one on, the            *)
(* orchestrator gets to its end, whatever its instances and clients do.    *)
StopsEventually == signal ~> (main \in Over)

(* README.md: the orchestrator "starts API first and WEB after API health  *)
(* is ready", so the health that startup waited for is that of the API it  *)
(* has just started.                                                       *)
WebAfterItsApi ==
    [][main = "wait_api" /\ main' = "spawn_web"
           => \E i \in up : service[i] = "api" /\ by[i] = starts]_vars
=============================================================================
