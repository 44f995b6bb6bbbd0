------------------------- MODULE OrchestratorProofs -------------------------
(***************************************************************************)
(* The safety properties of Orchestrator, for any number of instances and  *)
(* starts.                                                                 *)
(***************************************************************************)
EXTENDS Orchestrator, TLAPS

(* The ids of this start that are alive.                                   *)
Mine(i) == i \in started /\ by[i] = starts

(* An id is known once it was started, and by one start only.              *)
Known ==
    /\ \A i \in started \cup registry \cup spawning \cup doomed : service[i] # None
    /\ \A i \in Ids : by[i] <= starts

(* Spawn calls exist only while requests are served, and what they are     *)
(* about to register is in no list yet.                                    *)
Spawning ==
    /\ spawning \cap (registry \cup doomed) = {}
    /\ spawning # {} => main \in Open

(* Who, of the live processes of this start, the despawn phase still has   *)
(* to kill, and who is left when it is over.                               *)
Covered ==
    \A i \in Ids : Mine(i) =>
        /\ main # "failed"
        /\ main = "despawn_managed_instances" => i \in doomed \cup excused
        /\ main \in (Closing \ {"despawn_managed_instances"}) \cup {"exited"}
               => i \in excused

(* Where the command is the server, killing it leaves no server.           *)
Single == ~GoRun => server \subseteq started

OInv == Types /\ Tracked /\ Known /\ Spawning /\ Covered /\ Single

LEMMA MainNames ==
    /\ Startup \cap Over = {} /\ Startup \cap Open = {} /\ Open \cap Over = {}
    /\ Closing \subseteq Open /\ "list_instances" \in Open /\ "serving" \in Open
    /\ {"list_instances", "serving", "listen"} \cap Closing = {}
    /\ "listen" \notin Over /\ "listen" \notin Open /\ "listen" \notin Startup
    /\ Startup = {"spawn_api", "wait_api", "spawn_web", "wait_web"}
    /\ Closing = {"despawn_managed_instances", "request_api_shutdown",
                  "request_web_shutdown", "drain_orchestrator_http"}
    /\ Over = {"off", "failed", "died", "exited"}
BY DEF Startup, Open, Closing, Over

LEMMA InitOInv == Init => OInv
<1> SUFFICES ASSUME Init PROVE OInv OBVIOUS
<1>1. Types
      <2>1. 0 \in 0..MaxStarts
            BY OrchestratorAssumption
      <2>2. starts \in 0..MaxStarts /\ by \in [Ids -> 0..MaxStarts]
            BY <2>1 DEF Init
      <2>3. service \in [Ids -> Services \cup {None}] /\ main \in Over
            BY MainNames DEF Init
      <2> QED BY <2>2, <2>3 DEF Init, Types
<1>2. Tracked
      BY MainNames DEF Init, Tracked
<1>3. Known /\ Spawning /\ Covered /\ Single
      BY DEF Init, Known, Spawning, Covered, Mine, Single
<1> QED BY <1>1, <1>2, <1>3 DEF OInv

-----------------------------------------------------------------------------
(* main goes on, or nothing but the lives of the servers changes.          *)
LEMMA MoveOInv ==
    ASSUME OInv,
           UNCHANGED <<service, started, server, starts, registry, spawning, doomed, by, excused>>,
           up' \subseteq server, stopping' \subseteq up', signal' \in BOOLEAN,
           \/ main' = main
           \/ /\ main \notin Over
              /\ main' \in Startup \cup {"listen"} \cup Open
              /\ spawning # {} => main' \in Open
              /\ main' \in Closing => \A i \in Ids : Mine(i) => i \in excused
    PROVE  OInv'
<1> USE DEF OInv
<1>1. Types'
      BY DEF Types
<1>2. Tracked'
      BY DEF Tracked
<1>3. Known' /\ Single'
      BY DEF Known, Single
<1>4. Spawning'
      BY DEF Spawning
<1>5. Covered'
      BY MainNames DEF Covered, Mine
<1> QED BY <1>1, <1>2, <1>3, <1>4, <1>5

(* Processes end or entries are deleted, but no entry of a live process.   *)
LEMMA ShrinkOInv ==
    ASSUME OInv,
           UNCHANGED <<service, main, starts, spawning, signal, by, excused>>,
           started' \subseteq started, server' \subseteq server,
           up' \subseteq server', stopping' \subseteq up', Single',
           registry' \subseteq registry, doomed' \subseteq doomed,
           registry \cap started' \subseteq registry',
           \A i \in doomed \cap started' : Mine(i) => i \in doomed'
    PROVE  OInv'
<1> USE DEF OInv
<1>1. Types'
      BY DEF Types
<1>2. Tracked'
      BY DEF Tracked
<1>3. Known'
      BY DEF Known
<1>4. Spawning'
      BY DEF Spawning
<1>5. Covered'
      BY DEF Covered, Mine
<1> QED BY <1>1, <1>2, <1>3, <1>4, <1>5

(* A process is started and its id goes into a list at once.               *)
LEMMA StartProcessOInv ==
    ASSUME OInv, NEW i \in Ids, NEW s \in Services, StartProcess(i, s),
           UNCHANGED <<starts, signal, doomed>>,
           \/ /\ registry' = registry \cup {i} /\ spawning' = spawning \ {i}
              /\ excused' = excused
              /\ main \in Startup /\ main' \in Startup
           \/ /\ spawning' = spawning \cup {i} /\ registry' = registry
              /\ main' = main /\ main \in Open
              /\ excused' = IF main \in Closing THEN excused \cup {i} ELSE excused
    PROVE  OInv'
<1> USE DEF OInv
<1>0. /\ service[i] = None /\ service' = [service EXCEPT ![i] = s]
      /\ by' = [by EXCEPT ![i] = starts] /\ UNCHANGED <<up, stopping>>
      /\ started' = started \cup {i} /\ server' = server \cup {i}
      /\ i \notin started \cup registry \cup spawning \cup doomed
      BY DEF StartProcess, Known
<1>1. Types'
      <2>1. service' \in [Ids -> Services \cup {None}] /\ by' \in [Ids -> 0..MaxStarts]
            BY <1>0 DEF Types
      <2>2. main' \in Startup \cup {"listen"} \cup Open \cup Over
            OBVIOUS
      <2> QED BY <1>0, <2>1, <2>2 DEF Types
<1>2. Tracked'
      <2>1. main \notin Over
            BY MainNames
      <2>2. \A j \in started : j # i /\ by'[j] = by[j]
            BY <1>0 DEF Types
      <2> QED BY <1>0, <2>1, <2>2 DEF Types, Tracked
<1>3. Known'
      <2>1. s # None
            BY OrchestratorAssumption
      <2>2. \A j \in Ids : /\ service'[j] = IF j = i THEN s ELSE service[j]
                          /\ by'[j] = IF j = i THEN starts ELSE by[j]
            BY <1>0 DEF Types
      <2>3. starts <= starts /\ started' \cup registry' \cup spawning' \cup doomed' \subseteq Ids
            BY <1>0 DEF Types
      <2> QED BY <1>0, <2>1, <2>2, <2>3 DEF Known
<1>4. Spawning'
      BY <1>0, MainNames DEF Spawning
<1>5. Covered'
      <2>1. \A j \in Ids \ {i} : Mine(j)' = Mine(j)
            BY <1>0 DEF Types, Mine
      <2>2. CASE main \in Startup /\ main' \in Startup
            BY <2>2, MainNames DEF Covered
      <2>3. CASE main \in Open /\ main' = main
                 /\ excused' = IF main \in Closing THEN excused \cup {i} ELSE excused
            BY <2>1, <2>3, <1>0, MainNames DEF Covered
      <2> QED BY <2>2, <2>3, MainNames
<1>6. Single'
      BY <1>0 DEF Single
<1> QED BY <1>1, <1>2, <1>3, <1>4, <1>5, <1>6

(* The orchestrator is over.                                               *)
LEMMA EndOInv ==
    ASSUME OInv, NEW how \in Over, End(how), UNCHANGED service,
           started' \subseteq started, server' \subseteq server,
           up' \subseteq server', stopping' \subseteq up', Single',
           how = "failed" => \A i \in started' : ~Mine(i),
           how = "exited" => \A i \in started' : Mine(i) => i \in excused
    PROVE  OInv'
<1> USE DEF OInv, End, hist
<1>1. Types'
      BY DEF Types
<1>2. Tracked'
      BY DEF Tracked
<1>3. Known' /\ Spawning'
      BY DEF Known, Spawning
<1>4. Covered'
      BY MainNames DEF Covered, Mine
<1> QED BY <1>1, <1>2, <1>3, <1>4

-----------------------------------------------------------------------------
LEMMA StartOInv == ASSUME OInv, Start PROVE OInv'
<1> USE DEF OInv, Start, procs, memory, hist
<1>1. Types'
      <2>1. starts + 1 \in 0..MaxStarts
            BY OrchestratorAssumption DEF Types
      <2> QED BY <2>1, MainNames DEF Types
<1>2. starts \in Nat /\ \A i \in Ids : by[i] \in Nat /\ by[i] < starts'
      BY OrchestratorAssumption DEF Types, Known
<1>3. Tracked' /\ Covered'
      BY <1>2, MainNames DEF Tracked, Covered, Mine, Types
<1>4. Known'
      BY <1>2 DEF Known
<1>5. Spawning' /\ Single'
      BY MainNames DEF Spawning, Single
<1> QED BY <1>1, <1>3, <1>4, <1>5

LEMMA KillSingle ==
    ASSUME OInv, NEW dead, Kill(dead)
    PROVE  /\ started' = started \ dead /\ server' \subseteq server
           /\ up' \subseteq server' /\ stopping' \subseteq up'
           /\ service' = service /\ Single'
<1>1. CASE GoRun
      BY <1>1 DEF OInv, Types, Single, Kill, ServersEnd
<1>2. CASE ~GoRun
      BY <1>2 DEF OInv, Types, Single, Kill, ServersEnd
<1> QED BY <1>1, <1>2

LEMMA StartupFailsOInv == ASSUME OInv, StartupFails PROVE OInv'
<1>1. Kill(registry) /\ End("failed") /\ main \in Startup /\ "failed" \in Over
      BY MainNames DEF StartupFails
<1>2. \A i \in started' : ~Mine(i)
      BY <1>1, KillSingle, MainNames DEF OInv, Spawning, Tracked, Mine
<1> QED BY <1>1, <1>2, KillSingle, EndOInv

(* Despawn of one id, by a request or by the phase.                        *)
LEMMA DespawnShrinks ==
    ASSUME OInv, NEW i \in Ids, Despawn(i)
    PROVE  /\ started' \subseteq started /\ server' \subseteq server
           /\ up' \subseteq server' /\ stopping' \subseteq up'
           /\ service' = service /\ Single'
           /\ registry' \subseteq registry
           /\ registry \cap started' \subseteq registry'
           /\ i \in registry => i \notin started'
<1>1. CASE i \in registry
      <2>1. Kill({i}) /\ registry' \in {registry, registry \ {i}}
            BY <1>1 DEF Despawn
      <2> QED BY <1>1, <2>1, KillSingle
<1>2. CASE i \notin registry
      BY <1>2 DEF Despawn, procs, OInv, Types, Single
<1> QED BY <1>1, <1>2

LEMMA DespawnNextOInv ==
    ASSUME OInv, NEW i \in doomed, DespawnNext(i) PROVE OInv'
<1>1. i \in Ids
      BY DEF OInv, Types
<1>2. /\ main = "despawn_managed_instances" /\ main \notin Over /\ Despawn(i)
      /\ doomed' = doomed \ {i}
      /\ UNCHANGED <<main, starts, spawning, signal, by, excused>>
      BY MainNames DEF DespawnNext, hist
<1>3. Mine(i) => i \in registry
      BY <1>2 DEF OInv, Tracked, Spawning, Mine
<1>4. \A j \in doomed \cap started' : Mine(j) => j \in doomed'
      BY <1>1, <1>2, <1>3, DespawnShrinks
<1> QED BY <1>1, <1>2, <1>4, DespawnShrinks, ShrinkOInv

LEMMA ListInstancesOInv == ASSUME OInv, ListInstances PROVE OInv'
<1> USE DEF OInv
<1>1. /\ main = "list_instances" /\ main' = "despawn_managed_instances"
      /\ doomed' = registry /\ excused' = excused \cup spawning
      /\ UNCHANGED <<service, started, server, up, stopping, starts, registry,
                     spawning, signal, by>>
      BY DEF ListInstances, Goto, procs
<1>2. Types'
      BY <1>1, MainNames DEF Types
<1>3. Tracked'
      BY <1>1, MainNames DEF Tracked
<1>4. Known' /\ Spawning' /\ Single'
      BY <1>1, MainNames DEF Known, Spawning, Single
<1>5. Covered'
      BY <1>1, <1>3, MainNames DEF Tracked, Covered, Mine
<1> QED BY <1>2, <1>3, <1>4, <1>5

LEMMA ExitOInv == ASSUME OInv, Exit PROVE OInv'
<1>1. /\ main = "drain_orchestrator_http" /\ End("exited")
      /\ UNCHANGED <<service, started, server, up, stopping, starts, by, excused>>
      BY DEF Exit, procs, End, hist
<1>2. \A i \in started' : Mine(i) => i \in excused
      BY <1>1, MainNames DEF OInv, Types, Covered
<1>3. Single' /\ up' \subseteq server' /\ stopping' \subseteq up'
      BY <1>1 DEF OInv, Single, Types
<1>4. "exited" \in Over
      BY MainNames
<1> QED BY <1>1, <1>2, <1>3, <1>4, EndOInv

LEMMA PhasesOInv == ASSUME OInv, Phases PROVE OInv'
<1> USE MainNames
<1>1. CASE DespawnedAll
      <2>1. /\ main = "despawn_managed_instances" /\ main' = "request_api_shutdown"
            /\ doomed = {} /\ UNCHANGED <<procs, starts, memory, hist>>
            BY <1>1 DEF DespawnedAll, Goto
      <2>2. \A i \in Ids : Mine(i) => i \in excused
            BY <2>1 DEF OInv, Covered
      <2> QED BY <2>1, <2>2, MoveOInv DEF procs, memory, hist, OInv, Types, Spawning
<1>2. ASSUME NEW s, NEW from \in Closing \ {"despawn_managed_instances"},
             NEW to \in Closing, RequestManagedShutdown(s, from, to)
      PROVE  OInv'
      <2>1. /\ main = from /\ main' = to /\ up' = up
            /\ UNCHANGED <<service, started, server, starts, registry, spawning,
                           signal, doomed, by, excused>>
            /\ stopping' \subseteq stopping \cup up
            BY <1>2 DEF RequestManagedShutdown, Goto, memory, hist
      <2>2. \A i \in Ids : Mine(i) => i \in excused
            BY <2>1 DEF OInv, Covered
      <2> QED BY <2>1, <2>2, MoveOInv DEF OInv, Types, Spawning
<1>3. ASSUME NEW i \in doomed, DespawnNext(i) PROVE OInv'
      BY <1>3, DespawnNextOInv
<1> QED BY <1>1, <1>2, <1>3, ListInstancesOInv, ExitOInv DEF Phases

LEMMA StartupOInv ==
    ASSUME OInv,
           \/ \E i \in Ids : SpawnManaged(i, "api", "spawn_api", "wait_api")
           \/ WaitForHealth("api", "wait_api", "spawn_web")
           \/ \E i \in Ids : SpawnManaged(i, "web", "spawn_web", "wait_web")
           \/ WaitForHealth("web", "wait_web", "listen")
           \/ Serve
    PROVE  OInv'
<1> USE MainNames
<1>1. ASSUME NEW i \in Ids, NEW s \in Services, NEW from \in Startup,
             NEW to \in Startup, SpawnManaged(i, s, from, to)
      PROVE  OInv'
      BY <1>1, StartProcessOInv DEF SpawnManaged, Goto, Register
<1>2. ASSUME NEW s, NEW from \in Startup, NEW to \in Startup \cup {"listen"},
             WaitForHealth(s, from, to)
      PROVE  OInv'
      <2>1. /\ main = from /\ main' = to
            /\ UNCHANGED <<procs, starts, memory, hist>>
            BY <1>2 DEF WaitForHealth, Goto
      <2> QED BY <2>1, MoveOInv DEF procs, memory, hist, OInv, Types, Spawning
<1>3. CASE Serve
      <2>1. /\ main = "listen" /\ main' = "serving"
            /\ UNCHANGED <<procs, starts, memory, hist>>
            BY <1>3 DEF Serve, Goto
      <2> QED BY <2>1, MoveOInv DEF procs, memory, hist, OInv, Types, Spawning
<1>4. {"spawn_api", "wait_api", "spawn_web", "wait_web"} = Startup /\ Services = {"api", "web"}
      BY DEF Services
<1> QED BY <1>1, <1>2, <1>3, <1>4

LEMMA RequestsOInv ==
    ASSUME OInv,
           \/ \E i \in Ids, s \in Services : SpawnRequest(i, s)
           \/ \E i \in Ids : SpawnRegisters(i) \/ DespawnRequest(i) \/ Reap(i)
           \/ RequestShutdown \/ ReceiveShutdown
           \/ \E i \in Ids : ServerListens(i) \/ ServerExits(i)
    PROVE  OInv'
<1> USE MainNames
<1>1. ASSUME NEW i \in Ids, NEW s \in Services, SpawnRequest(i, s) PROVE OInv'
      BY <1>1, StartProcessOInv DEF SpawnRequest
<1>2. ASSUME NEW i \in Ids, SpawnRegisters(i) PROVE OInv'
      <2>1. /\ i \in spawning /\ registry' = registry \cup {i} /\ spawning' = spawning \ {i}
            /\ UNCHANGED <<service, started, server, up, stopping, main, starts,
                           signal, doomed, by, excused>>
            BY <1>2 DEF SpawnRegisters, Register, procs, hist
      <2>2. Types'
            BY <2>1 DEF OInv, Types
      <2>3. Tracked' /\ Known' /\ Covered'
            BY <2>1 DEF OInv, Tracked, Known, Covered, Mine
      <2>4. Spawning' /\ Single'
            BY <2>1 DEF OInv, Spawning, Single
      <2> QED BY <2>2, <2>3, <2>4 DEF OInv
<1>3. ASSUME NEW i \in Ids, DespawnRequest(i) PROVE OInv'
      <2>1. /\ main \in Open /\ i \in registry /\ Despawn(i)
            /\ UNCHANGED <<main, starts, spawning, signal, doomed, by, excused>>
            BY <1>3 DEF DespawnRequest, hist
      <2> QED BY <2>1, DespawnShrinks, ShrinkOInv
<1>4. ASSUME NEW i \in Ids, Reap(i) PROVE OInv'
      <2>1. /\ registry' = registry \ {i} /\ i \notin started
            /\ UNCHANGED <<service, started, server, up, stopping, main, starts,
                           spawning, signal, doomed, by, excused>>
            BY <1>4 DEF Reap, procs, hist
      <2> QED BY <2>1, ShrinkOInv DEF OInv, Types, Single
<1>5. CASE RequestShutdown
      BY <1>5, MoveOInv DEF RequestShutdown, procs, hist, OInv, Types
<1>6. CASE ReceiveShutdown
      BY <1>6, MoveOInv DEF ReceiveShutdown, procs, hist, OInv, Types
<1>7. ASSUME NEW i \in Ids, ServerListens(i) PROVE OInv'
      BY <1>7, MoveOInv DEF ServerListens, memory, hist, OInv, Types
<1>8. ASSUME NEW i \in Ids, ServerExits(i) PROVE OInv'
      <2>1. /\ started' = started \ {i} /\ server' = server \ {i}
            /\ up' = up \ {i} /\ stopping' = stopping \ {i}
            /\ UNCHANGED <<service, main, starts, registry, spawning, signal,
                           doomed, by, excused>>
            BY <1>8 DEF ServerExits, ServersEnd, memory, hist
      <2> QED BY <2>1, ShrinkOInv DEF OInv, Types, Single
<1> QED BY <1>1, <1>2, <1>3, <1>4, <1>5, <1>6, <1>7, <1>8

LEMMA NextOInv == ASSUME OInv, [Next]_vars PROVE OInv'
<1>1. CASE Dies
      <2>1. /\ End("died") /\ "died" \in Over
            /\ UNCHANGED <<service, started, server, up, stopping>>
            BY <1>1, MainNames DEF Dies, procs
      <2> QED BY <2>1, EndOInv DEF OInv, Types, Single
<1>2. CASE UNCHANGED vars
      BY <1>2, MoveOInv DEF vars, procs, memory, hist, OInv, Types
<1> QED BY <1>1, <1>2, StartOInv, StartupFailsOInv, PhasesOInv, StartupOInv,
           RequestsOInv DEF Next

-----------------------------------------------------------------------------
(* The inductive invariant, for any number of instances and starts, and    *)
(* for go run launchers as well as direct commands.                        *)
THEOREM RegistryHolds == Spec => []OInv
BY InitOInv, NextOInv, PTL DEF Spec

(* The types of the registry and of the processes, and that every listed   *)
(* id is that of a process that was started.                               *)
THEOREM RegistryTypes == Spec => []TypeOK
<1>1. OInv => TypeOK
      BY DEF OInv, Known, TypeOK
<1> QED BY <1>1, RegistryHolds, PTL

(* The orchestrator loses track of no live process of its own start.       *)
THEOREM NothingUntracked == Spec => []Tracked
<1>1. OInv => Tracked
      BY DEF OInv
<1> QED BY <1>1, RegistryHolds, PTL

(* A failed startup and a finished shutdown leave no server behind but     *)
(* those spawned too late for the snapshot, where commands are servers.    *)
THEOREM NothingLeftBehind == Spec => []CleanExit
<1>1. OInv => CleanExit
      BY DEF OInv, Types, Single, Covered, Mine, CleanExit
<1> QED BY <1>1, RegistryHolds, PTL

(* Only a phase that requests a shutdown adds to those asked to stop.      *)
LEMMA AskedInPhases ==
    ASSUME [Next]_vars, stopping' \ stopping # {}
    PROVE  /\ main \in {"request_api_shutdown", "request_web_shutdown"}
           /\ stopping' \subseteq stopping \cup up
<1>1. ASSUME NEW s, NEW from, NEW to, RequestManagedShutdown(s, from, to)
      PROVE  main = from /\ stopping' \subseteq stopping \cup up
      BY <1>1 DEF RequestManagedShutdown, Goto
<1>2. CASE Phases
      <2>1. CASE ListInstances \/ DespawnedAll \/ Exit
            BY <2>1 DEF ListInstances, DespawnedAll, Exit, procs
      <2>2. ASSUME NEW i \in doomed, DespawnNext(i) PROVE FALSE
            BY <2>2 DEF DespawnNext, Despawn, Kill, ServersEnd, procs
      <2> QED BY <1>1, <1>2, <2>1, <2>2 DEF Phases
<1>3. CASE UNCHANGED vars
      BY <1>3 DEF vars, procs
<1>4. CASE \/ Start \/ Serve \/ StartupFails \/ Dies
           \/ WaitForHealth("api", "wait_api", "spawn_web")
           \/ WaitForHealth("web", "wait_web", "listen")
           \/ RequestShutdown \/ ReceiveShutdown
      BY <1>4 DEF Start, Serve, StartupFails, Dies, WaitForHealth, RequestShutdown,
                  ReceiveShutdown, Kill, ServersEnd, procs
<1>5. ASSUME NEW i \in Ids, NEW s, NEW from, NEW to,
             SpawnManaged(i, s, from, to) \/ SpawnRequest(i, s)
      PROVE  FALSE
      BY <1>5 DEF SpawnManaged, SpawnRequest, StartProcess
<1>6. ASSUME NEW i \in Ids,
             \/ SpawnRegisters(i) \/ DespawnRequest(i) \/ Reap(i)
             \/ ServerListens(i) \/ ServerExits(i)
      PROVE  FALSE
      BY <1>6 DEF SpawnRegisters, DespawnRequest, Reap, ServerListens, ServerExits,
                  Despawn, Kill, ServersEnd, procs
<1> QED BY <1>2, <1>3, <1>4, <1>5, <1>6 DEF Next

(* The shutdown requests of the orchestrator reach no server of its own    *)
(* that the despawn phase has seen: it has killed them by then.            *)
THEOREM DespawnComesFirst == Spec => KilledNotAsked
<1>1. OInv /\ [Next]_vars => [~GoRun => \A i \in stopping' \ stopping :
                                            by[i] = starts => i \in excused]_vars
      <2> SUFFICES ASSUME OInv, [Next]_vars, ~GoRun, NEW i \in stopping' \ stopping,
                          by[i] = starts
                   PROVE  i \in excused
          OBVIOUS
      <2>1. main \in {"request_api_shutdown", "request_web_shutdown"} /\ i \in up
            BY AskedInPhases
      <2>2. i \in Ids /\ Mine(i)
            BY <2>1 DEF OInv, Types, Single, Mine
      <2> QED BY <2>1, <2>2, MainNames DEF OInv, Covered
<1> QED BY <1>1, RegistryHolds, PTL DEF Spec, KilledNotAsked
=============================================================================
