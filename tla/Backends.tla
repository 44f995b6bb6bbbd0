------------------------------ MODULE Backends ------------------------------
(***************************************************************************)
(* The docker, kubernetes and systemd backends of the orchestrator.  Each  *)
(* keeps, in memory, which unit (container, pod, systemd unit) an instance *)
(* id stands for, and runs a command line tool that knows units by name    *)
(* only: Spawn registers after its command, Despawn looks the name up,     *)
(* runs its command and deletes the entry, and requests interleave between *)
(* the steps.  A command that fails, or is killed because its client has   *)
(* gone, may have had its effect.                                          *)
(***************************************************************************)
EXTENDS FiniteSets

CONSTANTS
    Kinds,     \* the backends BackendFromName may make
    Names,     \* names of units
    Ids,       \* instance ids (uuids), never reused
    Workers,   \* requests in flight at once
    None

ASSUME BackendsAssumption ==
    /\ Kinds \subseteq {"docker", "kubernetes", "systemd"}
    /\ None \notin Names \cup Ids

VARIABLES
    kind,      \* the backend
    units,     \* name -> absent, running, or exited and still known
    meta,      \* id -> the name of its unit, or None
    req,       \* worker -> what it is doing, or None
    issued,    \* ids taken so far
    started,   \* history: names that a Spawn of this orchestrator brought up
    spoilt     \* history: names whose Despawn overlapped another or failed

vars == <<kind, units, meta, req, issued, started, spoilt>>

Request ==      [at : {"lookup"}, id : Ids, name : {None}]
           \cup [at : {"start", "register", "stop", "delete"}, id : Ids, name : Names]

ASSUME NoneIsNoRequest == None \notin Request

TypeOK ==
    /\ kind \in Kinds
    /\ units \in [Names -> {"absent", "running", "exited"}]
    /\ meta \in [Ids -> Names \cup {None}]
    /\ req \in [Workers -> Request \cup {None}]
    /\ issued \subseteq Ids /\ started \cup spoilt \subseteq Names

Init ==
    /\ kind \in Kinds
    /\ units = [n \in Names |-> "absent"]
    /\ meta = [i \in Ids |-> None]
    /\ req = [w \in Workers |-> None]
    /\ issued = {} /\ started = {} /\ spoilt = {}

At(w, step) == req[w] # None /\ req[w].at = step

Goto(w, step) == req' = [req EXCEPT ![w].at = step]

Ends(w) == req' = [req EXCEPT ![w] = None]

-----------------------------------------------------------------------------
(* Spawn.  The id is drawn after the command; drawing it here only says    *)
(* whose unit it is.                                                       *)
SpawnRequest(w, n, i) ==
    /\ req[w] = None /\ i \notin issued
    /\ req' = [req EXCEPT ![w] = [at |-> "start", id |-> i, name |-> n]]
    /\ issued' = issued \cup {i}
    /\ UNCHANGED <<kind, units, meta, started, spoilt>>

(* The command brings the unit up and succeeds, or fails after that.       *)
Starts(w) ==
    LET n == req[w].name IN
    /\ units' = [units EXCEPT ![n] = "running"]
    /\ \/ Goto(w, "register") /\ started' = started \cup {n}
       \/ Ends(w) /\ started' = IF units[n] = "running" THEN started ELSE started \ {n}

(* Mutant of KubernetesSpawn: a pod that is there is taken over.           *)
KubectlApply(w) == kind = "kubernetes" /\ Starts(w)

(* docker run and kubectl run refuse a name that is in use.                *)
DockerSpawn(w) ==
    /\ kind = "docker" /\ units[req[w].name] = "absent"
    /\ Starts(w)

KubernetesSpawn(w) ==
    /\ kind = "kubernetes" /\ units[req[w].name] = "absent"
    /\ Starts(w)

(* systemctl start succeeds for a unit that runs.                          *)
SystemdSpawn(w) == kind = "systemd" /\ Starts(w)

Spawn(w) ==
    /\ At(w, "start")
    /\ \/ DockerSpawn(w) \/ KubernetesSpawn(w) \/ SystemdSpawn(w)
       \/ Ends(w) /\ UNCHANGED <<units, started>>
    /\ UNCHANGED <<kind, meta, issued, spoilt>>

Register(w) ==
    /\ At(w, "register")
    /\ meta' = [meta EXCEPT ![req[w].id] = req[w].name]
    /\ Ends(w)
    /\ UNCHANGED <<kind, units, issued, started, spoilt>>

-----------------------------------------------------------------------------
(* Despawn of an id the client has been told of.                           *)
DespawnRequest(w, i) ==
    /\ req[w] = None /\ i \in issued
    /\ req' = [req EXCEPT ![w] = [at |-> "lookup", id |-> i, name |-> None]]
    /\ UNCHANGED <<kind, units, meta, issued, started, spoilt>>

Overlaps(w) ==
    \E v \in Workers \ {w} : req[v] # None /\ req[v].at \in {"stop", "delete"}
                             /\ req[v].id = req[w].id

(* Mutant of Found: an id that is not listed is despawned all the same.     *)
AnyId(n) == TRUE

Found(n) == n # None

Lookup(w) ==
    /\ At(w, "lookup")
    /\ LET n == meta[req[w].id] IN
       /\ IF Found(n) THEN req' = [req EXCEPT ![w].at = "stop", ![w].name = n]
                      ELSE Ends(w)
       /\ spoilt' = IF n # None /\ Overlaps(w) THEN spoilt \cup {n} ELSE spoilt
    /\ UNCHANGED <<kind, units, meta, issued, started>>

(* Mutant of AfterFailure: the entry is deleted though the command failed. *)
DeletesAnyway(w) == Goto(w, "delete")

AfterFailure(w) == Ends(w)

(* The command takes the unit down and succeeds.                           *)
Stops(w) ==
    /\ units' = [units EXCEPT ![req[w].name] = "absent"]
    /\ Goto(w, "delete")
    /\ UNCHANGED spoilt

(* It fails, with or without its effect: the entry stays.                  *)
StopFails(w) ==
    /\ units' \in {units, [units EXCEPT ![req[w].name] = "absent"]}
    /\ spoilt' = spoilt \cup {req[w].name}
    /\ AfterFailure(w)

DockerDespawn(w) == kind = "docker" /\ (Stops(w) \/ StopFails(w))

KubernetesDespawn(w) == kind = "kubernetes" /\ (Stops(w) \/ StopFails(w))

SystemdDespawn(w) == kind = "systemd" /\ (Stops(w) \/ StopFails(w))

Despawn(w) ==
    /\ At(w, "stop")
    /\ DockerDespawn(w) \/ KubernetesDespawn(w) \/ SystemdDespawn(w)
    /\ UNCHANGED <<kind, meta, issued, started>>

Forget(w) ==
    /\ At(w, "delete")
    /\ meta' = [meta EXCEPT ![req[w].id] = None]
    /\ Ends(w)
    /\ UNCHANGED <<kind, units, issued, started, spoilt>>

-----------------------------------------------------------------------------
(* A container or a pod that ends keeps its name; a systemd unit is down.  *)
UnitExits(n) ==
    /\ units[n] = "running"
    /\ units' = [units EXCEPT ![n] = IF kind = "systemd" THEN "absent" ELSE "exited"]
    /\ UNCHANGED <<kind, meta, req, issued, started, spoilt>>

(* The orchestrator starts again: the units stay, the registry is empty.   *)
Restart ==
    /\ meta' = [i \in Ids |-> None]
    /\ req' = [w \in Workers |-> None]
    /\ started' = {} /\ spoilt' = {}
    /\ UNCHANGED <<kind, units, issued>>

Next ==
    \/ \E w \in Workers :
          \/ \E i \in Ids : DespawnRequest(w, i) \/ \E n \in Names : SpawnRequest(w, n, i)
          \/ Spawn(w) \/ Register(w) \/ Lookup(w) \/ Despawn(w) \/ Forget(w)
    \/ \E n \in Names : UnitExits(n)
    \/ Restart

Spec == Init /\ [][Next]_vars

-----------------------------------------------------------------------------
(* The orchestrator loses no unit it has started: as long as it runs, an   *)
(* instance id stands for it, or is about to, so that it can be despawned, *)
(* whatever despawns of the same name overlap or fail.                     *)
UnitsTracked ==
    \A n \in started :
        units[n] = "running" =>
            \/ \E i \in Ids : meta[i] = n
            \/ \E w \in Workers : At(w, "register") /\ req[w].name = n

(* An instance that docker or kubernetes lists is there, and no other id   *)
(* stands for its unit, unless a despawn has taken it down and is about to *)
(* delete the entry, or despawns of its name overlapped or failed.         *)
ListedIsThere ==
    kind # "systemd" =>
        \A i \in Ids : meta[i] # None /\ meta[i] \notin spoilt =>
            \/ \E w \in Workers : At(w, "delete") /\ req[w].id = i
            \/ /\ units[meta[i]] # "absent"
               /\ \A j \in Ids \ {i} : meta[j] = meta[i] =>
                      \E w \in Workers : At(w, "delete") /\ req[w].id = j
=============================================================================
