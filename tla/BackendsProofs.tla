--------------------------- MODULE BackendsProofs ---------------------------
(***************************************************************************)
(* Theorems about the docker, kubernetes and systemd backends, for any     *)
(* units, any number of instances and any number of requests in flight.    *)
(***************************************************************************)
EXTENDS Backends, TLAPS

(* i stands for the unit n and will go on doing so: it is registered and   *)
(* nobody is about to delete the entry, or about to be registered.         *)
Holds(i, n) ==
    \/ meta[i] = n /\ ~\E w \in Workers : At(w, "delete") /\ req[w].id = i
    \/ \E w \in Workers : At(w, "register") /\ req[w].id = i /\ req[w].name = n

Spawning(w)   == At(w, "start") \/ At(w, "register")
Despawning(w) == At(w, "stop") \/ At(w, "delete")

(* An id is taken once: nobody knows it before it is registered.           *)
IdsFresh ==
    /\ \A i \in Ids : meta[i] # None => i \in issued
    /\ \A w \in Workers : req[w] # None => req[w].id \in issued
    /\ \A w \in Workers : Spawning(w) =>
          /\ meta[req[w].id] = None
          /\ \A v \in Workers \ {w} :
                Spawning(v) \/ Despawning(v) => req[v].id # req[w].id
    /\ \A w \in Workers : Despawning(w) => meta[req[w].id] \in {None, req[w].name}

RunningHeld ==
    \A n \in started : units[n] = "running" => \E i \in Ids : Holds(i, n)

(* Despawns of an unspoilt name do not overlap, and docker and kubernetes  *)
(* give a unit to one id.                                                  *)
HeldAlone ==
    kind # "systemd" =>
        /\ \A w \in Workers : Despawning(w) /\ req[w].name \notin spoilt =>
              /\ meta[req[w].id] = req[w].name
              /\ \A v \in Workers \ {w} : Despawning(v) => req[v].id # req[w].id
        /\ \A n \in Names \ spoilt, i \in Ids :
              Holds(i, n) =>
                  /\ units[n] # "absent"
                  /\ \A j \in Ids : Holds(j, n) => j = i

BInv == TypeOK /\ IdsFresh /\ RunningHeld /\ HeldAlone

LEMMA InitInv == Init => BInv
BY BackendsAssumption
   DEF Init, BInv, TypeOK, IdsFresh, RunningHeld, HeldAlone, Holds, Spawning, Despawning, At

LEMMA NoRequest ==
    ASSUME TypeOK, NEW w \in Workers, Ends(w)
    PROVE  /\ req' \in [Workers -> Request \cup {None}] /\ req'[w] = None
           /\ \A v \in Workers \ {w} : req'[v] = req[v]
BY DEF TypeOK, Ends

LEMMA NewRequest ==
    ASSUME TypeOK, NEW w \in Workers, NEW r \in Request, req' = [req EXCEPT ![w] = r]
    PROVE  /\ req' \in [Workers -> Request \cup {None}] /\ req'[w] = r /\ r # None
           /\ \A v \in Workers \ {w} : req'[v] = req[v]
BY NoneIsNoRequest DEF TypeOK

LEMMA GoesTo ==
    ASSUME TypeOK, NEW w \in Workers, req[w] # None, req[w].name \in Names,
           NEW step \in {"register", "delete"}, Goto(w, step)
    PROVE  /\ req' \in [Workers -> Request \cup {None}]
           /\ req'[w] # None /\ req'[w].at = step
           /\ req'[w].id = req[w].id /\ req'[w].name = req[w].name
           /\ \A v \in Workers \ {w} : req'[v] = req[v]
<1> DEFINE r == [req[w] EXCEPT !.at = step]
<1>1. req[w] \in [at : {"start", "register", "stop", "delete"}, id : Ids, name : Names]
      <2>1. req[w] \in Request
            BY DEF TypeOK
      <2>2. req[w] \notin [at : {"lookup"}, id : Ids, name : {None}]
            BY BackendsAssumption
      <2> QED BY <2>1, <2>2 DEF Request
<1>2. r \in Request /\ r.at = step /\ r.id = req[w].id /\ r.name = req[w].name
      BY <1>1 DEF Request
<1>3. req' = [req EXCEPT ![w] = r]
      BY DEF Goto, TypeOK
<1> HIDE DEF r
<1> QED BY <1>2, <1>3, NewRequest

LEMMA RequestTypes ==
    ASSUME TypeOK, NEW w \in Workers, req[w] # None
    PROVE  /\ req[w].id \in Ids
           /\ Spawning(w) \/ Despawning(w) => req[w].name \in Names
           /\ req[w].name \in Names \cup {None}
BY DEF TypeOK, Request, Spawning, Despawning, At

-----------------------------------------------------------------------------
(* Requests that begin or end without having touched a unit or an entry.   *)
LEMMA SpawnRequestInv ==
    ASSUME BInv, NEW w \in Workers, NEW n \in Names, NEW i \in Ids, SpawnRequest(w, n, i)
    PROVE  BInv'
<1> DEFINE r == [at |-> "start", id |-> i, name |-> n]
<1>1. r \in Request /\ r.at = "start" /\ r.id = i /\ r.name = n
      BY DEF Request
<1>2. req' = [req EXCEPT ![w] = r]
      BY DEF SpawnRequest
<1> HIDE DEF r
<1>3. /\ req' \in [Workers -> Request \cup {None}] /\ req'[w] = r /\ r # None
      /\ \A v \in Workers \ {w} : req'[v] = req[v]
      BY <1>1, <1>2, NewRequest DEF BInv
<1>4. /\ req[w] = None /\ i \notin issued /\ issued' = issued \cup {i}
      /\ UNCHANGED <<kind, units, meta, started, spoilt>>
      BY DEF SpawnRequest
<1>5. TypeOK'
      BY <1>3, <1>4 DEF BInv, TypeOK
<1>6. \A v \in Workers : \A step \in {"register", "stop", "delete"} :
          At(v, step)' <=> At(v, step)
      BY <1>1, <1>3, <1>4 DEF At
<1>7. \A v \in Workers : At(v, "start")' <=> At(v, "start") \/ v = w
      BY <1>1, <1>3, <1>4 DEF At
<1>8. \A j, m : Holds(j, m)' <=> Holds(j, m)
      BY <1>3, <1>4, <1>6 DEF Holds, At
<1>9. IdsFresh'
      BY <1>1, <1>3, <1>4, <1>6, <1>7 DEF BInv, IdsFresh, Spawning, Despawning, At
<1>10. RunningHeld' /\ HeldAlone'
       BY <1>3, <1>4, <1>6, <1>8 DEF BInv, RunningHeld, HeldAlone, Despawning, At
<1> QED BY <1>5, <1>9, <1>10 DEF BInv

LEMMA DespawnRequestInv ==
    ASSUME BInv, NEW w \in Workers, NEW i \in Ids, DespawnRequest(w, i)
    PROVE  BInv'
<1> DEFINE r == [at |-> "lookup", id |-> i, name |-> None]
<1>1. r \in Request /\ r.at = "lookup" /\ r.id = i
      BY DEF Request
<1>2. req' = [req EXCEPT ![w] = r]
      BY DEF DespawnRequest
<1> HIDE DEF r
<1>3. /\ req' \in [Workers -> Request \cup {None}] /\ req'[w] = r /\ r # None
      /\ \A v \in Workers \ {w} : req'[v] = req[v]
      BY <1>1, <1>2, NewRequest DEF BInv
<1>4. /\ req[w] = None /\ i \in issued
      /\ UNCHANGED <<kind, units, meta, issued, started, spoilt>>
      BY DEF DespawnRequest
<1>5. TypeOK'
      BY <1>3, <1>4 DEF BInv, TypeOK
<1>6. \A v \in Workers : \A step \in {"start", "register", "stop", "delete"} :
          At(v, step)' <=> At(v, step)
      BY <1>1, <1>3, <1>4 DEF At
<1>7. \A j, m : Holds(j, m)' <=> Holds(j, m)
      BY <1>3, <1>4, <1>6 DEF Holds, At
<1>8. IdsFresh'
      BY <1>1, <1>3, <1>4, <1>6 DEF BInv, IdsFresh, Spawning, Despawning, At
<1>9. RunningHeld' /\ HeldAlone'
      BY <1>3, <1>4, <1>6, <1>7 DEF BInv, RunningHeld, HeldAlone, Despawning, At
<1> QED BY <1>5, <1>8, <1>9 DEF BInv

(* A request that ends at lookup, or at start or stop without an effect.   *)
LEMMA EndsInv ==
    ASSUME BInv, NEW w \in Workers, Ends(w), ~At(w, "register"), ~At(w, "delete"),
           UNCHANGED <<kind, units, meta, issued, started>>,
           spoilt \subseteq spoilt', spoilt' \subseteq Names
    PROVE  BInv'
<1>1. /\ req' \in [Workers -> Request \cup {None}] /\ req'[w] = None
      /\ \A v \in Workers \ {w} : req'[v] = req[v]
      BY NoRequest DEF BInv
<1>2. TypeOK'
      BY <1>1 DEF BInv, TypeOK
<1>3. \A v \in Workers : \A step : At(v, step)' => At(v, step) /\ v # w
      BY <1>1 DEF At
<1>4. \A v \in Workers : \A step \in {"register", "delete"} :
          At(v, step) => At(v, step)' /\ v # w
      BY <1>1 DEF At
<1>5. \A j, m : Holds(j, m)' <=> Holds(j, m)
      BY <1>1, <1>3, <1>4 DEF Holds
<1>6. IdsFresh'
      BY <1>1, <1>3 DEF BInv, IdsFresh, Spawning, Despawning
<1>7. RunningHeld' /\ HeldAlone'
      BY <1>1, <1>3, <1>5 DEF BInv, RunningHeld, HeldAlone, Despawning
<1> QED BY <1>2, <1>6, <1>7 DEF BInv

-----------------------------------------------------------------------------
(* Spawn                                                                   *)

(* The command has brought the unit up.                                    *)
LEMMA StartsInv ==
    ASSUME BInv, NEW w \in Workers, At(w, "start"), Starts(w),
           kind # "systemd" => units[req[w].name] = "absent",
           UNCHANGED <<kind, meta, issued, spoilt>>
    PROVE  BInv'
<1> DEFINE n == req[w].name
           i == req[w].id
<1>1. n \in Names /\ i \in Ids /\ req[w] # None
      BY RequestTypes DEF BInv, Spawning, At
<1>2. units' = [units EXCEPT ![n] = "running"]
      BY DEF Starts
<1>3. CASE Goto(w, "register") /\ started' = started \cup {n}
      <2>1. /\ req' \in [Workers -> Request \cup {None}]
            /\ req'[w] # None /\ req'[w].at = "register" /\ req'[w].id = i
            /\ req'[w].name = n /\ \A v \in Workers \ {w} : req'[v] = req[v]
            BY <1>1, <1>3, GoesTo DEF BInv
      <2>2. TypeOK'
            BY <1>1, <1>2, <1>3, <2>1 DEF BInv, TypeOK
      <2>3. \A v \in Workers : \A step \in {"stop", "delete"} : At(v, step)' <=> At(v, step)
            BY <2>1 DEF At
      <2>4. \A v \in Workers : At(v, "register")' <=> At(v, "register") \/ v = w
            BY <2>1 DEF At
      <2>5. \A v \in Workers : At(v, "start")' => At(v, "start")
            BY <2>1 DEF At
      <2>6. IdsFresh'
            <3>1. \A v \in Workers :
                      /\ Spawning(v)' <=> Spawning(v)
                      /\ Despawning(v)' <=> Despawning(v)
                      /\ (req'[v] # None <=> req[v] # None)
                      /\ req'[v].id = req[v].id /\ req'[v].name = req[v].name
                  BY <1>1, <2>1, <2>3, <2>4 DEF Spawning, Despawning, At
            <3> QED BY <2>1, <3>1 DEF BInv, IdsFresh
      <2>7. \A j, m : Holds(j, m)' <=> Holds(j, m) \/ (j = i /\ m = n)
            BY <2>1, <2>3, <2>4 DEF Holds, At
      <2>8. RunningHeld'
            BY <1>1, <1>2, <1>3, <2>7 DEF BInv, RunningHeld, TypeOK
      <2>9. HeldAlone'
            <3> SUFFICES ASSUME kind # "systemd" PROVE HeldAlone'
                BY DEF HeldAlone
            <3>1. \A m \in Names \ spoilt, j \in Ids : Holds(j, m) => m # n
                  BY <1>1 DEF BInv, HeldAlone
            <3> QED BY <1>1, <1>2, <2>1, <2>3, <2>7, <3>1
                    DEF BInv, HeldAlone, Despawning, TypeOK
      <2> QED BY <2>2, <2>6, <2>8, <2>9 DEF BInv
<1>4. CASE Ends(w) /\ started' = IF units[n] = "running" THEN started ELSE started \ {n}
      <2>1. /\ req' \in [Workers -> Request \cup {None}] /\ req'[w] = None
            /\ \A v \in Workers \ {w} : req'[v] = req[v]
            BY <1>4, NoRequest DEF BInv
      <2>2. TypeOK'
            BY <1>1, <1>2, <1>4, <2>1 DEF BInv, TypeOK
      <2>3. \A v \in Workers : \A step : At(v, step)' => At(v, step) /\ v # w
            BY <2>1 DEF At
      <2>4. \A v \in Workers : \A step \in {"register", "delete"} :
                At(v, step) => At(v, step)' /\ v # w
            BY <2>1 DEF At
      <2>5. \A j, m : Holds(j, m)' <=> Holds(j, m)
            BY <2>1, <2>3, <2>4 DEF Holds
      <2>6. IdsFresh'
            BY <2>1, <2>3 DEF BInv, IdsFresh, Spawning, Despawning
      <2>7. RunningHeld'
            BY <1>1, <1>2, <1>4, <2>5 DEF BInv, RunningHeld, TypeOK
      <2>8. HeldAlone'
            BY <1>1, <1>2, <2>1, <2>3, <2>5 DEF BInv, HeldAlone, Despawning, TypeOK
      <2> QED BY <2>2, <2>6, <2>7, <2>8 DEF BInv
<1> QED BY <1>3, <1>4 DEF Starts

LEMMA SpawnInv ==
    ASSUME BInv, NEW w \in Workers, Spawn(w)
    PROVE  BInv'
<1>1. At(w, "start") /\ UNCHANGED <<kind, meta, issued, spoilt>>
      BY DEF Spawn
<1>2. CASE DockerSpawn(w) \/ KubernetesSpawn(w) \/ SystemdSpawn(w)
      BY <1>1, <1>2, StartsInv DEF DockerSpawn, KubernetesSpawn, SystemdSpawn
<1>3. CASE Ends(w) /\ UNCHANGED <<units, started>>
      BY <1>1, <1>3, EndsInv DEF At, BInv, TypeOK
<1> QED BY <1>2, <1>3 DEF Spawn

LEMMA RegisterInv ==
    ASSUME BInv, NEW w \in Workers, Register(w)
    PROVE  BInv'
<1> DEFINE n == req[w].name
           i == req[w].id
<1>1. n \in Names /\ i \in Ids /\ req[w] # None /\ At(w, "register") /\ n # None
      BY RequestTypes, BackendsAssumption DEF BInv, Spawning, At, Register
<1>2. /\ meta' = [meta EXCEPT ![i] = n]
      /\ UNCHANGED <<kind, units, issued, started, spoilt>>
      BY DEF Register
<1>3. /\ req' \in [Workers -> Request \cup {None}] /\ req'[w] = None
      /\ \A v \in Workers \ {w} : req'[v] = req[v]
      BY NoRequest DEF BInv, Register
<1>4. TypeOK'
      BY <1>1, <1>2, <1>3 DEF BInv, TypeOK
<1>5. \A v \in Workers : \A step : At(v, step)' <=> At(v, step) /\ v # w
      BY <1>3 DEF At
<1>6. /\ i \in issued /\ meta[i] = None
      /\ \A v \in Workers \ {w} : Spawning(v) \/ Despawning(v) => req[v].id # i
      BY <1>1 DEF BInv, IdsFresh, Spawning
<1>7. \A v \in Workers : (Spawning(v) \/ Despawning(v))' => meta'[req'[v].id] = meta[req[v].id]
      <2> SUFFICES ASSUME NEW v \in Workers, (Spawning(v) \/ Despawning(v))'
                   PROVE  meta'[req'[v].id] = meta[req[v].id]
          OBVIOUS
      <2>1. v # w /\ req'[v] = req[v] /\ (Spawning(v) \/ Despawning(v))
            BY <1>3, <1>5 DEF Spawning, Despawning
      <2>2. req[v].id \in Ids /\ req[v].id # i
            BY <1>6, <2>1, RequestTypes DEF BInv, Spawning, Despawning, At
      <2> QED BY <1>2, <2>1, <2>2 DEF BInv, TypeOK
<1>8. IdsFresh'
      <2>1. \A j \in Ids : meta'[j] # None => j \in issued'
            BY <1>1, <1>2, <1>6 DEF BInv, IdsFresh, TypeOK
      <2> QED BY <1>2, <1>3, <1>5, <1>7, <2>1
              DEF BInv, IdsFresh, Spawning, Despawning
<1>9. \A j \in Ids, m \in Names : Holds(j, m)' <=> Holds(j, m)
      <2> SUFFICES ASSUME NEW j \in Ids, NEW m \in Names
                   PROVE  Holds(j, m)' <=> Holds(j, m)
          OBVIOUS
      <2>1. CASE j = i
            <3>1. Holds(j, m)' <=> m = n
                  <4>1. meta'[i] = n
                        BY <1>1, <1>2 DEF BInv, TypeOK
                  <4>2. ASSUME NEW v \in Workers, At(v, "delete")' \/ At(v, "register")'
                        PROVE  req'[v].id # i
                        BY <1>3, <1>5, <1>6, <4>2 DEF Spawning, Despawning
                  <4> QED BY <2>1, <4>1, <4>2 DEF Holds
            <3>2. Holds(j, m) <=> m = n
                  BY <1>1, <1>6, <2>1, BackendsAssumption DEF Holds, Spawning
            <3> QED BY <2>1, <3>1, <3>2
      <2>2. CASE j # i
            <3>1. meta'[j] = meta[j]
                  BY <1>1, <1>2, <2>2 DEF BInv, TypeOK
            <3>2. \A v \in Workers : At(v, "delete")' <=> At(v, "delete")
                  BY <1>1, <1>5 DEF At
            <3>3. \A v \in Workers : At(v, "delete") => req'[v] = req[v]
                  BY <1>1, <1>3 DEF At
            <3>4. \A v \in Workers : At(v, "register")' /\ req'[v].id = j
                                         <=> At(v, "register") /\ req[v].id = j
                  BY <1>1, <1>3, <1>5, <2>2
            <3>5. \A v \in Workers : At(v, "register")' => req'[v] = req[v]
                  BY <1>3, <1>5
            <3> QED BY <3>1, <3>2, <3>3, <3>4, <3>5 DEF Holds
      <2> QED BY <2>1, <2>2
<1>10. RunningHeld'
       BY <1>2, <1>9 DEF BInv, RunningHeld, TypeOK
<1>11. HeldAlone'
       BY <1>2, <1>3, <1>5, <1>7, <1>9 DEF BInv, HeldAlone, Despawning
<1> QED BY <1>4, <1>8, <1>10, <1>11 DEF BInv

-----------------------------------------------------------------------------
(* Despawn                                                                 *)

LEMMA LookupInv ==
    ASSUME BInv, NEW w \in Workers, Lookup(w)
    PROVE  BInv'
<1> PICK i \in Ids : i = req[w].id
    BY RequestTypes DEF Lookup, At, BInv
<1> PICK n : n = meta[i]
    OBVIOUS
<1>1. /\ At(w, "lookup") /\ req[w] # None /\ n \in Names \cup {None}
      /\ spoilt' = IF n # None /\ Overlaps(w) THEN spoilt \cup {n} ELSE spoilt
      /\ UNCHANGED <<kind, units, meta, issued, started>>
      BY DEF Lookup, At, BInv, TypeOK
<1>2. spoilt \subseteq spoilt' /\ spoilt' \subseteq Names
      BY <1>1 DEF BInv, TypeOK
<1>3. CASE n = None
      BY <1>1, <1>2, <1>3, EndsInv DEF Lookup, Found, At
<1>4. CASE n # None
      <2> DEFINE r == [req[w] EXCEPT !.at = "stop", !.name = n]
      <2>1. r \in Request /\ r.at = "stop" /\ r.id = i /\ r.name = n
            BY <1>1, <1>4 DEF BInv, TypeOK, Request, At
      <2>2. req' = [req EXCEPT ![w] = r]
            BY <1>4 DEF Lookup, Found, BInv, TypeOK
      <2> HIDE DEF r
      <2>3. /\ req' \in [Workers -> Request \cup {None}] /\ req'[w] = r /\ r # None
            /\ \A v \in Workers \ {w} : req'[v] = req[v]
            BY <2>1, <2>2, NewRequest DEF BInv
      <2>4. TypeOK'
            BY <1>1, <1>2, <2>3 DEF BInv, TypeOK
      <2>5. \A v \in Workers : \A step \in {"start", "register", "delete"} :
                At(v, step)' <=> At(v, step)
            BY <1>1, <2>1, <2>3 DEF At
      <2>6. \A v \in Workers : At(v, "stop")' <=> At(v, "stop") \/ v = w
            BY <1>1, <2>1, <2>3 DEF At
      <2>7. \A v \in Workers \ {w} : /\ Spawning(v)' <=> Spawning(v)
                                     /\ Despawning(v)' <=> Despawning(v)
            BY <2>5, <2>6 DEF Spawning, Despawning
      <2>8. /\ ~Spawning(w)' /\ Despawning(w)' /\ meta[i] = n
            BY <1>1, <2>5, <2>6 DEF Spawning, Despawning, At
      <2>9. \A j, m : Holds(j, m)' <=> Holds(j, m)
            BY <1>1, <2>1, <2>3, <2>5 DEF Holds, At
      <2>10. IdsFresh'
             <3>1. \A v \in Workers : Spawning(v) => req[v].id # i
                   BY <1>4, <2>8 DEF BInv, IdsFresh
             <3>2. i \in issued
                   BY <1>4, <2>8 DEF BInv, IdsFresh
             <3> QED BY <1>1, <2>1, <2>3, <2>7, <2>8, <3>1, <3>2 DEF BInv, IdsFresh
      <2>11. RunningHeld'
             BY <1>1, <2>9 DEF BInv, RunningHeld
      <2>12. HeldAlone'
             <3>1. n \notin spoilt' =>
                       \A v \in Workers \ {w} : Despawning(v) => req[v].id # i
                   BY <1>1, <1>4 DEF Overlaps, Despawning, At
             <3> SUFFICES ASSUME kind # "systemd"
                          PROVE  HeldAlone'
                 BY <1>1 DEF HeldAlone
             <3>2. ASSUME NEW v \in Workers, Despawning(v)', req'[v].name \notin spoilt'
                   PROVE  /\ meta[req'[v].id] = req'[v].name
                          /\ \A x \in Workers \ {v} :
                                 Despawning(x)' => req'[x].id # req'[v].id
                   <4>1. CASE v = w
                         BY <2>1, <2>3, <2>7, <2>8, <3>1, <3>2, <4>1
                   <4>2. CASE v # w
                         <5>1. /\ Despawning(v) /\ req'[v] = req[v]
                               /\ req[v].name \notin spoilt
                               BY <1>2, <2>3, <2>7, <3>2, <4>2
                         <5>2. /\ meta[req[v].id] = req[v].name
                               /\ \A x \in Workers \ {v} :
                                      Despawning(x) => req[x].id # req[v].id
                               BY <5>1 DEF BInv, HeldAlone
                         <5>3. req[v].id # i
                               BY <2>8, <3>1, <3>2, <4>2, <5>1, <5>2
                         <5> QED BY <2>1, <2>3, <2>7, <5>1, <5>2, <5>3
                   <4> QED BY <4>1, <4>2
             <3> QED BY <1>1, <1>2, <2>9, <3>2 DEF BInv, HeldAlone
      <2> QED BY <2>4, <2>10, <2>11, <2>12 DEF BInv
<1> QED BY <1>3, <1>4

(* The command has taken the unit down, or it has failed.                  *)
LEMMA StopsInv ==
    ASSUME BInv, NEW w \in Workers, At(w, "stop"), Stops(w),
           UNCHANGED <<kind, meta, issued, started>>
    PROVE  BInv'
<1> PICK n \in Names : n = req[w].name
    BY RequestTypes DEF BInv, Despawning, At
<1> PICK i \in Ids : i = req[w].id
    BY RequestTypes DEF BInv, At
<1>1. req[w] # None /\ units' = [units EXCEPT ![n] = "absent"] /\ UNCHANGED spoilt
      BY DEF Stops, At
<1>2. /\ req' \in [Workers -> Request \cup {None}]
      /\ req'[w] # None /\ req'[w].at = "delete" /\ req'[w].id = i /\ req'[w].name = n
      /\ \A v \in Workers \ {w} : req'[v] = req[v]
      BY <1>1, GoesTo DEF BInv, Stops
<1>3. TypeOK'
      BY <1>1, <1>2 DEF BInv, TypeOK
<1>4. \A v \in Workers : \A step \in {"start", "register"} : At(v, step)' <=> At(v, step)
      BY <1>2 DEF At
<1>5. \A v \in Workers : At(v, "delete")' <=> At(v, "delete") \/ v = w
      BY <1>2 DEF At
<1>6. \A v \in Workers :
          /\ Spawning(v)' <=> Spawning(v)
          /\ Despawning(v)' <=> Despawning(v)
          /\ (req'[v] # None <=> req[v] # None)
          /\ req'[v].id = req[v].id /\ req'[v].name = req[v].name
      BY <1>1, <1>2 DEF Spawning, Despawning, At
<1>7. IdsFresh'
      BY <1>6 DEF BInv, IdsFresh
<1>8. /\ meta[i] \in {None, n}
      /\ \A v \in Workers : At(v, "register") => req[v].id # i
      <2>1. Despawning(w)
            BY DEF Despawning
      <2>2. ASSUME NEW v \in Workers, At(v, "register") PROVE req[v].id # i
            <3>1. Spawning(v) /\ v # w
                  BY <1>1, <2>2 DEF Spawning, At
            <3> QED BY <2>1, <3>1 DEF BInv, IdsFresh
      <2> QED BY <2>1, <2>2 DEF BInv, IdsFresh
<1>9. \A j \in Ids, m \in Names : Holds(j, m)' <=> Holds(j, m) /\ j # i
      <2> SUFFICES ASSUME NEW j \in Ids, NEW m \in Names
                   PROVE  Holds(j, m)' <=> Holds(j, m) /\ j # i
          OBVIOUS
      <2>1. CASE j = i
            <3>1. At(w, "delete")' /\ req'[w].id = j
                  BY <1>2, <2>1 DEF At
            <3>2. \A v \in Workers : At(v, "register")' => req'[v].id # j
                  BY <1>4, <1>6, <1>8, <2>1
            <3> QED BY <2>1, <3>1, <3>2 DEF Holds
      <2>2. CASE j # i
            BY <1>2, <1>4, <1>5, <1>6, <2>2 DEF Holds
      <2> QED BY <2>1, <2>2
<1>10. \A m \in Names \ {n} : \A j \in Ids : Holds(j, m)' <=> Holds(j, m)
       BY <1>8, <1>9, BackendsAssumption DEF Holds
<1>11. RunningHeld'
       BY <1>1, <1>10 DEF BInv, RunningHeld, TypeOK
<1>12. HeldAlone'
       <2> SUFFICES ASSUME kind # "systemd" PROVE HeldAlone'
           BY DEF HeldAlone
       <2>1. n \notin spoilt => Holds(i, n)
             <3> SUFFICES ASSUME n \notin spoilt PROVE Holds(i, n)
                 OBVIOUS
             <3>1. Despawning(w)
                   BY DEF Despawning
             <3>2. meta[i] = n
                   BY <3>1 DEF BInv, HeldAlone
             <3>3. \A v \in Workers \ {w} : At(v, "delete") => req[v].id # i
                   BY <3>1 DEF BInv, HeldAlone, Despawning
             <3> QED BY <3>2, <3>3 DEF Holds, At
       <2>2. n \notin spoilt => \A j \in Ids : ~Holds(j, n)'
             BY <1>9, <2>1 DEF BInv, HeldAlone
       <2>3. ASSUME NEW m \in Names \ spoilt', NEW j \in Ids, Holds(j, m)'
             PROVE  units'[m] # "absent" /\ \A k \in Ids : Holds(k, m)' => k = j
             <3>1. m # n /\ m \notin spoilt
                   BY <1>1, <2>2, <2>3
             <3> QED BY <1>1, <1>10, <2>3, <3>1 DEF BInv, HeldAlone, TypeOK
       <2> QED BY <1>1, <1>6, <2>3 DEF BInv, HeldAlone
<1> QED BY <1>3, <1>7, <1>11, <1>12 DEF BInv

LEMMA StopFailsInv ==
    ASSUME BInv, NEW w \in Workers, At(w, "stop"), StopFails(w),
           UNCHANGED <<kind, meta, issued, started>>
    PROVE  BInv'
<1> PICK n \in Names : n = req[w].name
    BY RequestTypes DEF BInv, Despawning, At
<1>1. /\ units' \in {units, [units EXCEPT ![n] = "absent"]}
      /\ spoilt' = spoilt \cup {n}
      BY DEF StopFails
<1>2. /\ req' \in [Workers -> Request \cup {None}] /\ req'[w] = None
      /\ \A v \in Workers \ {w} : req'[v] = req[v]
      BY NoRequest DEF BInv, StopFails, AfterFailure
<1>3. TypeOK'
      BY <1>1, <1>2 DEF BInv, TypeOK
<1>4. \A v \in Workers : \A step : At(v, step)' <=> At(v, step) /\ v # w
      BY <1>2 DEF At
<1>5. \A j, m : Holds(j, m)' <=> Holds(j, m)
      BY <1>2, <1>4 DEF Holds, At
<1>6. IdsFresh'
      BY <1>2, <1>4 DEF BInv, IdsFresh, Spawning, Despawning
<1>7. RunningHeld' /\ HeldAlone'
      BY <1>1, <1>2, <1>4, <1>5 DEF BInv, RunningHeld, HeldAlone, Despawning, TypeOK
<1> QED BY <1>3, <1>6, <1>7 DEF BInv

LEMMA DespawnInv ==
    ASSUME BInv, NEW w \in Workers, Despawn(w)
    PROVE  BInv'
BY StopsInv, StopFailsInv DEF Despawn, DockerDespawn, KubernetesDespawn, SystemdDespawn

LEMMA ForgetInv ==
    ASSUME BInv, NEW w \in Workers, Forget(w)
    PROVE  BInv'
<1> PICK n \in Names : n = req[w].name
    BY RequestTypes DEF BInv, Despawning, Forget, At
<1> PICK i \in Ids : i = req[w].id
    BY RequestTypes DEF BInv, Forget, At
<1>1. /\ At(w, "delete") /\ req[w] # None
      /\ meta' = [meta EXCEPT ![i] = None]
      /\ UNCHANGED <<kind, units, issued, started, spoilt>>
      BY DEF Forget, At
<1>2. /\ req' \in [Workers -> Request \cup {None}] /\ req'[w] = None
      /\ \A v \in Workers \ {w} : req'[v] = req[v]
      BY NoRequest DEF BInv, Forget
<1>3. TypeOK'
      BY <1>1, <1>2 DEF BInv, TypeOK
<1>4. \A v \in Workers : \A step : At(v, step)' <=> At(v, step) /\ v # w
      BY <1>2 DEF At
<1>5. \A j \in Ids, m \in Names : Holds(j, m)' <=> Holds(j, m)
      <2> SUFFICES ASSUME NEW j \in Ids, NEW m \in Names
                   PROVE  Holds(j, m)' <=> Holds(j, m)
          OBVIOUS
      <2>1. CASE j = i
            BY <1>1, <1>2, <1>4, <2>1, BackendsAssumption DEF Holds, BInv, TypeOK, At
      <2>2. CASE j # i
            BY <1>1, <1>2, <1>4, <2>2 DEF Holds, BInv, TypeOK, At
      <2> QED BY <2>1, <2>2
<1>6. IdsFresh'
      BY <1>1, <1>2, <1>4, RequestTypes
         DEF BInv, IdsFresh, Spawning, Despawning, TypeOK, At
<1>7. RunningHeld'
      BY <1>1, <1>5 DEF BInv, RunningHeld, TypeOK
<1>8. HeldAlone'
      <2> SUFFICES ASSUME kind # "systemd" PROVE HeldAlone'
          BY <1>1 DEF HeldAlone
      <2>1. ASSUME NEW v \in Workers, Despawning(v)', req'[v].name \notin spoilt'
            PROVE  /\ meta'[req'[v].id] = req'[v].name
                   /\ \A x \in Workers \ {v} : Despawning(x)' => req'[x].id # req'[v].id
            <3>1. v # w /\ req'[v] = req[v] /\ Despawning(v) /\ req[v].id \in Ids
                  BY <1>2, <1>4, <2>1, RequestTypes DEF Despawning, BInv, At
            <3>2. /\ meta[req[v].id] = req[v].name
                  /\ \A x \in Workers \ {v} : Despawning(x) => req[x].id # req[v].id
                  BY <1>1, <2>1, <3>1 DEF BInv, HeldAlone
            <3>3. req[v].id # i
                  BY <1>1, <3>1, <3>2 DEF Despawning
            <3> QED BY <1>1, <1>2, <1>4, <3>1, <3>2, <3>3 DEF Despawning, BInv, TypeOK
      <2> QED BY <1>1, <1>5, <2>1 DEF BInv, HeldAlone
<1> QED BY <1>3, <1>6, <1>7, <1>8 DEF BInv

-----------------------------------------------------------------------------
LEMMA UnitExitsInv ==
    ASSUME BInv, NEW n \in Names, UnitExits(n)
    PROVE  BInv'
<1>1. /\ units[n] = "running" /\ UNCHANGED <<kind, meta, req, issued, started, spoilt>>
      /\ units' = [units EXCEPT ![n] = IF kind = "systemd" THEN "absent" ELSE "exited"]
      BY DEF UnitExits
<1>2. TypeOK'
      BY <1>1 DEF BInv, TypeOK
<1>3. IdsFresh' /\ \A j, m : Holds(j, m)' <=> Holds(j, m)
      BY <1>1 DEF BInv, IdsFresh, Holds, Spawning, Despawning, At
<1>4. RunningHeld'
      BY <1>1, <1>3 DEF BInv, RunningHeld, TypeOK
<1>5. HeldAlone'
      BY <1>1, <1>3 DEF BInv, HeldAlone, Despawning, At, TypeOK
<1> QED BY <1>2, <1>3, <1>4, <1>5 DEF BInv

LEMMA RestartInv == BInv /\ Restart => BInv'
BY BackendsAssumption
   DEF Restart, BInv, TypeOK, IdsFresh, RunningHeld, HeldAlone, Holds, Spawning, Despawning,
       At

LEMMA NextInv == BInv /\ [Next]_vars => BInv'
<1> SUFFICES ASSUME BInv, [Next]_vars PROVE BInv'
    OBVIOUS
<1>1. CASE UNCHANGED vars
      BY <1>1 DEF vars, BInv, TypeOK, IdsFresh, RunningHeld, HeldAlone, Holds, Spawning,
                  Despawning, At
<1>2. CASE Next
      BY <1>2, SpawnRequestInv, DespawnRequestInv, SpawnInv, RegisterInv, LookupInv,
         DespawnInv, ForgetInv, UnitExitsInv, RestartInv DEF Next
<1> QED BY <1>1, <1>2

LEMMA SpecInv == Spec => []BInv
BY InitInv, NextInv, PTL DEF Spec

(* Variables keep their types.                                             *)
THEOREM TypesKept == Spec => []TypeOK
<1>1. BInv => TypeOK
      BY DEF BInv
<1> QED BY <1>1, SpecInv, PTL

(* No unit that was started is lost track of, whatever requests overlap.   *)
THEOREM NoUnitLost == Spec => []UnitsTracked
<1>1. BInv => UnitsTracked
      BY DEF BInv, RunningHeld, UnitsTracked, Holds
<1> QED BY <1>1, SpecInv, PTL

(* What docker and kubernetes list is there, once.                         *)
THEOREM ListsTheUnits == Spec => []ListedIsThere
<1>1. BInv => ListedIsThere
      <2> SUFFICES ASSUME BInv, kind # "systemd", NEW i \in Ids, meta[i] # None,
                          meta[i] \notin spoilt,
                          ~\E w \in Workers : At(w, "delete") /\ req[w].id = i
                   PROVE  /\ units[meta[i]] # "absent"
                          /\ \A j \in Ids \ {i} : meta[j] = meta[i] =>
                                 \E w \in Workers : At(w, "delete") /\ req[w].id = j
          BY DEF ListedIsThere
      <2>1. meta[i] \in Names \ spoilt /\ Holds(i, meta[i])
            BY DEF BInv, TypeOK, Holds
      <2> QED BY <2>1 DEF BInv, HeldAlone, Holds
<1> QED BY <1>1, SpecInv, PTL
=============================================================================
