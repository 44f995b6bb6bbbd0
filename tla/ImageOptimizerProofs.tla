------------------------ MODULE ImageOptimizerProofs ------------------------
(***************************************************************************)
(* That mode changed encodes only what changed and that no pass loses a    *)
(* deployment, for any images, contents and encoder, and with them the     *)
(* types of the optimizer.                                                 *)
(***************************************************************************)
EXTENDS ImageOptimizer, TLAPS

(* An entry of a manifest tells the content that was left behind, unless   *)
(* the image was deployed meanwhile; half files are never seen.            *)
OInv ==
    /\ TypeOK
    /\ files \in [Paths -> Contents]
    /\ Holding => i <= Len(Images)
    /\ at \in {"write", "rename"} => Shrinks(bytes)
    /\ Holding /\ Path \notin overrun => files[Path] = bytes
    /\ at = "encode" /\ mode = "changed" => bytes # manifest[Path]
    /\ \A p \in Paths : left[p] # None => left[p] = entries[p]
    /\ \A p \in Paths : settled[p] # None => settled[p] = manifest[p]

LEMMA PathsAreImages == \A n \in 1..Len(Images) : Images[n] \in Paths
BY ImagesAssumption DEF Paths

LEMMA NothingIsEmpty == Nothing \in Manifest /\ \A p \in Paths : Nothing[p] = None
BY DEF Nothing, Manifest

LEMMA OInvInit == Init => OInv
<1> SUFFICES ASSUME Init PROVE OInv
    OBVIOUS
<1>1. files \in [Paths -> Contents]
      BY ImagesAssumption DEF Init
<1>2. 1 \in 1..Len(Images) + 1
      BY ImagesAssumption
<1> QED BY <1>1, <1>2, NothingIsEmpty DEF Init, OInv, TypeOK, Modes, Holding

(* The walk leaves an image with the entry of what it has or of nothing.   *)
LEMMA DoneKeeps ==
    ASSUME OInv, i <= Len(Images), NEW entry \in Contents \cup {None}, Done(entry),
           files' \in [Paths -> Contents],
           entry # None /\ Path \notin overrun => files'[Path] = entry
    PROVE  OInv'
<1>1. Path \in Paths /\ i + 1 \in 1..Len(Images) + 1
      BY PathsAreImages, ImagesAssumption DEF Path, OInv, TypeOK
<1>2. /\ at' = "walk" /\ i' = i + 1 /\ bytes' = None
      /\ entries' = [entries EXCEPT ![Path] = entry]
      /\ left' = [left EXCEPT ![Path] =
                     IF entry = None \/ Path \in overrun THEN None ELSE files'[Path]]
      /\ UNCHANGED <<manifest, mode, latest, overrun, settled>>
      BY DEF Done
<1> PICK path : path = Path
    OBVIOUS
<1> PICK new : new = IF entry = None \/ path \in overrun THEN None ELSE files'[path]
    OBVIOUS
<1>3. /\ new \in Contents \cup {None} /\ new # None => new = entry
      /\ left' = [left EXCEPT ![path] = new] /\ entries' = [entries EXCEPT ![path] = entry]
      BY <1>1, <1>2
<1>4. left \in Manifest /\ entries \in Manifest
      BY DEF OInv, TypeOK
<1>5. /\ left' \in Manifest /\ entries' \in Manifest
      /\ \A p \in Paths : left'[p] # None => left'[p] = entries'[p]
      BY <1>1, <1>3, <1>4 DEF Manifest, OInv
<1> QED BY <1>1, <1>2, <1>5 DEF OInv, TypeOK, Holding

LEMMA EndKeeps ==
    ASSUME OInv, NEW next \in {"serve", "down"}, End(next), mode' \in Modes,
           manifest' \in Manifest, settled' \in Manifest,
           \A p \in Paths : settled'[p] # None => settled'[p] = manifest'[p]
    PROVE  OInv'
<1>1. 1 \in 1..Len(Images) + 1
      BY ImagesAssumption
<1> QED BY <1>1, NothingIsEmpty DEF End, OInv, TypeOK, Holding

(* The process has gone on with what it holds, and all of the rest stayed. *)
LEMMA GoesOn ==
    ASSUME OInv, UNCHANGED <<diskVars, entries, history>>
    PROVE  /\ files' \in [Paths -> Contents] /\ latest' \in [Paths -> Contents]
           /\ manifest' \in Manifest /\ entries' \in Manifest /\ left' \in Manifest
           /\ settled' \in Manifest /\ overrun' \subseteq Paths
           /\ \A p \in Paths : left'[p] # None => left'[p] = entries'[p]
           /\ \A p \in Paths : settled'[p] # None => settled'[p] = manifest'[p]
BY DEF diskVars, history, OInv, TypeOK

LEMMA DeployKeeps ==
    ASSUME OInv, NEW p \in Paths, NEW c \in Deployed, Deploy(p, c)
    PROVE  OInv'
<1>1. c \in Contents
      BY ImagesAssumption
<1>2. /\ files' = [files EXCEPT ![p] = c] /\ latest' = [latest EXCEPT ![p] = c]
      /\ overrun' = IF Holding /\ Path = p THEN overrun \cup {p} ELSE overrun \ {p}
      /\ UNCHANGED <<manifest, mode, at, i, passVars, left, settled>>
      BY DEF Deploy
<1>3. /\ files' \in [Paths -> Contents] /\ latest' \in [Paths -> Contents]
      /\ overrun' \subseteq Paths
      BY <1>1, <1>2 DEF OInv, TypeOK
<1>4. (Holding /\ Path \notin overrun => files[Path] = bytes)'
      BY <1>2, PathsAreImages DEF OInv, TypeOK, Path, Holding, passVars
<1> QED BY <1>2, <1>3, <1>4 DEF OInv, TypeOK, Path, Holding, passVars, Shrinks

LEMMA OInvKept ==
    ASSUME OInv, [Next]_vars
    PROVE  OInv'
<1>1. CASE UNCHANGED vars
      BY <1>1 DEF vars, diskVars, passVars, history, OInv, TypeOK, Path, Holding, Shrinks
<1>2. ASSUME NEW m \in Modes, StartWeb(m) PROVE OInv'
      BY <1>2, GoesOn DEF StartWeb, diskVars, passVars, history, OInv, TypeOK, Holding
<1>3. CASE loadManifest
      <2>1. CASE at' = "walk" /\ UNCHANGED <<files, i, passVars, latest, overrun, left>>
            BY <1>3, <2>1 DEF loadManifest, passVars, OInv, TypeOK, Holding
      <2>2. CASE End("serve")
            BY <1>3, <2>2, EndKeeps DEF loadManifest, OInv, TypeOK
      <2> QED BY <1>3, <2>1, <2>2 DEF loadManifest
<1>4. CASE Deadline \/ Stop
      BY <1>4, EndKeeps DEF Deadline, Stop, OInv, TypeOK, Modes
<1>5. CASE PassOver
      BY <1>5, DoneKeeps DEF PassOver, Keeps, Walking, OInv, TypeOK
<1>6. CASE Skip
      <2>1. Path \in Paths /\ i <= Len(Images)
            BY <1>6, PathsAreImages DEF Skip, Walking, Path, OInv, TypeOK
      <2>2. files[Path] \in Contents /\ Done(files[Path]) /\ files' = files
            BY <1>6, <2>1 DEF Skip, Keeps, OInv
      <2> QED BY <2>1, <2>2, DoneKeeps DEF OInv
<1>7. CASE ReadFile
      <2>1. Path \in Paths /\ i <= Len(Images)
            BY <1>7, PathsAreImages DEF ReadFile, Walking, Path, OInv, TypeOK
      <2>2. /\ at' = "encode" /\ bytes' = files[Path] /\ ~Known
            /\ UNCHANGED <<diskVars, mode, i, entries, history>>
            BY <1>7 DEF ReadFile
      <2>3. bytes' \in Contents /\ Path' = Path
            BY <2>1, <2>2 DEF OInv, Path
      <2> QED BY <2>1, <2>2, <2>3, GoesOn
              DEF diskVars, history, OInv, TypeOK, Holding, Known, Path
<1>8. CASE optimizeBytes
      <2>1. at = "encode" /\ bytes \in Contents /\ i <= Len(Images)
            BY <1>8 DEF optimizeBytes, OInv, TypeOK, Holding
      <2>2. CASE Shrinks(bytes)
            BY <1>8, <2>1, <2>2, GoesOn
               DEF optimizeBytes, diskVars, passVars, history, OInv, TypeOK, Holding, Path, Shrinks
      <2>3. CASE ~Shrinks(bytes)
            <3>1. Done(bytes) /\ files' = files
                  BY <1>8, <2>3 DEF optimizeBytes, Keeps
            <3> QED BY <2>1, <3>1, DoneKeeps DEF OInv, Holding
      <2> QED BY <2>2, <2>3
<1>9. CASE writeFileAtomic
      BY <1>9 DEF writeFileAtomic, WhileWriting, passVars, history, OInv, TypeOK, Holding, Path,
                  Shrinks
<1>10. CASE Rename
       <2>1. /\ bytes \in Contents /\ i <= Len(Images) /\ Shrinks(bytes) /\ Path \in Paths
             BY <1>10, PathsAreImages DEF Rename, OInv, TypeOK, Holding, Path
       <2>2. Written \in Contents
             BY <2>1, ImagesAssumption DEF Written, Shrinks
       <2>3. files' = [files EXCEPT ![Path] = Written] /\ Done(Written)
             BY <1>10 DEF Rename, Written
       <2>4. files' \in [Paths -> Contents] /\ files'[Path] = Written
             BY <2>1, <2>2, <2>3 DEF OInv
       <2> QED BY <2>1, <2>2, <2>3, <2>4, DoneKeeps
<1>11. CASE WriteFails
       <2>1. /\ bytes \in Contents /\ i <= Len(Images) /\ Done(bytes) /\ files' = files
             BY <1>11 DEF WriteFails, Keeps, OInv, TypeOK, Holding
       <2> QED BY <1>11, <2>1, DoneKeeps DEF WriteFails, OInv, Holding
<1>12. CASE saveManifest
       <2>1. /\ End("serve") /\ mode' = mode
             /\ \/ manifest' = entries /\ settled' = left
                \/ UNCHANGED <<manifest, settled>>
             BY <1>12 DEF saveManifest
       <2> QED BY <2>1, EndKeeps DEF OInv, TypeOK
<1>13. ASSUME NEW p \in Paths, NEW c \in Deployed, Deploy(p, c) PROVE OInv'
       BY <1>13, DeployKeeps
<1> QED BY <1>1, <1>2, <1>3, <1>4, <1>5, <1>6, <1>7, <1>8, <1>9, <1>10, <1>11, <1>12, <1>13
        DEF Next, Optimize

LEMMA OInvHolds == Spec => []OInv
<1>1. OInv /\ [Next]_vars => OInv'
      BY OInvKept
<1> QED BY OInvInit, <1>1, PTL DEF Spec

(* Types of the optimizer; with it, no pass ever meets half of a file.     *)
THEOREM OptimizerTypes == Spec => []TypeOK
<1>1. OInv => TypeOK
      BY DEF OInv
<1> QED BY <1>1, OInvHolds, PTL

(* In mode changed the pass never encodes again what the last pass that    *)
(* saved its manifest left, for a manifest tells what was left behind      *)
(* unless a deployment came in between.                                    *)
THEOREM UnchangedIsLeftAlone == Spec => []OnlyChanged
<1>1. OInv => OnlyChanged
      <2> SUFFICES ASSUME OInv, at = "encode", mode = "changed" PROVE bytes # settled[Path]
          BY DEF OnlyChanged
      <2>1. Path \in Paths /\ bytes \in Contents
            BY PathsAreImages DEF OInv, TypeOK, Holding, Path
      <2> QED BY <2>1, ImagesAssumption DEF OInv
<1> QED BY <1>1, OInvHolds, PTL

-----------------------------------------------------------------------------
LEMMA OwnReencoding == \A c \in Contents : c \in Reencodings[c]
BY DEF Reencodings

LEMMA ReencodingsClosed ==
    ASSUME NEW c \in Contents, NEW d \in Reencodings[c], Shrinks(d)
    PROVE  Encode[d] \in Reencodings[c]
<1>1. d \in Contents /\ Encode[d] \in Contents
      BY ImagesAssumption DEF Reencodings, Shrinks
<1>2. ASSUME NEW S \in SUBSET Contents,
             c \in S /\ \A x \in S : Shrinks(x) => Encode[x] \in S
      PROVE  Encode[d] \in S
      <2>1. d \in S
            BY <1>2 DEF Reencodings
      <2> QED BY <1>2, <2>1
<1> QED BY <1>1, <1>2 DEF Reencodings

(* The steps that change neither the files nor what was deployed.          *)
LEMMA FilesStay ==
    [Next]_vars =>
        \/ UNCHANGED <<files, latest, overrun>>
        \/ Rename
        \/ \E p \in Paths, c \in Deployed : Deploy(p, c)
BY DEF Next, Optimize, vars, diskVars, passVars, history, StartWeb, loadManifest, Deadline,
       PassOver, Skip, Keeps, Done, ReadFile, optimizeBytes, writeFileAtomic, WhileWriting,
       WriteFails, saveManifest, Stop, End

LEMMA DeploymentsKeptKept ==
    ASSUME OInv, DeploymentsKept, [Next]_vars
    PROVE  DeploymentsKept'
<1>1. CASE UNCHANGED <<files, latest, overrun>>
      BY <1>1 DEF DeploymentsKept
<1>2. CASE Rename
      <2>1. /\ bytes \in Contents /\ Shrinks(bytes) /\ Path \in Paths
            /\ Path \notin overrun => files[Path] = bytes
            BY <1>2, PathsAreImages DEF Rename, OInv, TypeOK, Holding, Path
      <2>2. /\ files' = [files EXCEPT ![Path] = Encode[bytes]]
            /\ UNCHANGED <<latest, overrun>>
            BY <1>2 DEF Rename, Done
      <2>3. ASSUME NEW p \in Paths \ overrun
            PROVE  files'[p] \in Reencodings[latest[p]]
            <3>1. latest[p] \in Contents /\ files[p] \in Reencodings[latest[p]]
                  BY DEF DeploymentsKept, OInv, TypeOK
            <3>2. CASE p = Path
                  <4>1. files'[p] = Encode[bytes] /\ files[p] = bytes
                        BY <2>1, <2>2, <3>2 DEF OInv
                  <4> QED BY <2>1, <3>1, <4>1, ReencodingsClosed
            <3>3. CASE p # Path
                  BY <2>2, <3>1, <3>3 DEF OInv
            <3> QED BY <3>2, <3>3
      <2> QED BY <2>2, <2>3 DEF DeploymentsKept
<1>3. ASSUME NEW p \in Paths, NEW c \in Deployed, Deploy(p, c)
      PROVE  DeploymentsKept'
      <2>1. /\ c \in Contents /\ c \in Reencodings[c]
            /\ files' = [files EXCEPT ![p] = c] /\ latest' = [latest EXCEPT ![p] = c]
            /\ overrun \ {p} \subseteq overrun'
            BY <1>3, ImagesAssumption, OwnReencoding DEF Deploy
      <2> QED BY <2>1 DEF DeploymentsKept, OInv, TypeOK
<1> QED BY <1>1, <1>2, <1>3, FilesStay

(* What is served of an image is the deployment or made from it: the pass  *)
(* renames over an image only what it has made of the bytes still there,   *)
(* unless the image was deployed while it held them.                       *)
THEOREM DeploymentsStay == Spec => []DeploymentsKept
<1>1. Init => DeploymentsKept
      BY OwnReencoding, ImagesAssumption DEF Init, DeploymentsKept
<1>2. DeploymentsKept /\ OInv /\ [Next]_vars => DeploymentsKept'
      BY DeploymentsKeptKept
<1> QED BY <1>1, <1>2, OInvHolds, PTL DEF Spec
=============================================================================
