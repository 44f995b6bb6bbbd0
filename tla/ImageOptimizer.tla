--------------------------- MODULE ImageOptimizer ---------------------------
(***************************************************************************)
(* The pass over the images of the web root that cmd/web makes before it   *)
(* serves: in mode changed it leaves alone what the manifest of an earlier *)
(* pass says it has seen, and saves the next manifest at its very end; in  *)
(* mode all it uses none.  Deployments write images at any time, any read  *)
(* or write may fail, the deadline may cut the pass between two files, and *)
(* the process may die at any point.                                       *)
(*                                                                         *)
(* A content stands for a file's bytes and so for its fingerprint.  The    *)
(* temporary files of both writes are left out: no pass reads them.        *)
(***************************************************************************)
EXTENDS Integers, Sequences

CONSTANTS
    Images,      \* the paths of the images, in the order of the walk
    Contents,
    Size,        \* content -> bytes
    Encode,      \* content -> what encoding it again gives, None if undecodable
    Deployed,    \* the contents deployments write
    Torn,        \* half of a file
    None

Paths == {Images[i] : i \in DOMAIN Images}

ASSUME ImagesAssumption ==
    /\ Images \in Seq(Paths)
    /\ Size \in [Contents -> Nat] /\ Encode \in [Contents -> Contents \cup {None}]
    /\ Deployed \subseteq Contents
    /\ Torn \notin Contents /\ None \notin Contents \cup {Torn}

VARIABLES
    files,       \* path -> content
    manifest,    \* path -> the content a pass recorded, or None
    mode,        \* the mode of the running process
    at,          \* what the process is doing
    i,           \* the image the walk is at
    bytes,       \* the content it has read
    entries,     \* the manifest it will save
    latest,      \* path -> the content deployed last
    overrun,     \* images deployed while the pass held their bytes
    left,        \* path -> the content the pass left behind, or None
    settled      \* the same of the last pass that saved its manifest

diskVars == <<files, manifest>>
passVars == <<bytes, entries>>
history  == <<latest, overrun, left, settled>>
vars     == <<diskVars, mode, at, i, passVars, history>>

Modes    == {"off", "changed", "all"}
Manifest == [Paths -> Contents \cup {None}]
Nothing  == [p \in Paths |-> None]

TypeOK ==
    /\ files \in [Paths -> Contents \cup {Torn}] /\ latest \in [Paths -> Contents]
    /\ manifest \in Manifest /\ entries \in Manifest
    /\ left \in Manifest /\ settled \in Manifest
    /\ mode \in Modes /\ i \in 1..Len(Images) + 1
    /\ at \in {"down", "load", "walk", "encode", "write", "rename", "serve"}
    /\ bytes \in IF at \in {"encode", "write", "rename"} THEN Contents ELSE {None}
    /\ overrun \subseteq Paths

Init ==
    /\ files \in [Paths -> Deployed] /\ latest = files
    /\ manifest = Nothing /\ entries = Nothing
    /\ left = Nothing /\ settled = Nothing
    /\ mode = "off" /\ at = "down" /\ i = 1
    /\ bytes = None /\ overrun = {}

-----------------------------------------------------------------------------
Path == Images[i]

Holding == at \in {"encode", "write", "rename"}

(* Leaves the image at hand, with the entry of it in the next manifest.    *)
Done(entry) ==
    /\ at' = "walk" /\ i' = i + 1 /\ bytes' = None
    /\ entries' = [entries EXCEPT ![Path] = entry]
    /\ left' = [left EXCEPT ![Path] =
                   IF entry = None \/ Path \in overrun THEN None ELSE files'[Path]]
    /\ UNCHANGED <<manifest, mode, latest, overrun, settled>>

Keeps(entry) == UNCHANGED files /\ Done(entry)

(* The end of a pass, with what it held.                                   *)
End(next) ==
    /\ at' = next /\ i' = 1
    /\ entries' = Nothing /\ left' = Nothing /\ bytes' = None
    /\ UNCHANGED <<files, latest, overrun>>

StartWeb(m) ==
    /\ at = "down"
    /\ mode' = m
    /\ at' = IF m = "off" THEN "serve" ELSE "load"
    /\ UNCHANGED <<diskVars, i, passVars, history>>

(* A missing manifest is an empty one; one that cannot be read ends the    *)
(* pass, and serving begins.  Nobody but the pass writes the manifest, so  *)
(* that what it loads is what stays there until it saves.                  *)
loadManifest ==
    /\ at = "load"
    /\ \/ at' = "walk" /\ UNCHANGED <<files, i, passVars, latest, overrun, left>>
       \/ mode = "changed" /\ End("serve")
    /\ UNCHANGED <<manifest, mode, settled>>

Walking == at = "walk" /\ i <= Len(Images)

(* The walk asks for the deadline before each image; an image that cannot  *)
(* be read is passed over, without an entry.                               *)
Deadline ==
    /\ Walking /\ End("serve")
    /\ UNCHANGED <<manifest, mode, settled>>

(* Mutant of PassOver: the error of the read is dropped.                   *)
ErrorDropped ==
    /\ Walking /\ at' = "encode"
    /\ UNCHANGED <<diskVars, mode, i, passVars, history>>

PassOver == Walking /\ Keeps(None)

Known == mode = "changed" /\ manifest[Path] = files[Path]

Skip == Walking /\ Known /\ Keeps(files[Path])

ReadFile ==
    /\ Walking /\ ~Known
    /\ at' = "encode" /\ bytes' = files[Path]
    /\ UNCHANGED <<diskVars, mode, i, entries, history>>

(* Undecodable images and those that get no smaller stay as they are, and  *)
(* are recorded as done.                                                   *)
Shrinks(c) == Encode[c] # None /\ Size[Encode[c]] < Size[c]

optimizeBytes ==
    /\ at = "encode"
    /\ IF Shrinks(bytes)
       THEN at' = "write" /\ UNCHANGED <<diskVars, mode, i, passVars, history>>
       ELSE Keeps(bytes)

(* Mutant of WhileWriting: the file is written in place.                   *)
InPlace == [files EXCEPT ![Path] = Torn]

WhileWriting == files

(* writeFileAtomic writes beside the file and renames; an image one of the *)
(* two fails for is recorded as done with the bytes it has.                *)
writeFileAtomic ==
    /\ at = "write"
    /\ at' = "rename" /\ files' = WhileWriting
    /\ UNCHANGED <<manifest, mode, i, passVars, history>>

(* Mutant of Written: the entry is that of the bytes that were read.        *)
BytesRead == bytes

Written == Encode[bytes]

Rename ==
    /\ at = "rename"
    /\ files' = [files EXCEPT ![Path] = Encode[bytes]]
    /\ Done(Written)

(* Mutant of WriteFails: the image is tried again.                         *)
RetryWrite ==
    /\ at \in {"write", "rename"} /\ at' = "write"
    /\ UNCHANGED <<diskVars, mode, i, passVars, history>>

WriteFails == at \in {"write", "rename"} /\ Keeps(bytes)

(* Mode changed saves the manifest, when all images have been visited.     *)
saveManifest ==
    /\ at = "walk" /\ i > Len(Images) /\ End("serve")
    /\ \/ mode = "changed" /\ manifest' = entries /\ settled' = left
       \/ UNCHANGED <<manifest, settled>>
    /\ UNCHANGED mode

(* The process ends, in the pass or later.                                 *)
Stop ==
    /\ at # "down" /\ End("down") /\ mode' = "off"
    /\ UNCHANGED <<manifest, settled>>

Deploy(p, c) ==
    /\ files' = [files EXCEPT ![p] = c]
    /\ latest' = [latest EXCEPT ![p] = c]
    /\ overrun' = IF Holding /\ Path = p THEN overrun \cup {p} ELSE overrun \ {p}
    /\ UNCHANGED <<manifest, mode, at, i, passVars, left, settled>>

Optimize ==
    \/ loadManifest \/ Deadline \/ PassOver \/ Skip \/ ReadFile \/ optimizeBytes
    \/ writeFileAtomic \/ Rename \/ WriteFails \/ saveManifest

Next ==
    \/ Optimize \/ Stop
    \/ \E m \in Modes : StartWeb(m)
    \/ \E p \in Paths, c \in Deployed : Deploy(p, c)

(* The pass is ordinary sequential code, which goes on if it can.          *)
Spec == Init /\ [][Next]_vars /\ WF_vars(Optimize)

-----------------------------------------------------------------------------
(* What encoding again and again makes of a content: the least set that    *)
(* has it and the encodings of its own that are smaller.                   *)
Reencodings[c \in Contents] ==
    {d \in Contents : \A S \in SUBSET Contents :
        c \in S /\ (\A x \in S : Shrinks(x) => Encode[x] \in S) => d \in S}

(* What is served of an image is what was deployed last, or smaller        *)
(* encodings of it made one from the other, whatever write failed or       *)
(* process died; only a deployment that falls between the read and the     *)
(* rename of its image is written over.                                    *)
DeploymentsKept ==
    \A p \in Paths \ overrun : files[p] \in Reencodings[latest[p]]

(* Mode changed encodes only what changed: not the content the last pass   *)
(* that saved its manifest left behind, though that pass may have written  *)
(* it, and passes in other modes or cut short may have run since.          *)
OnlyChanged ==
    at = "encode" /\ mode = "changed" => bytes # settled[Path]

(* Startup goes on: a pass ends, and the server serves, whatever fails.    *)
ServesAfterPass == at \notin {"down", "serve"} ~> at \in {"down", "serve"}
=============================================================================
