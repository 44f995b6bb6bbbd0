------------------------------- MODULE Files -------------------------------
(***************************************************************************)
(* The o2ul_files table: file records by id and by owner and MD5.  The id  *)
(* is made from the clock; removal reads the row, compares the owner and   *)
(* deletes the key, two calls.                                             *)
(***************************************************************************)
EXTENDS Requests

CONSTANT Hashes   \* MD5 sums of the files' contents

FileRow == [user : Users, md5 : Hashes]

ASSUME NoneIsNoFile == None \notin FileRow

VARIABLES
    files,     \* the table: id -> row, or None
    freq,      \* the removal each worker is doing, or None
    owned,     \* files added (id, row) that no owner asked to remove
    given,     \* ids some request was given
    shared     \* ids two requests were given

fileVars == <<files, freq, owned, given, shared>>

FRequest == [at : {"get", "delete"}, user : Users, id : Times]

FilesTypeOK ==
    /\ files \in [Times -> FileRow \cup {None}]
    /\ freq \in [Workers -> FRequest \cup {None}]
    /\ owned \subseteq Times \X FileRow
    /\ given \subseteq Times /\ shared \subseteq given

FilesInit ==
    /\ files = [id \in Times |-> None]
    /\ freq = [w \in Workers |-> None]
    /\ owned = {}
    /\ given = {} /\ shared = {}

-----------------------------------------------------------------------------
(* Create is a Set under the id, which overwrites a row of the same id.    *)
AddFile(u, md5) ==
    LET row == [user |-> u, md5 |-> md5] IN
    /\ files' = [files EXCEPT ![now] = row]
    /\ owned' = owned \cup {<<now, row>>}
    /\ given' = given \cup {now}
    /\ shared' = shared \cup (given \cap {now})
    /\ UNCHANGED freq

(* Clients name ids they have been given.                                  *)
HandleRemoveFile(w, u, id) ==
    /\ freq[w] = None /\ id \in given
    /\ freq' = [freq EXCEPT ![w] = [at |-> "get", user |-> u, id |-> id]]
    /\ owned' = {f \in owned : f[1] # id \/ f[2].user # u}
    /\ UNCHANGED <<files, given, shared>>

(* Mutant of MayRemove: any player removes any file.                       *)
AnyoneRemoves(u, id) == files[id] # None

MayRemove(u, id) == files[id] # None /\ files[id].user = u

(* RemoveFile: a read that fails, finds nothing or another owner ends it.  *)
RemoveFile(w) ==
    /\ freq[w] # None /\ freq[w].at = "get"
    /\ \/ /\ MayRemove(freq[w].user, freq[w].id)
          /\ freq' = [freq EXCEPT ![w].at = "delete"]
       \/ freq' = [freq EXCEPT ![w] = None]
    /\ UNCHANGED <<files, owned, given, shared>>

DeleteFile(w) ==
    /\ freq[w] # None /\ freq[w].at = "delete"
    /\ files' = [files EXCEPT ![freq[w].id] = None]
    /\ freq' = [freq EXCEPT ![w] = None]
    /\ UNCHANGED <<owned, given, shared>>

FilesNext ==
    \/ \E u \in Users : \/ \E h \in Hashes : AddFile(u, h)
                        \/ \E w \in Workers, id \in Times : HandleRemoveFile(w, u, id)
    \/ \E w \in Workers : RemoveFile(w) \/ DeleteFile(w)

FilesSpec ==
    /\ ClockInit /\ FilesInit
    /\ [][\/ FilesNext /\ UNCHANGED now
          \/ Tick /\ UNCHANGED fileVars]_<<now, fileVars>>

-----------------------------------------------------------------------------
GetStorageID(u, id) == IF MayRemove(u, id) THEN files[id] ELSE None

GetFileByMD5(u, md5) == {id \in Times : files[id] = [user |-> u, md5 |-> md5]}

(* A file stays with its owner, under its id and under its MD5, until the  *)
(* owner asks to remove it: the Delete of another request, however late,   *)
(* never takes it, unless two requests got one id.                         *)
FilesKept ==
    \A f \in owned :
        f[1] \notin shared => /\ GetStorageID(f[2].user, f[1]) = f[2]
                              /\ f[1] \in GetFileByMD5(f[2].user, f[2].md5)
=============================================================================
