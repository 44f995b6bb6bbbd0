------------------------------ MODULE Backfill ------------------------------
(***************************************************************************)
(* cmd/migrate o2ul-slice1-backfill: the copy of the profiles and of the   *)
(* system preferences of a legacy export, by a process that runs beside    *)
(* the API.  It looks every profile's user up, skips those it cannot find, *)
(* writes whole rows, stops at the first write that fails and is then      *)
(* started again from the beginning.                                       *)
(***************************************************************************)
EXTENDS Profiles, Preferences, Sequences

CONSTANTS
    Legacy,              \* the exported profiles: sequence of [user, row]
    LegacyPreferences    \* the exported preferences, or None

ASSUME BackfillAssumption ==
    /\ Legacy \in Seq([user : Users \cup {None}, row : Profile])
    /\ LegacyPreferences \in SystemPreferences \cup {None}

VARIABLE
    job     \* the run: its flags, its next call and what it has done

backfillVars == <<job>>

NoJob == [at |-> "idle", dry |-> FALSE, allow |-> FALSE, i |-> 1,
          imported |-> {}, unread |-> {}, prefs |-> FALSE]

BackfillTypeOK ==
    job \in [at : {"idle", "user", "upsert", "prefs", "done", "failed"},
             dry : BOOLEAN, allow : BOOLEAN, i : 1..(Len(Legacy) + 1),
             imported : SUBSET DOMAIN Legacy, unread : SUBSET DOMAIN Legacy,
             prefs : BOOLEAN]

BackfillInit == job = NoJob

tableVars == <<profileVars, preferenceVars>>

Running == job.at \in {"user", "upsert", "prefs"}

(* As often as wanted, with the flags --dry-run and --allow-missing-users. *)
StartBackfill ==
    /\ ~Running
    /\ \E dry, allow \in BOOLEAN :
           job' = [NoJob EXCEPT !.at = IF Legacy = << >> THEN "prefs" ELSE "user",
                                !.dry = dry, !.allow = allow]
    /\ UNCHANGED tableVars

Proceed(j) == [j EXCEPT !.i = @ + 1, !.at = IF j.i = Len(Legacy) THEN "prefs" ELSE "user"]

(* Mutant of Skips: the flag is not looked at.                             *)
SkipsNobody(err, allow) == FALSE

Skips(err, allow) == err /\ ~allow

(* ByID errs for a missing user, and for a read that fails.                *)
LookUpUser ==
    /\ job.at = "user"
    /\ LET e == Legacy[job.i] IN
       IF e.user = None THEN job' = Proceed(job)
       ELSE \E err \in BOOLEAN :
              LET j == [job EXCEPT !.unread =
                          IF err /\ e.user \in Registered /\ ~job.allow /\ ~job.dry
                          THEN @ \cup {job.i} ELSE @]
              IN /\ e.user \notin Registered => err
                 /\ job' = IF Skips(err, job.allow) \/ job.dry THEN Proceed(j)
                           ELSE [j EXCEPT !.at = "upsert"]
    /\ UNCHANGED tableVars

ImportProfile ==
    /\ job.at = "upsert"
    /\ LET e == Legacy[job.i] IN
       /\ profiles' = [profiles EXCEPT ![e.user] = e.row]
       /\ preq' = Overrun(preq, e.user)
       /\ acked' = [acked EXCEPT ![e.user] = e.row]
       /\ disturbed' = disturbed \ {e.user}
    /\ job' = Proceed([job EXCEPT !.imported = @ \cup {job.i}])
    /\ UNCHANGED preferenceVars

(* normalizeLegacyPreferences: an unknown mode becomes live.               *)
Normalized(p) == [p EXCEPT !.mode = IF @ \in {"live", "beta"} THEN @ ELSE "live"]

ImportPreferences ==
    /\ job.at = "prefs"
    /\ job' = [job EXCEPT !.at = "done", !.prefs = TRUE]
    /\ IF LegacyPreferences = None \/ job.dry
         THEN UNCHANGED preferenceVars
         ELSE /\ StoreSystem(Normalized(LegacyPreferences))
              /\ chosen' = Normalized(LegacyPreferences)
              /\ mislaid' = {}
              /\ sreq' = OverrunUpdates(sreq)
              /\ UNCHANGED playerVars
    /\ UNCHANGED profileVars

(* A write fails, or the command is interrupted.                           *)
BackfillFails ==
    /\ Running
    /\ job' = [NoJob EXCEPT !.at = "failed"]
    /\ UNCHANGED tableVars

BackfillNext ==
    \/ StartBackfill \/ LookUpUser \/ ImportProfile \/ ImportPreferences \/ BackfillFails

-----------------------------------------------------------------------------
(* A run that ends without an error has imported every exported profile    *)
(* that names a user.  Without --allow-missing-users it leaves out those   *)
(* whose user it could not read although the user exists, and has imported *)
(* nobody who is missing from the users table; a dry run imports nobody.   *)
ImportComplete ==
    job.at = "done" =>
        LET known(i) == Legacy[i].user \in Registered
            named == {i \in DOMAIN Legacy : Legacy[i].user # None}
        IN  IF job.dry THEN job.imported = {}
            ELSE /\ {i \in named : (known(i) \/ job.allow) /\ i \notin job.unread}
                        \subseteq job.imported
                 /\ job.allow \/ \A i \in job.imported : known(i)
=============================================================================
