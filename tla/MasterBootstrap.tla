--------------------------- MODULE MasterBootstrap ---------------------------
(***************************************************************************)
(* The start of the API process around Accounts: the migrations, then      *)
(* ensureMasterAdmin, then the HTTP server.  The configured master admin   *)
(* (MASTER_ADMIN_EMAIL) may change between two starts.  While the process  *)
(* boots nothing else writes the tables, so UpdateRole is one action here. *)
(***************************************************************************)
EXTENDS Accounts

CONSTANTS
    Masters,          \* values of MASTER_ADMIN_EMAIL; None: not configured
    MasterPassword,
    StoreMayFail      \* may a store call of the bootstrap return an error?

ASSUME BootstrapAssumption ==
    /\ Masters \subseteq Users \cup {None}
    /\ MasterPassword \in Passwords
    /\ StoreMayFail \in BOOLEAN

VARIABLES
    phase,        \* how far the API process is
    configured,   \* MASTER_ADMIN_EMAIL of this start
    extra         \* other masters that List returned, yet to be demoted

bvars == <<vars, phase, configured, extra>>

Booting == {"migrate", "lookup", "create", "promote", "list", "demote"}
Phases  == Booting \cup {"down", "serving", "fatal"}

BTypeOK ==
    /\ TypeOK
    /\ phase \in Phases
    /\ configured \in Users \cup {None}
    /\ extra \subseteq Users

(* Before the first start the table may hold several masters: the index    *)
(* came with a later release.                                              *)
BInit ==
    /\ users \in InitialStores
    /\ resetTokens = [t \in Tokens |-> None]
    /\ mailed = {}
    /\ sessions = {}
    /\ indexed = FALSE
    /\ req = [w \in Workers |-> Idle]
    /\ phase = "down"
    /\ configured = None
    /\ extra = {}

Start(m) ==
    /\ phase \in {"down", "fatal"}
    /\ phase' = "migrate"
    /\ configured' = m
    /\ extra' = {}
    /\ UNCHANGED vars

(* Migration 000002_enforce_single_master_admin keeps the oldest master    *)
(* and creates the unique index; once it has run it has nothing to do.     *)
(* A second file of migrations/ has the same number, and which of the two  *)
(* counts as applied is up to the datastore library: a database may never  *)
(* get this one.                                                           *)
Migrate ==
    /\ phase = "migrate"
    /\ \/ UNCHANGED <<users, indexed>>
       \/ /\ ~indexed
          /\ indexed' = TRUE
          /\ \E oldest \in MastersOf(users) \cup {None} :
                 /\ oldest = None <=> MastersOf(users) = {}
                 /\ users' = [u \in Users |->
                        IF u \in MastersOf(users) \ {oldest}
                          THEN [users[u] EXCEPT !.role = "admin"] ELSE users[u]]
    /\ phase' = IF configured = None THEN "serving" ELSE "lookup"
    /\ UNCHANGED <<resetTokens, mailed, sessions, req, configured, extra>>

(* Mutant of Lookup: an existing user is taken for a master.              *)
LookupTrusts ==
    /\ phase = "lookup"
    /\ phase' = IF users[configured] = None THEN "create" ELSE "list"
    /\ UNCHANGED <<vars, configured, extra>>

Lookup ==
    /\ phase = "lookup"
    /\ phase' = IF users[configured] = None THEN "create"
                ELSE IF users[configured].role = "master_admin" THEN "list"
                ELSE "promote"
    /\ UNCHANGED <<vars, configured, extra>>

(* Register runs here before WithSMTPConfig, so it does not ask for SMTP.  *)
(* The index refuses a second master, and the process stops.               *)
CreateMaster ==
    /\ phase = "create"
    /\ \/ /\ CreateRow(configured, MasterPassword, "master_admin")
          /\ phase' = "list"
       \/ /\ ~IndexAllows(configured, "master_admin")
          /\ phase' = "fatal"
          /\ UNCHANGED users
    /\ UNCHANGED <<resetTokens, mailed, sessions, indexed, req, configured, extra>>

PromoteMaster ==
    /\ phase = "promote"
    /\ IF IndexAllows(configured, "master_admin")
         THEN /\ users' = [users EXCEPT ![configured].role = "master_admin"]
              /\ phase' = "list"
         ELSE /\ phase' = "fatal"
              /\ UNCHANGED users
    /\ UNCHANGED <<resetTokens, mailed, sessions, indexed, req, configured, extra>>

(* Mutant of ListUsers: the other masters are not demoted.                 *)
ListOnly ==
    /\ phase = "list"
    /\ phase' = "serving"
    /\ UNCHANGED <<vars, configured, extra>>

ListUsers ==
    /\ phase = "list"
    /\ extra' = MastersOf(users) \ {configured}
    /\ phase' = IF extra' = {} THEN "serving" ELSE "demote"
    /\ UNCHANGED <<vars, configured>>

DemoteExtra(u) ==
    /\ phase = "demote"
    /\ u \in extra
    /\ users' = [users EXCEPT ![u].role = "admin"]
    /\ extra' = extra \ {u}
    /\ phase' = IF extra' = {} THEN "serving" ELSE "demote"
    /\ UNCHANGED <<resetTokens, mailed, sessions, indexed, req, configured>>

(* log.Fatalf: a call failed or the 10 seconds of the start are over.      *)
BootFails ==
    /\ StoreMayFail
    /\ phase \in Booting
    /\ phase' = "fatal"
    /\ UNCHANGED <<vars, configured, extra>>

(* The process ends, in whatever phase, by a signal or a crash.            *)
Stop ==
    /\ phase \notin {"down", "fatal"}
    /\ phase' = "down"
    /\ Crash
    /\ UNCHANGED <<configured, extra>>

Serve ==
    /\ phase = "serving"
    /\ Next
    /\ UNCHANGED <<phase, configured, extra>>

BNext ==
    \/ \E m \in Masters : Start(m)
    \/ Migrate \/ Lookup \/ CreateMaster \/ PromoteMaster \/ ListUsers
    \/ \E u \in extra : DemoteExtra(u)
    \/ BootFails \/ Stop \/ Serve

BSpec == BInit /\ [][BNext]_bvars

-----------------------------------------------------------------------------
(* From the migration that made the index on, through restarts with other  *)
(* configurations, failed bootstraps and everything the handlers write     *)
(* while serving, the table never holds two masters.                       *)
AtMostOneMaster == indexed => Cardinality(MastersOf(users)) <= 1

(* A start that reaches the server with a configured master leaves exactly *)
(* that user in the role, whoever held it before and whatever was written  *)
(* to its row in earlier lives of the process.                             *)
BootEstablishesMaster ==
    [][phase # "serving" /\ phase' = "serving" /\ configured # None
           => MastersOf(users') = {configured}]_bvars

(* While the server runs nobody but the configured user is master, also    *)
(* when a slow request writes back a row it read before a demotion: that   *)
(* revives at most the configured master, for requests die with their      *)
(* process and cannot carry the master of an earlier configuration over.   *)
OnlyConfiguredMaster ==
    phase = "serving" /\ configured # None => MastersOf(users) \subseteq {configured}

-----------------------------------------------------------------------------
(* README.md: "Exactly one master_admin is enforced via startup            *)
(* reconciliation plus DB uniqueness."                                     *)
ExactlyOneMaster ==
    phase = "serving" /\ configured # None => Cardinality(MastersOf(users)) = 1

(* The same line, read for the start: reconciliation does not give up on a *)
(* healthy store.                                                          *)
BootReconciles == phase # "fatal"
=============================================================================
