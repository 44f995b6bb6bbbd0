------------------------------ MODULE Platform ------------------------------
(***************************************************************************)
(* The O2UL endpoints and the backfill together.  The tables and the two   *)
(* halves of the wallet share the clock and the workers but no row, so     *)
(* that their product shows nothing their separate behaviours do not:      *)
(* focus, chosen at the start, names the one whose requests run.  The      *)
(* backfill does write rows the handlers write, and runs beside the        *)
(* requests of both its tables.                                            *)
(***************************************************************************)
EXTENDS Backfill, Presence, Notifications, Files, Wallet

CONSTANTS
    Subjects,   \* bound: the players whose profile, settings and presence change
    MaxBusy     \* bound of the requests in flight beside the backfill

VARIABLE focus

importVars   == <<profileVars, preferenceVars, backfillVars>>
platformVars == <<now, focus, importVars, presenceVars, notificationVars, fileVars,
                  walletVars>>

Foci == {"profiles", "system", "players", "importProfiles",
         "importSystem", "presence", "subscriptions", "pending", "files", "spending", "proving"}

PlatformTypeOK ==
    /\ focus \in Foci /\ now \in Times
    /\ ProfilesTypeOK /\ PreferencesTypeOK /\ BackfillTypeOK
    /\ PresenceTypeOK /\ NotificationsTypeOK /\ FilesTypeOK /\ WalletTypeOK

PlatformInit ==
    /\ focus \in Foci
    /\ ClockInit /\ ProfilesInit /\ PreferencesInit /\ BackfillInit
    /\ PresenceInit /\ NotificationsInit /\ FilesInit /\ WalletInit

Busy(reqs) == {w \in Workers : reqs[w] # None}

OfSubjects(reqs) == \A w \in Busy(reqs) : reqs[w].user \in Subjects

HandleProfiles == ProfilesNext /\ OfSubjects(preq')

HandlePlayers ==
    /\ PlayersNext
    /\ \A u \in Users \ Subjects : settings'[u] = None /\ subscribed'[u] = None

(* The backfill, beside the requests that write one of its tables.         *)
ImportProfiles ==
    \/ BackfillNext
    \/ /\ HandleProfiles /\ Cardinality(Busy(preq')) <= MaxBusy
       /\ UNCHANGED <<preferenceVars, backfillVars>>

ImportSystem ==
    \/ BackfillNext
    \/ /\ SystemNext /\ Cardinality(Busy(sreq')) <= MaxBusy
       /\ UNCHANGED <<profileVars, backfillVars>>

Handle ==
    \/ /\ \/ focus = "profiles" /\ HandleProfiles /\ UNCHANGED <<preferenceVars, backfillVars>>
          \/ focus = "system"   /\ SystemNext     /\ UNCHANGED <<profileVars, backfillVars>>
          \/ focus = "players"  /\ HandlePlayers  /\ UNCHANGED <<profileVars, backfillVars>>
          \/ focus = "importProfiles" /\ ImportProfiles
          \/ focus = "importSystem"   /\ ImportSystem
       /\ UNCHANGED <<presenceVars, notificationVars, fileVars, walletVars>>
    \/ /\ focus = "presence" /\ PresenceNext /\ OfSubjects(hreq')
       /\ UNCHANGED <<importVars, notificationVars, fileVars, walletVars>>
    \/ /\ \/ focus = "subscriptions" /\ SubscriptionsNext
          \/ focus = "pending"       /\ PendingNext
       /\ UNCHANGED <<importVars, presenceVars, fileVars, walletVars>>
    \/ /\ focus = "files" /\ FilesNext
       /\ UNCHANGED <<importVars, presenceVars, notificationVars, walletVars>>
    \/ /\ \/ focus = "spending" /\ SpendingNext /\ UNCHANGED proofVars
          \/ focus = "proving"  /\ ProvingNext  /\ UNCHANGED spendVars
       /\ UNCHANGED <<importVars, presenceVars, notificationVars, fileVars>>

TimePasses ==
    /\ Tick /\ focus \notin {"spending", "proving"}
    /\ UNCHANGED <<importVars, presenceVars, notificationVars, fileVars, walletVars>>

PlatformNext ==
    /\ UNCHANGED focus
    /\ \/ Handle /\ UNCHANGED now
       \/ TimePasses

PlatformSpec == PlatformInit /\ [][PlatformNext]_platformVars
=============================================================================
