---------------------------- MODULE Preferences ----------------------------
(***************************************************************************)
(* The preferences of the platform and of its players.                     *)
(*                                                                         *)
(* The system preferences are one row that administrators change column by *)
(* column, by a Get and an Upsert of the whole row.  Get answers defaults  *)
(* for a missing row; the updates also drop its error, and a failed read   *)
(* answers the empty record.  A mode is stored as it comes.  The settings  *)
(* and the notification preferences of a player are written whole from     *)
(* the payload, one Set each.                                              *)
(***************************************************************************)
EXTENDS Requests

CONSTANTS
    Modes,     \* the modes administrators send, "live" and the empty one among them
    Themes,    \* the themes players send, nonempty
    Refreshes  \* the refresh periods players send, in seconds

ASSUME PreferencesAssumption == /\ {"live", ""} \subseteq Modes
                                /\ Refreshes \subseteq Int

DefaultTheme   == "theme-ocean"
DefaultRefresh == 30

SystemPreferences == [mode : Modes, calling : BOOLEAN]
UserSettings      == [theme : (Themes \cup {DefaultTheme}) \ {""}, refresh : Nat \ {0}]
NotificationPreferences == [email : BOOLEAN, push : BOOLEAN, inApp : BOOLEAN]

NoSystemPreferences == [mode |-> "", calling |-> FALSE]
DefaultPreferences  == [mode |-> "live", calling |-> FALSE]

ASSUME NoneIsNoPreference == None \notin SystemPreferences

VARIABLES
    system,      \* the row of the system preferences, or None
    sreq,        \* the update each worker is doing, or None
    chosen,      \* what the answered updates chose
    mislaid,     \* columns an update may have lost to a failed read or another update
    settings,    \* user -> settings, or None
    subscribed   \* user -> notification preferences, or None

preferenceVars == <<system, sreq, chosen, mislaid, settings, subscribed>>

(* set is what the update sets; the provider update sets neither column.   *)
Updates == [{"mode"} -> Modes] \cup [{"calling"} -> BOOLEAN] \cup [{} -> {}]
SRequest == [at : {"get", "upsert"}, set : Updates, row : SystemPreferences,
             lost : BOOLEAN, stale : BOOLEAN]

PreferencesTypeOK ==
    /\ system \in SystemPreferences \cup {None}
    /\ sreq \in [Workers -> SRequest \cup {None}]
    /\ chosen \in SystemPreferences
    /\ mislaid \subseteq {"mode", "calling"}
    /\ settings \in [Users -> UserSettings \cup {None}]
    /\ subscribed \in [Users -> NotificationPreferences \cup {None}]

PreferencesInit ==
    /\ system = None
    /\ sreq = [w \in Workers |-> None]
    /\ chosen = DefaultPreferences
    /\ mislaid = {}
    /\ settings = [u \in Users |-> None]
    /\ subscribed = [u \in Users |-> None]

playerVars == <<settings, subscribed>>
systemVars == <<system, sreq, chosen, mislaid>>

-----------------------------------------------------------------------------
(* Mutant of GetPreferences: a missing row has the empty mode.             *)
GetWithoutDefault(row, fails) ==
    IF fails \/ row = None THEN NoSystemPreferences ELSE row

(* The service's Get, its error dropped.                                   *)
GetPreferences(row, fails) ==
    CASE fails        -> NoSystemPreferences
      [] row = None   -> DefaultPreferences
      [] OTHER        -> row

AskUpdate(w, set) ==
    /\ sreq[w] = None
    /\ sreq' = [sreq EXCEPT ![w] = [at |-> "get", set |-> set, lost |-> FALSE,
                                    row |-> NoSystemPreferences, stale |-> FALSE]]
    /\ UNCHANGED <<system, chosen, mislaid, playerVars>>

(* The handlers, for callers that act as admin; others change nothing.     *)
UpdateMode(w)           == \E m \in Modes : AskUpdate(w, [mode |-> m])
UpdateCallingState(w)   == \E c \in BOOLEAN : AskUpdate(w, [calling |-> c])
UpdateOAuthProviders(w) == AskUpdate(w, << >>)

ReadPreferences(w) ==
    /\ sreq[w] # None /\ sreq[w].at = "get"
    /\ \E fails \in BOOLEAN :
           sreq' = [sreq EXCEPT ![w] =
               [@ EXCEPT !.at = "upsert", !.lost = fails,
                         !.row = Overwrite(GetPreferences(system, fails), sreq[w].set)]]
    /\ UNCHANGED <<system, chosen, mislaid, playerVars>>

(* Updates about to write back a row that has just changed.                *)
OverrunUpdates(reqs) ==
    [v \in Workers |->
        IF reqs[v] # None /\ reqs[v].at = "upsert"
          THEN [reqs[v] EXCEPT !.stale = TRUE] ELSE reqs[v]]

StoreSystem(row) == system' = row

WritePreferences(w) ==
    /\ sreq[w] # None /\ sreq[w].at = "upsert"
    /\ StoreSystem(sreq[w].row)
    /\ sreq' = OverrunUpdates([sreq EXCEPT ![w] = None])
    /\ chosen' = Overwrite(chosen, sreq[w].set)
    /\ mislaid' = (IF sreq[w].lost \/ sreq[w].stale THEN {"mode", "calling"} ELSE mislaid)
                  \ DOMAIN sreq[w].set
    /\ UNCHANGED playerVars

UpdateFails(w) ==
    /\ sreq[w] # None /\ sreq[w].at = "upsert"
    /\ sreq' = [sreq EXCEPT ![w] = None]
    /\ UNCHANGED <<system, chosen, mislaid, playerVars>>

-----------------------------------------------------------------------------
(* Mutant of SaveSettings: a negative period is stored as it comes.        *)
SaveNegative(theme, refresh) ==
    [theme   |-> IF theme = "" THEN DefaultTheme ELSE theme,
     refresh |-> IF refresh = 0 THEN DefaultRefresh ELSE refresh]

SaveSettings(theme, refresh) ==
    [theme   |-> IF theme = "" THEN DefaultTheme ELSE theme,
     refresh |-> IF refresh <= 0 THEN DefaultRefresh ELSE refresh]

UpdateSettings(u) ==
    /\ \E t \in Themes \cup {""}, r \in Refreshes :
           settings' = [settings EXCEPT ![u] = SaveSettings(t, r)]
    /\ UNCHANGED <<systemVars, subscribed>>

UpdateNotificationPreferences(u) ==
    /\ \E p \in NotificationPreferences : subscribed' = [subscribed EXCEPT ![u] = p]
    /\ UNCHANGED <<systemVars, settings>>

GetSettings(u) ==
    IF settings[u] = None THEN [theme |-> DefaultTheme, refresh |-> DefaultRefresh]
                          ELSE settings[u]

GetNotificationPreferences(u) ==
    IF subscribed[u] = None THEN [email |-> TRUE, push |-> FALSE, inApp |-> TRUE]
                            ELSE subscribed[u]

SystemNext ==
    \E w \in Workers : \/ UpdateMode(w) \/ UpdateCallingState(w)
                       \/ UpdateOAuthProviders(w)
                       \/ ReadPreferences(w) \/ WritePreferences(w) \/ UpdateFails(w)

PlayersNext ==
    \E u \in Users : UpdateSettings(u) \/ UpdateNotificationPreferences(u)

PreferencesSpec == PreferencesInit /\ [][SystemNext \/ PlayersNext]_preferenceVars

-----------------------------------------------------------------------------
(* A reader of the system preferences gets, column by column, the last     *)
(* value an answered update chose, the defaults before the first: an       *)
(* update of one column keeps the other, unless it took a failed read for  *)
(* the stored row or ran over another update, and then only until the      *)
(* column is set again.                                                    *)
ChoicesKept ==
    \A c \in {"mode", "calling"} \ mislaid :
        GetPreferences(system, FALSE)[c] = chosen[c]
=============================================================================
