------------------------------- MODULE Roles -------------------------------
(***************************************************************************)
(* The role hierarchy of the portal: internal/domain/user.go.  A role name *)
(* is either canonical or one of the two deprecated aliases that old rows, *)
(* tokens and payloads may still carry.                                    *)
(***************************************************************************)
EXTENDS Naturals

CanonicalRoles == {"guest", "registered", "subscriber", "moderator",
                   "sysop", "admin", "master_admin"}
RoleAliases    == {"member", "systop"}   \* DOMAIN roleAliases
RoleNames      == CanonicalRoles \cup RoleAliases

(* Names that no role table knows, e.g. the "owner" of a bad payload. *)
UnknownRoles   == {"owner"}

roleAliases == [member |-> "registered", systop |-> "sysop"]

NormalizeRole(role) ==
    IF role \in DOMAIN roleAliases THEN roleAliases[role] ELSE role

IsValidRole(role) == NormalizeRole(role) \in CanonicalRoles

rolePriority ==
    [guest |-> 1, registered |-> 2, subscriber |-> 3, moderator |-> 4,
     sysop |-> 5, admin |-> 6, master_admin |-> 7]

Priority(role) == rolePriority[NormalizeRole(role)]

CanActAs(current, required) ==
    /\ IsValidRole(current)
    /\ IsValidRole(required)
    /\ Priority(current) >= Priority(required)

IsRegisteredUser(role) ==
    /\ IsValidRole(role)
    /\ NormalizeRole(role) # "guest"

(* Who may hand out which role, one row per role that can be handed out;   *)
(* master_admin and guest have no row.                                     *)
AssignersOf ==
    [admin      |-> {"master_admin"},
     sysop      |-> {"master_admin", "admin"},
     moderator  |-> {"master_admin", "admin", "sysop"},
     subscriber |-> {"master_admin", "admin", "sysop", "moderator"},
     registered |-> {"master_admin", "admin", "sysop", "moderator"}]

(* Mutant of CanAssignRole: whoever may assign may assign anything.        *)
CanAssignAny(assigner, target) ==
    /\ IsValidRole(assigner)
    /\ NormalizeRole(target) \in DOMAIN AssignersOf

CanAssignRole(assigner, target) ==
    /\ IsValidRole(assigner)
    /\ NormalizeRole(target) \in DOMAIN AssignersOf
    /\ NormalizeRole(assigner) \in AssignersOf[NormalizeRole(target)]

(* Mutant of NeedsRegisteredTarget: subscriber is forgotten.               *)
NeedsRegisteredStaff == {"admin", "sysop", "moderator"}

(* Roles that the role endpoint grants only to a target that is at least   *)
(* registered.                                                             *)
NeedsRegisteredTarget == {"admin", "sysop", "moderator", "subscriber"}
=============================================================================
