---------------------------- MODULE Organisation ----------------------------
(***************************************************************************)
(* One organisation as the memory and job operations see it: principals,   *)
(* scopes that exist, and the role every principal has on every scope.     *)
(* The grants, ownerships and ancestor chains behind a role are abstracted *)
(* to the role they amount to (`_role_for`), which may become any other.   *)
(***************************************************************************)
EXTENDS Roles

CONSTANTS
    Principals,     \* principals of the organisation
    OrgAdmin,       \* its administrator
    Scopes,         \* scopes that exist initially
    Kind,           \* the kind of each scope
    Owner,          \* the owner of each personal scope
    Deletable,      \* scopes where no policy withholds can_delete
    GrantedRoles,   \* roles that grants give and take (a bound for TLC)
    None            \* no row, no principal

ScopeKinds == {"organisation", "department", "project", "personal"}

ASSUME OrganisationAssumption ==
    /\ OrgAdmin \in Principals
    /\ Kind \in [Scopes -> ScopeKinds]
    /\ Owner \in [{s \in Scopes : Kind[s] = "personal"} -> Principals]
    /\ Deletable \subseteq Scopes
    /\ GrantedRoles \subseteq Role
    /\ None \notin Principals

VARIABLES
    granted,    \* granted[p][s]: the role grants and ownership give p on s
    live        \* the scopes that still exist

\* `_role_for`: a personal scope belongs to its owner alone, the organisation
\* admin is admin everywhere else, and the rest is what grants give.
RoleOf(p, s) ==
    IF Kind[s] = "personal"
    THEN IF Owner[s] = p THEN "admin" ELSE "none"
    ELSE IF p = OrgAdmin THEN "admin" ELSE granted[p][s]

\* `_get_scope` followed by `_require_role`.
Allowed(p, s, minimum) == s \in live /\ RoleOf(p, s) \in AtLeast(minimum)

\* `_permission_flags`[can_delete], with the policies fixed.
MayDelete(p, s) == RoleOf(p, s) = "admin" /\ s \in Deletable

\* The checks of scope_delete and of scope_merge before they look at contents.
MayDeleteScope(p, s) ==
    /\ Allowed(p, s, "admin")
    /\ Kind[s] \in {"department", "project"}
    /\ MayDelete(p, s)

MayMergeScopes(p, source, target) ==
    /\ p = OrgAdmin
    /\ {source, target} \subseteq live
    /\ source # target
    /\ Kind[source] = "department" /\ Kind[target] = "department"
    /\ MayDelete(p, source)

\* Grants, their revocation, ownership and hierarchy changes: the role of p on
\* s becomes another one (they make no difference to the organisation admin).
ChangeRole(p, s, role) ==
    /\ s \in live
    /\ Kind[s] # "personal"
    /\ granted' = [granted EXCEPT ![p][s] = role]
    /\ UNCHANGED live
=============================================================================
