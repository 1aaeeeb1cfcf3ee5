------------------------------- MODULE Access -------------------------------
(***************************************************************************)
(* Who may do what in one organisation: the tree of its scopes, grants     *)
(* that reach down the tree, ownership, and policies that withhold export  *)
(* or deletion - distributedai/persistence/workspace.py.                   *)
(*                                                                         *)
(* `dispatch` runs every operation on scopes and grants under a lock on    *)
(* the organisation row, and personal scopes are created under a lock on   *)
(* their principal's row: each operation is one atomic step.               *)
(*                                                                         *)
(* Abstractions.  What an identifier will stand for is fixed in advance    *)
(* (Kind, Name, Personal); a deleted scope leaves no row behind, so that   *)
(* its identifier may serve again.  What a scope contains - and that it    *)
(* may keep the scope from being deleted or merged - is in Memory and      *)
(* Jobs; limits on the number of users are not modelled.                   *)
(***************************************************************************)
EXTENDS Roles, FiniteSets

CONSTANTS
    Principals,     \* principals the organisation can have
    OrgAdmin,       \* its administrator: the only one _create_org makes
    Scopes,         \* identifiers of scopes
    Root,           \* the scope of the organisation itself
    Kind,           \* what each scope is
    Name,           \* the name of each scope
    Personal,       \* the personal scope of each principal
    Legacy,         \* may be from before there were personal scopes
    Grantees,       \* principals that grants and policies are about (a bound)
    GrantedRoles,   \* ROLES
    MaxDepth,       \* the longest chain of scopes _scope_chain walks (100)
    MaxGrants,      \* grant rows of a principal (a bound for TLC)
    MaxPolicies,    \* its policy rows when one is set (a bound for TLC)
    PolicyChoices,  \* the flags a policy may withhold together
    None            \* no row

Flags == {"export", "delete"}

ASSUME AccessAssumption ==
    /\ OrgAdmin \in Principals
    /\ Grantees \cup Legacy \subseteq Principals
    /\ Root \in Scopes
    /\ Kind \in [Scopes -> {"organisation", "department", "project", "personal"}]
    /\ \A s \in Scopes : Kind[s] = "organisation" <=> s = Root
    /\ Personal \in [Principals -> Scopes]
    /\ \A s \in Scopes : Kind[s] = "personal" <=> \E p \in Principals : Personal[p] = s
    /\ \A p, q \in Principals : Personal[p] = Personal[q] => p = q
    /\ DOMAIN Name = Scopes
    /\ GrantedRoles \subseteq Role \ {"none"}
    /\ PolicyChoices \subseteq SUBSET Flags
    /\ {MaxDepth, MaxGrants, MaxPolicies} \subseteq Nat
    /\ None \notin Principals \cup Scopes

Shared == {s \in Scopes : Kind[s] # "personal"}
Workspaces == {s \in Scopes : Kind[s] \in {"department", "project"}}

VARIABLES
    status,     \* principals: "absent", "active" or "revoked"
    live,       \* the scopes there are
    parent,     \* the scope above each scope
    owner,      \* ScopeOwnership: the owner of each scope
    granted,    \* Grant: granted[p][s], "none" without a row
    withheld,   \* ScopePermission: withheld[p][s], the flags that are FALSE
    audit       \* the newest AuditLog row: action, actor and scope

vars == <<status, live, parent, owner, granted, withheld, audit>>

-----------------------------------------------------------------------------

\* `_scope_chain`: the scope and everything above it - the least set with the
\* scope that contains the parents of its members.
UpwardClosed(C) == \A s \in C : parent[s] \in C \cup {None}

Chain(s) ==
    IF Kind[s] = "personal" THEN {s}
    ELSE LET closed == {C \in SUBSET Shared : s \in C /\ UpwardClosed(C)}
         IN  {a \in Shared : \A C \in closed : a \in C}

\* The walk ends in an error when the chain is longer than its bound.
Walkable(s) == Cardinality(Chain(s)) <= MaxDepth

Highest(roles) == CHOOSE r \in roles : \A q \in roles : Rank[q] <= Rank[r]

\* `_role_for`: a personal scope belongs to its owner alone, the organisation
\* admin is admin everywhere else and an owner of what it owns; for the others
\* the highest grant on the chain counts.
RoleOf(p, s) ==
    IF Kind[s] = "personal" THEN IF owner[s] = p THEN "admin" ELSE "none"
    ELSE IF p = OrgAdmin \/ owner[s] = p THEN "admin"
    ELSE LET chain == Chain(s)
         IN  IF Cardinality(chain) > MaxDepth THEN "none"
             ELSE Highest({granted[p][a] : a \in chain})

Administers(p, s) == RoleOf(p, s) \in AtLeast("admin")

\* `_permission_flags`: a flag is given to an admin unless a policy on the
\* chain withholds it.
Withheld(s) ==
    LET chain == Chain(s)
    IN  [p \in Principals |-> UNION {withheld[p][a] : a \in chain}]

MayDelete(p, s) == Administers(p, s) /\ Walkable(s) /\ "delete" \notin Withheld(s)[p]

\* UNIQUE (org_id, parent_id, name) of Scope.
NameFree(s, above) == \A c \in live \ {s} : parent[c] = above => Name[c] # Name[s]

Audited == {"bootstrap", "principal_create", "principal_revoke", "scope_create",
            "scope_move", "scope_merge", "scope_delete", "scope_policy_set",
            "scope_owner_set", "grant", "grant_revoke", "memory_export",
            "encrypted_backup"}

Record(action, actor, s) == audit' = [action |-> action, by |-> actor, scope |-> s]

-----------------------------------------------------------------------------

\* _create_org, or an installation from before personal scopes whose
\* administrator has got one by signing in since.
Init ==
    /\ \E legacy \in SUBSET Legacy :
          status = [p \in Principals |->
                       IF p \in {OrgAdmin} \cup legacy THEN "active" ELSE "absent"]
    /\ live = {Root, Personal[OrgAdmin]}
    /\ parent = [s \in Scopes |-> None]
    /\ owner = [s \in Scopes |-> IF s = Personal[OrgAdmin] THEN OrgAdmin ELSE None]
    /\ granted = [p \in Principals |-> [s \in Scopes |-> "none"]]
    /\ withheld = [p \in Principals |-> [s \in Scopes |-> {}]]
    /\ audit = [action |-> "bootstrap", by |-> OrgAdmin, scope |-> Root]

\* `_ensure_personal` for each of `ps`.
EnsurePersonal(ps) ==
    /\ live' = live \cup {Personal[p] : p \in ps}
    /\ owner' = [s \in Scopes |->
                    IF \E p \in ps : s = Personal[p] /\ s \notin live
                    THEN CHOOSE p \in ps : s = Personal[p] ELSE owner[s]]

PersonalScope(by) ==
    /\ EnsurePersonal({by})
    /\ UNCHANGED <<status, parent, granted, withheld, audit>>

\* principal_list creates the personal scopes of all principals, revoked or not.
PrincipalList(by) ==
    /\ by = OrgAdmin
    /\ EnsurePersonal({p \in Principals : status[p] # "absent"})
    /\ UNCHANGED <<status, parent, granted, withheld, audit>>

\* Mutation of PrincipalCreate: without the personal scope.
PrincipalCreateOnly(by, p) ==
    /\ by = OrgAdmin
    /\ status[p] = "absent"
    /\ status' = [status EXCEPT ![p] = "active"]
    /\ Record("principal_create", by, None)
    /\ UNCHANGED <<live, parent, owner, granted, withheld>>

PrincipalCreate(by, p) ==
    /\ by = OrgAdmin
    /\ status[p] = "absent"
    /\ status' = [status EXCEPT ![p] = "active"]
    /\ EnsurePersonal({p})
    /\ Record("principal_create", by, None)
    /\ UNCHANGED <<parent, granted, withheld>>

\* The final active admin cannot be revoked, and there is only one.
PrincipalRevoke(by, p) ==
    /\ by = OrgAdmin
    /\ status[p] = "active"
    /\ p # OrgAdmin
    /\ status' = [status EXCEPT ![p] = "revoked"]
    /\ Record("principal_revoke", by, None)
    /\ UNCHANGED <<live, parent, owner, granted, withheld>>

MayContain(s) == Kind[s] \in {"organisation", "department"}

ScopeCreate(by, s, above) ==
    /\ s \in Workspaces \ live
    /\ above \in live
    /\ Administers(by, above)
    /\ MayContain(above)
    /\ NameFree(s, above)
    /\ live' = live \cup {s}
    /\ parent' = [parent EXCEPT ![s] = above]
    /\ owner' = [owner EXCEPT ![s] = by]
    /\ Record("scope_create", by, s)
    /\ UNCHANGED <<status, granted, withheld>>

GrantRows(p) == {s \in Scopes : granted[p][s] # "none"}

\* Mutation of GrantRole: what the caller administers, personal or not.
GrantRoleAnywhere(by, p, s, role) ==
    /\ status[p] = "active"
    /\ s \in live
    /\ Administers(by, s)
    /\ granted' = [granted EXCEPT ![p][s] = role]
    /\ Record("grant", by, s)
    /\ UNCHANGED <<status, live, parent, owner, withheld>>

GrantRole(by, p, s, role) ==
    /\ status[p] = "active"
    /\ s \in live
    /\ Kind[s] # "personal"
    /\ Administers(by, s)
    /\ s \in GrantRows(p) \/ Cardinality(GrantRows(p)) < MaxGrants
    /\ granted' = [granted EXCEPT ![p][s] = role]
    /\ Record("grant", by, s)
    /\ UNCHANGED <<status, live, parent, owner, withheld>>

\* The admin grants of the organisation's only admin stay.
GrantRevoke(by, p, s) ==
    /\ s \in live
    /\ Kind[s] # "personal"
    /\ Administers(by, s)
    /\ granted[p][s] # "none"
    /\ ~(p = OrgAdmin /\ granted[p][s] = "admin")
    /\ granted' = [granted EXCEPT ![p][s] = "none"]
    /\ Record("grant_revoke", by, s)
    /\ UNCHANGED <<status, live, parent, owner, withheld>>

PolicyRows(p) == {s \in Scopes : withheld[p][s] # {}}

PolicySet(by, p, s, flags) ==
    /\ by = OrgAdmin
    /\ s \in live
    /\ status[p] # "absent"
    /\ \/ flags = {} \/ s \in PolicyRows(p)
       \/ Cardinality(PolicyRows(p)) < MaxPolicies
    /\ withheld' = [withheld EXCEPT ![p][s] = flags]
    /\ Record("scope_policy_set", by, s)
    /\ UNCHANGED <<status, live, parent, owner, granted>>

OwnerSet(by, p, s) ==
    /\ by = OrgAdmin
    /\ s \in live \cap Workspaces
    /\ status[p] = "active"
    /\ owner' = [owner EXCEPT ![s] = p]
    /\ Record("scope_owner_set", by, s)
    /\ UNCHANGED <<status, live, parent, granted, withheld>>

\* Mutation of Retain: the rows of the scope itself, none from above it.
RetainOwn(from, to) ==
    [p \in Principals |->
        [withheld[p] EXCEPT ![to] = withheld[p][to] \cup withheld[p][from]]]

\* `_retain_scope_restrictions`: what is withheld on the chain of `from`
\* becomes withheld on `to` itself.
Retain(from, to) ==
    LET denied == Withheld(from)
    IN  [p \in Principals |->
            [withheld[p] EXCEPT ![to] = withheld[p][to] \cup denied[p]]]

\* Mutation of NoCycle: a scope is not moved into itself.
NotItself(s, above) == s # above

\* scope_move and scope_merge refuse a destination beneath what they move.
NoCycle(s, above) == s \notin Chain(above)

\* Mutation of MayMove: the destination is what counts.
MayMoveInto(by, s, above) == Administers(by, above)

MayMove(by, s, above) == Administers(by, s) /\ Administers(by, above)

ScopeMove(by, s, above) ==
    /\ {s, above} \subseteq live
    /\ MayMove(by, s, above)
    /\ s \in Workspaces
    /\ MayContain(above)
    /\ Walkable(above) /\ Walkable(s)
    /\ NoCycle(s, above)
    /\ NameFree(s, above)
    /\ withheld' = Retain(s, s)
    /\ parent' = [parent EXCEPT ![s] = above]
    /\ Record("scope_move", by, s)
    /\ UNCHANGED <<status, live, owner, granted>>

Children(s) == {c \in live : parent[c] = s}

\* Mutation of Forget: the policies are left behind.
ForgetButPolicies(s, policies) ==
    /\ live' = live \ {s}
    /\ owner' = [owner EXCEPT ![s] = None]
    /\ granted' = [p \in Principals |-> [granted[p] EXCEPT ![s] = "none"]]
    /\ withheld' = policies

\* `_delete_empty_scope`: the scope and the rows that refer to it go.
Forget(s, policies) ==
    /\ live' = live \ {s}
    /\ owner' = [owner EXCEPT ![s] = None]
    /\ granted' = [p \in Principals |-> [granted[p] EXCEPT ![s] = "none"]]
    /\ withheld' = [p \in Principals |-> [policies[p] EXCEPT ![s] = {}]]

ScopeDelete(by, s) ==
    /\ s \in live \cap Workspaces
    /\ MayDelete(by, s)
    /\ Children(s) = {}
    /\ parent' = [parent EXCEPT ![s] = None]
    /\ Forget(s, withheld)
    /\ Record("scope_delete", by, None)
    /\ UNCHANGED status

\* scope_merge compares the children's names with those in the target, leaving
\* out the source; but the source is deleted after its children have moved, so
\* that a child with its name meets UNIQUE when they move in beside it.
NoNameClash(source, target) ==
    \A c \in Children(source), d \in Children(target) : Name[c] # Name[d]

Reparented(source, target) ==
    [s \in Scopes |-> IF s = source THEN None
                      ELSE IF parent[s] = source THEN target ELSE parent[s]]

\* Mutation of ScopeMerge: the target takes over the grants of the source.
ScopeMergeWithGrants(by, source, target) ==
    /\ by = OrgAdmin
    /\ {source, target} \subseteq live
    /\ Kind[source] = "department" /\ Kind[target] = "department"
    /\ source # target
    /\ Walkable(target)
    /\ NoCycle(source, target)
    /\ MayDelete(by, source)
    /\ NoNameClash(source, target)
    /\ parent' = Reparented(source, target)
    /\ live' = live \ {source}
    /\ owner' = [owner EXCEPT ![source] = None]
    /\ granted' = [p \in Principals |->
                      [granted[p] EXCEPT ![target] = granted[p][source], ![source] = "none"]]
    /\ withheld' = Retain(source, target)
    /\ Record("scope_merge", by, target)
    /\ UNCHANGED status

ScopeMerge(by, source, target) ==
    /\ by = OrgAdmin
    /\ {source, target} \subseteq live
    /\ Kind[source] = "department" /\ Kind[target] = "department"
    /\ source # target
    /\ Walkable(target)
    /\ NoCycle(source, target)
    /\ MayDelete(by, source)
    /\ NoNameClash(source, target)
    /\ parent' = Reparented(source, target)
    /\ Forget(source, Retain(source, target))
    /\ Record("scope_merge", by, target)
    /\ UNCHANGED status

\* Exports and backups leave an audit row, and nothing else.  They read one
\* snapshot and stand for the moment it is taken; when a size limit or missing
\* encryption ends them, nothing is left.
Report(action, by, s) ==
    /\ Record(action, by, s)
    /\ UNCHANGED <<status, live, parent, owner, granted, withheld>>

MayExport(p, s) == Administers(p, s) /\ Walkable(s) /\ "export" \notin Withheld(s)[p]

MemoryExport(by, s) ==
    /\ s \in live
    /\ MayExport(by, s)
    /\ Report("memory_export", by, s)

\* `_backup`: of a scope, or of everything when `s` is None.  What the archive
\* holds is encrypted, and the policy on exports is not asked.
Backup(by, s) == Report("encrypted_backup", by, s)

ScopeBackup(by, s) ==
    /\ s \in live
    /\ by = OrgAdmin \/ Administers(by, s)
    /\ Backup(by, s)

OrganisationBackup(by) == by = OrgAdmin /\ Backup(by, None)

Exports(by) ==
    \/ \E s \in Scopes : MemoryExport(by, s) \/ ScopeBackup(by, s)
    \/ OrganisationBackup(by)

\* dispatch: only an active principal gets to its operation.
Operation(by) ==
    \/ PersonalScope(by)
    \/ PrincipalList(by)
    \/ \E p \in Principals : PrincipalCreate(by, p) \/ PrincipalRevoke(by, p)
    \/ \E s, above \in Scopes : ScopeCreate(by, s, above) \/ ScopeMove(by, s, above)
    \/ \E p \in Grantees, s \in Scopes, role \in GrantedRoles :
          GrantRole(by, p, s, role)
    \/ \E p \in Principals, s \in Scopes :
          GrantRevoke(by, p, s) \/ OwnerSet(by, p, s)
    \/ \E p \in Grantees, s \in Scopes, flags \in PolicyChoices :
          PolicySet(by, p, s, flags)
    \/ \E s \in Scopes : ScopeDelete(by, s)
    \/ \E source, target \in Scopes : ScopeMerge(by, source, target)
    \/ Exports(by)

Next == \E by \in Principals : status[by] = "active" /\ Operation(by)

Spec == Init /\ [][Next]_vars

-----------------------------------------------------------------------------

\* The variables have their types, and no row refers to a scope that is gone:
\* scope_delete and scope_merge clear four tables by separate statements.
TypeOK ==
    /\ status \in [Principals -> {"absent", "active", "revoked"}]
    /\ status[OrgAdmin] = "active"
    /\ live \subseteq Scopes
    /\ parent \in [Scopes -> Scopes \cup {None}]
    /\ owner \in [Scopes -> Principals \cup {None}]
    /\ granted \in [Principals -> [Scopes -> Role]]
    /\ withheld \in [Principals -> [Scopes -> SUBSET Flags]]
    /\ audit \in [action : Audited, by : Principals, scope : Scopes \cup {None}]
    /\ \A s \in Scopes \ live :
          /\ parent[s] = None /\ owner[s] = None
          /\ \A p \in Principals : granted[p][s] = "none" /\ withheld[p][s] = {}

\* Whatever was created, moved, merged or deleted, in whatever order, the shared
\* scopes form one tree under the organisation: every chain ends there (so that
\* _scope_chain terminates), only organisations and departments have children,
\* and no two children of a scope share a name.
TreeOK ==
    \A s \in live \cap Shared :
        /\ Root \in Chain(s)
        /\ s = Root \/ (parent[s] \in live /\ MayContain(parent[s]))
        /\ s # Root => NameFree(s, parent[s])

\* A personal scope stays outside the tree and belongs to its principal for good:
\* nothing is above or beneath it, no grant or transfer opens it to another one,
\* not even to the organisation admin.
PersonalApart ==
    \A p \in Principals :
        LET own == Personal[p]
        IN  /\ own \in live => owner[own] = p
            /\ parent[own] = None
            /\ \A s \in Scopes : parent[s] # own
            /\ \A q \in Principals : granted[q][own] = "none" /\ (RoleOf(q, own) # "none" => q = p)

\* Every identity that is provisioned gets a personal scope of its own in that
\* transaction, and whoever has one keeps it through revocation and every change
\* of the hierarchy, whoever makes it.
PersonalStays ==
    \A p \in Principals :
        (status[p] = "absent" /\ status'[p] # "absent") \/ Personal[p] \in live =>
            Personal[p] \in live' /\ owner'[Personal[p]] = p

PersonalForAll == [][PersonalStays]_vars

\* What a policy withholds from somebody on a scope, by itself or from above, is
\* withheld there until a policy is set again, wherever the scope is moved; and
\* when its contents are merged into another scope it is withheld on that one: a
\* change of the hierarchy never lifts a restriction.
RestrictionsKept ==
    audit'.action # "scope_policy_set" =>
        \A s \in live, to \in live' :
            \/ to = s
            \/ s \notin live' /\ audit'.action = "scope_merge" /\ to = audit'.scope
            => LET before == Withheld(s)
                   after == Withheld(to)'
               IN  \A p \in Principals : before[p] \subseteq after[p]

RestrictionsSurvive ==
    [][UNCHANGED <<live, parent, withheld>> \/ RestrictionsKept]_vars

\* Authority comes from above: the role of a user on a shared scope rises - by a
\* grant, a transfer, a move or a merge - only through somebody who, just before,
\* was admin of that scope or of a scope above it.
RisesAreGiven ==
    \A p \in Principals \ {OrgAdmin}, s \in live \cap live' \cap Shared :
        Rank[RoleOf(p, s)'] > Rank[RoleOf(p, s)] =>
            \E a \in Chain(s) : Administers(audit'.by, a)

RolesRiseFromAbove ==
    [][UNCHANGED <<live, parent, owner, granted>> \/ RisesAreGiven]_vars

\* A merge opens nothing but what it moves: the holders of grants on the source
\* gain no role on the target, its other children or anywhere else; only on what
\* was under the source can roles rise.
OnlyMovedOpens ==
    audit'.action = "scope_merge" =>
        \A p \in Principals \ {OrgAdmin}, s \in live \cap live' \cap Shared :
            Rank[RoleOf(p, s)'] > Rank[RoleOf(p, s)] => Chain(s) \ live' # {}

MergeOpensOnlyMoved == [][OnlyMovedOpens]_vars

-----------------------------------------------------------------------------
(* The organisation as Memory and Jobs see it.                             *)

\* Roles are what grants, owners and chains make them, no policy is looked at.
Seen == INSTANCE Organisation WITH
    granted <- [p \in Principals |-> [s \in Scopes |-> RoleOf(p, s)]],
    Owner <- [s \in Scopes \ Shared |-> CHOOSE p \in Principals : Personal[p] = s],
    Deletable <- Scopes

\* Whoever made a scope go was one to whom Organisation allows it, by the role
\* on the tree at that moment; one scope goes at a time; and a deletion leaves
\* every role on every other scope alone, as ScopeDelete of Memory and Jobs does.
\* A merge moves what is beneath the scope, and roles there change after it.
GoneAsSeen ==
    \A s \in live \ live' :
        /\ live' = live \ {s}
        /\ \/ /\ audit'.action = "scope_delete"
              /\ Seen!MayDeleteScope(audit'.by, s)
              /\ \A p \in Principals, t \in live' : RoleOf(p, t)' = RoleOf(p, t)
           \/ /\ audit'.action = "scope_merge"
              /\ Seen!MayMergeScopes(audit'.by, s, audit'.scope)

\* Whatever happens to the tree, the role of somebody on a scope that stays
\* becomes another one only where Regrant of Memory and Jobs can follow: neither
\* for the organisation admin nor on a personal scope.
RolesAsSeen ==
    \A p \in Principals, s \in live \cap live' :
        RoleOf(p, s)' # RoleOf(p, s) =>
            p # OrgAdmin /\ s \in Shared /\ RoleOf(p, s)' \in Role

\* Every step of the tree is, for the scopes there were, what Memory and Jobs have
\* actions for: a deletion or merge that passes the checks they make of its
\* actor, or changes of the roles that they allow to change.
OrganisationFollows == [][GoneAsSeen /\ RolesAsSeen]_vars
=============================================================================
