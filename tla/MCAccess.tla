------------------------------ MODULE MCAccess ------------------------------
(***************************************************************************)
(* An administrator and a user, two departments and a project: the longest *)
(* chain has four scopes, one more than is walked here.                    *)
(***************************************************************************)
EXTENDS Access

CONSTANTS chief, user, guest, org, east, west, plan, chiefs, users, guests

MCKind == [s \in Scopes |->
    CASE s = org -> "organisation"
      [] s \in {east, west} -> "department"
      [] s = plan -> "project"
      [] OTHER -> "personal"]

\* The project bears the name of a department.
MCName == [s \in Scopes |-> IF s = plan THEN east ELSE s]
MCPersonal == [p \in Principals |->
    CASE p = chief -> chiefs [] p = user -> users [] OTHER -> guests]

\* The audit row is looked at in the step that writes it only.
MCView == <<status, live, parent, owner, granted, withheld>>
=============================================================================
