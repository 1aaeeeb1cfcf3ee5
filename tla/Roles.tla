-------------------------------- MODULE Roles --------------------------------
(***************************************************************************)
(* The access roles of distributedai/persistence/workspace.py and their    *)
(* ranking.  A handler asks for a minimum role; "none" stands for the      *)
(* absence of any role (`_role_for` answering None).                       *)
(***************************************************************************)
EXTENDS Integers

Rank == [none |-> 0, reader |-> 1, writer |-> 2, reviewer |-> 3, admin |-> 4]

Role == {"none", "reader", "writer", "reviewer", "admin"}

\* `_require_role`: the roles that satisfy a handler asking for `minimum`.
AtLeast(minimum) == {r \in Role : Rank[r] >= Rank[minimum]}
=============================================================================
