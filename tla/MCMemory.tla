------------------------------ MODULE MCMemory ------------------------------
(***************************************************************************)
(* Memory with two departments, so that they can be merged and deleted, an *)
(* administrator and another principal who propose and review.             *)
(***************************************************************************)
EXTENDS Memory, TLC

CONSTANTS admin, ann, sales, ops, desk, k1

MCPrincipals == {admin, ann}
MCScopes == {sales, ops, desk}
MCKind == (sales :> "department") @@ (ops :> "department")
          @@ (desk :> "personal")
MCOwner == desk :> ann
MCKeys == {k1}
MCSymmetry == Permutations(Proposals) \cup Permutations({sales, ops})
=============================================================================
