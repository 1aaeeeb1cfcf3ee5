------------------------------- MODULE MCJobs -------------------------------
(***************************************************************************)
(* Jobs of departments and of ann's personal scope, and replicas whose     *)
(* clocks differ.                                                          *)
(***************************************************************************)
EXTENDS Jobs, TLC

CONSTANTS admin, ann, bob, sales, ops, desk

MCKind == [s \in Scopes |-> IF s = desk THEN "personal" ELSE "department"]
MCOwner == [s \in Scopes \cap {desk} |-> ann]
MCInitialRoles == [p \in Principals |-> [s \in Scopes |-> "writer"]]
MCSymmetry == Permutations(Jobs) \cup Permutations({sales, ops})
=============================================================================
