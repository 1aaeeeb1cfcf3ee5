----------------------------- MODULE MCBilling ------------------------------
(* Small instances of Billing for TLC. *)
EXTENDS Billing, TLC

CONSTANTS acme, bell, s1, s2, c1, c2, p1, p2, free, paid, e1, e2, e3

MCCustomerOf == s1 :> c1 @@ s2 :> c1
MCPriceMap == p1 :> paid @@ p2 :> None

Ids == Permutations({e1, e2, e3})
IdsSubs == Ids \cup Permutations({s1, s2})
IdsOrgs == Ids \cup Permutations({acme, bell})
=============================================================================
