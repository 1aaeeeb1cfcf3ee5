----------------------------- MODULE MCKeyRing -----------------------------
(* Two organisations, one with two rows.                                   *)
EXTENDS KeyRing, TLC

CONSTANTS home, other, r1, r2, r3

MCOrgOf == [r \in Rows |-> IF r = r3 THEN other ELSE home]
MCSymmetry == Permutations(Keys) \cup Permutations(Texts) \cup Permutations(Clients)
              \cup Permutations({r1, r2})
=============================================================================
