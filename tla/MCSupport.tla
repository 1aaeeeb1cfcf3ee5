----------------------------- MODULE MCSupport -----------------------------
(* An organisation with an administrator and a user, and somebody of       *)
(* another organisation who handles the solution queue by default.         *)
EXTENDS Support

CONSTANTS home, vendor, admin, bob, sol, c1, c2, k1, k2, short, long

MCOrgOf == [p \in Principals |-> IF p = sol THEN vendor ELSE home]
MCSize == [x \in Texts |-> IF x = short THEN 1 ELSE 2]
MCCalls == [c \in Clients |-> IF c = c1 THEN {"create", "read", "reply", "assign"}
                             ELSE {"create"}]
MCConfigurations == [s \in Scopes |->
    CASE s = home -> [portal : {FALSE}, team : {{bob}}]
      [] s = Solution -> [portal : {TRUE}, team : {{}}]
      [] OTHER -> {}]
=============================================================================
