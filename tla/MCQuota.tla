------------------------------ MODULE MCQuota ------------------------------
(* An administrator, a second user, an instance and two connections.       *)
EXTENDS Quota

CONSTANTS free, paid, a, b, c

MCRows == 1 .. 5
MCKind == [i \in MCRows |-> CASE i \in {1, 2} -> "user" [] i = 3 -> "instance"
                              [] OTHER -> "connection"]
MCOwner == [i \in Connections |-> IF i = 4 THEN 2 ELSE 1]
MCInstance == [i \in Connections |-> 3]
MCLimits == [p \in Plans |->
    [k \in Kinds \cup {"bytes"} |->
        IF p = free THEN 1 ELSE IF k = "bytes" THEN None ELSE 2]]
=============================================================================
