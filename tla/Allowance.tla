------------------------------ MODULE Allowance ------------------------------
(***************************************************************************)
(* What Quota promises of the limits of a plan, without transactions: an   *)
(* admission, a charge or a deletion is one step, and what it is checked   *)
(* against and counted into is exact at that very step, but for the plan,  *)
(* which is the one that was read before.  At any time one call at most    *)
(* is between reading the plan and that step.                              *)
(***************************************************************************)
EXTENDS Integers, FiniteSets

CONSTANTS
    Rows,       \* principals, instances and connections
    Kind,       \* what each row is
    Plans,      \* configured plans
    Limits,     \* the limits of each plan, None where it has none
    None        \* no limit, no counter, no plan

VARIABLES
    plan,       \* the plan in force
    enabled,    \* whether anything is limited and counted
    state,      \* rows: "absent", "active" or "revoked"
    payload,    \* bytes that are stored
    used,       \* the counter of bytes, None before the first count
    offer       \* the plan that was read for the next step that is checked

allowanceVars == <<plan, enabled, state, payload, used, offer>>

Init ==
    /\ plan \in Plans
    /\ enabled \in BOOLEAN
    /\ state \in [Rows -> {"absent", "active"}]
    /\ payload \in Nat
    /\ used = None
    /\ offer = None

Fits(x, kind) ==
    /\ offer # None
    /\ Limits[offer][kind] # None => x <= Limits[offer][kind]

Look ==
    /\ offer = None
    /\ offer' = plan
    /\ UNCHANGED <<plan, enabled, state, payload, used>>

Drop ==
    /\ offer # None
    /\ offer' = None
    /\ UNCHANGED <<plan, enabled, state, payload, used>>

\* What was counted becomes the counter.
Settle(count) ==
    IF enabled THEN offer # None /\ used' = count /\ offer' = None
    ELSE UNCHANGED <<used, offer>>

Counted == IF used = None THEN payload ELSE used

Admit(i) ==
    /\ state[i] = "absent"
    /\ enabled =>
          Fits(Cardinality({j \in Rows : Kind[j] = Kind[i] /\ state[j] = "active"}) + 1,
               Kind[i])
    /\ state' = [state EXCEPT ![i] = "active"]
    /\ Settle(Counted)
    /\ UNCHANGED <<plan, enabled, payload>>

Store ==
    LET n == payload' - payload
    IN  /\ payload' \in Nat /\ payload <= payload'
        /\ enabled => Fits(Counted + n, "bytes")
        /\ Settle(Counted + n)
        /\ UNCHANGED <<plan, enabled, state>>

Delete(n) ==
    /\ payload' = payload - n
    /\ Settle(payload - n)
    /\ UNCHANGED <<plan, enabled, state>>

\* Where nothing is counted, what is stored may change during a recount.
Recount ==
    /\ offer # None
    /\ used' \in Nat
    /\ enabled => used' = payload
    /\ offer' = None
    /\ UNCHANGED <<plan, enabled, state, payload>>

Revoke(i) ==
    /\ state[i] = "active"
    /\ Kind[i] # "instance"
    /\ state' = [state EXCEPT ![i] = "revoked"]
    /\ UNCHANGED <<plan, enabled, payload, used, offer>>

ChangePlan ==
    /\ plan' \in Plans
    /\ UNCHANGED <<enabled, state, payload, used, offer>>

Switch ==
    /\ offer = None
    /\ enabled' = ~enabled
    /\ UNCHANGED <<plan, state, payload, used, offer>>

Next ==
    \/ Look \/ Drop
    \/ \E i \in Rows : Admit(i) \/ Revoke(i)
    \/ Store
    \/ \E n \in 0 .. payload : Delete(n)
    \/ Recount
    \/ ChangePlan
    \/ Switch

Spec == Init /\ [][Next]_allowanceVars
=============================================================================
