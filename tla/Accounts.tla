------------------------------ MODULE Accounts ------------------------------
(***************************************************************************)
(* One row of billing_accounts (distributedai/persistence/billing.py): what *)
(* each operation makes of it, and the plan it puts in force.              *)
(***************************************************************************)
EXTENDS Naturals

CONSTANTS
    Subscriptions,  \* identifiers of provider subscriptions
    CustomerOf,     \* the customer a subscription's events name, None if none
    Customers,      \* identifiers of provider customers
    Prices,         \* prices of the provider
    Plans,          \* configured plans
    DefaultPlan,    \* the plan of whoever has no other
    PriceMap,       \* the plan each price stands for, None if not configured
    EventIds,       \* identifiers of provider events
    None            \* an absent value

ASSUME AccountsAssumption ==
    /\ None \notin Subscriptions \cup Customers \cup Plans \cup EventIds
    /\ CustomerOf \in [Subscriptions -> Customers \cup {None}]
    /\ DefaultPlan \in Plans
    /\ PriceMap \in [Prices -> Plans \cup {None}]

\* `at` and `last` are last_event_at (0 when null) and last_event_id; `flagged`
\* is needs_reconciliation; an organisation without a row is "absent".
Account == [plan : Plans,
            status : {"absent", "registered", "active", "delinquent"},
            sub : Subscriptions \cup {None},
            customer : Customers \cup {None},
            at : Nat,
            last : EventIds \cup {None},
            flagged : BOOLEAN]

NoAccount ==
    [plan |-> DefaultPlan, status |-> "absent", sub |-> None,
     customer |-> None, at |-> 0, last |-> None, flagged |-> FALSE]

\* The plan of `limits_for`: anything but an active account in good order falls
\* back to the default.
PlanInForce(a) ==
    IF a.status = "active" /\ ~a.flagged THEN a.plan ELSE DefaultPlan

\* What `assign_plan` makes of the row.
Assigned(a, plan) ==
    [a EXCEPT !.plan = plan, !.status = "active", !.flagged = FALSE]

\* What `register_subscription` makes of the row; plan may be None.
Bound(a, s, customer, plan) ==
    [a EXCEPT
        !.status  = IF a.sub = s THEN @ ELSE "registered",
        !.at      = IF a.sub = s THEN @ ELSE 0,
        !.last    = IF a.sub = s THEN @ ELSE None,
        !.flagged = @ /\ a.sub = s,
        !.sub = s,
        !.customer = customer,
        !.plan = IF plan = None THEN @ ELSE plan]

-----------------------------------------------------------------------------
(* process_event on the account that the event's subscription is bound to. *)

\* A verified event, or what a completed checkout is turned into.
Event == [sub : Subscriptions, time : Nat \ {0},
          entitled : BOOLEAN, price : Prices]

Applied == {"applied:active", "applied:delinquent"}
Notes == Applied \cup {"out_of_order", "same_timestamp_fail_closed",
                       "unknown_price", "unregistered_subscription"}

\* Mutation of OutOfOrder: the date of the last event is not compared.
OutOfOrderNever(a, e) == FALSE

OutOfOrder(a, e)    == a.at # 0 /\ e.time < a.at
SameTimestamp(a, e) == a.at # 0 /\ e.time = a.at

\* A mismatch is an exception, which records nothing.
CustomerMatches(a, e) == CustomerOf[e.sub] \in {None, a.customer}

\* The note the ledger gets.
NoteOf(a, e) ==
    CASE OutOfOrder(a, e) -> "out_of_order"
      [] SameTimestamp(a, e) -> "same_timestamp_fail_closed"
      [] ~OutOfOrder(a, e) /\ ~SameTimestamp(a, e) ->
            IF ~e.entitled THEN "applied:delinquent"
            ELSE IF PriceMap[e.price] = None THEN "unknown_price"
            ELSE "applied:active"

\* Mutation of AfterEvent: an unknown price raises no flag.
AfterEventUnflagged(a, e, id) ==
    LET note == NoteOf(a, e)
        dated == [a EXCEPT !.at = e.time, !.last = id]
    IN CASE note = "out_of_order" -> a
         [] note = "same_timestamp_fail_closed" -> [a EXCEPT !.flagged = TRUE]
         [] note = "unknown_price" -> dated
         [] note = "applied:active" ->
               [dated EXCEPT !.plan = PriceMap[e.price], !.status = "active",
                             !.flagged = FALSE]
         [] note = "applied:delinquent" ->
               [dated EXCEPT !.plan = DefaultPlan, !.status = "delinquent",
                             !.flagged = FALSE]

\* What event e, whose identifier is id, makes of the row.
AfterEvent(a, e, id) ==
    LET note == NoteOf(a, e)
        dated == [a EXCEPT !.at = e.time, !.last = id]
    IN CASE note = "out_of_order" -> a
         [] note = "same_timestamp_fail_closed" -> [a EXCEPT !.flagged = TRUE]
         [] note = "unknown_price" -> [dated EXCEPT !.flagged = TRUE]
         [] note = "applied:active" ->
               [dated EXCEPT !.plan = PriceMap[e.price], !.status = "active",
                             !.flagged = FALSE]
         [] note = "applied:delinquent" ->
               [dated EXCEPT !.plan = DefaultPlan, !.status = "delinquent",
                             !.flagged = FALSE]
=============================================================================
