------------------------------ MODULE Billing -------------------------------
(***************************************************************************)
(* Accounts, payment events and hosted checkouts: persistence/billing.py,  *)
(* persistence/checkout.py and application/billing.py.                     *)
(*                                                                         *)
(* The provider is external: it sells one subscription per paid checkout   *)
(* session, changes its status and price, and announces each change in an  *)
(* event that is delivered late, out of order, repeatedly or never.        *)
(*                                                                         *)
(* A transaction is one step.  A completed checkout takes two: the service *)
(* reads the subscription's current state from the provider, and only then *)
(* opens the transaction that binds it (Retrieve, then Complete).          *)
(***************************************************************************)
EXTENDS Accounts

CONSTANTS
    Orgs,           \* organisations
    AssignedPlans,  \* plans the operator assigns (a bound for TLC)
    BoundByHand,    \* subscriptions the operator binds (a bound for TLC)
    MaxRequests,    \* checkout requests of one organisation at a time
    MaxTime         \* bound on the provider's clock

ASSUME BillingAssumption ==
    /\ None \notin Orgs
    /\ AssignedPlans \subseteq Plans
    /\ BoundByHand \subseteq Subscriptions
    /\ MaxRequests \in Nat
    /\ MaxTime \in Nat \ {0}

VARIABLES
    account,        \* account[o]: the row of billing_accounts
    ledger,         \* ledger[id]: the row of billing_events
    checkout,       \* checkout[o]: the row of billing_checkouts
    asking,         \* asking[o]: checkout requests past the check for a binding
    retrieved,      \* completions between the retrieval and the transaction
    event,          \* event[id]: what the provider has sent
    subscription,   \* subscription[s]: its state at the provider
    sessions,       \* sessions[o]: checkout sessions opened at the provider
    now,            \* the provider's clock, in seconds
    byOperator,     \* history: the plan in force is the operator's decision
    asOf            \* history: when what decided the account was true

service  == <<account, ledger, checkout, asking, retrieved, sessions>>
provider == <<event, subscription, now>>
history  == <<byOperator, asOf>>
vars == <<service, provider, history>>

Stage == {"none", "reserved", "ambiguous", "open", "completed"}

NotSent == [kind |-> "unsent", sub |-> None, time |-> 0]
Sent == [kind : {"change"}, sub : Subscriptions, time : Nat \ {0},
         entitled : BOOLEAN, price : Prices]
            \cup [kind : {"checkout"}, sub : Subscriptions, time : Nat \ {0},
                  reference : Orgs]

Unseen == [org |-> None, sub |-> None, note |-> "unseen"]

\* A retrieval: the event that asked for it, what it returned, and when.
Retrieval == [id : EventIds, entitled : BOOLEAN, at : Nat]

\* Every variable has its type, an event names a subscription that was sold,
\* and a completion in flight belongs to a checkout event of an open checkout
\* or one that another delivery completed.
TypeOK ==
    /\ account \in [Orgs -> Account]
    /\ ledger \in [EventIds -> [org : Orgs \cup {None},
                                sub : Subscriptions \cup {None},
                                note : Notes \cup {"unseen"}]]
    /\ checkout \in [Orgs -> [stage : Stage, price : Prices \cup {None}]]
    /\ asking \in [Orgs -> Nat]
    /\ retrieved \in SUBSET Retrieval
    /\ event \in [EventIds -> Sent \cup {NotSent}]
    /\ subscription \in [Subscriptions ->
            [sold : BOOLEAN, entitled : BOOLEAN, price : Prices \cup {None}]]
    /\ sessions \in [Orgs -> Nat]
    /\ now \in Nat \ {0}
    /\ byOperator \in [Orgs -> BOOLEAN]
    /\ asOf \in [Orgs -> Nat]
    /\ \A id \in EventIds :
          event[id].kind # "unsent" => subscription[event[id].sub].sold
    /\ \A r \in retrieved :
          /\ event[r.id].kind = "checkout"
          /\ checkout[event[r.id].reference].stage \in {"open", "completed"}

Init ==
    /\ account = [o \in Orgs |-> NoAccount]
    /\ ledger = [id \in EventIds |-> Unseen]
    /\ checkout = [o \in Orgs |-> [stage |-> "none", price |-> None]]
    /\ asking = [o \in Orgs |-> 0]
    /\ retrieved = {}
    /\ event = [id \in EventIds |-> NotSent]
    /\ subscription = [s \in Subscriptions |->
                          [sold |-> FALSE, entitled |-> FALSE, price |-> None]]
    /\ sessions = [o \in Orgs |-> 0]
    /\ now = 1
    /\ byOperator = [o \in Orgs |-> FALSE]
    /\ asOf = [o \in Orgs |-> 0]

-----------------------------------------------------------------------------
(* The provider. *)

Tick ==
    /\ now < MaxTime
    /\ now' = now + 1
    /\ UNCHANGED <<service, event, subscription, history>>

\* A subscription changes, or is sold outside the hosted checkout.
Change(s, entitled, price, id) ==
    /\ event[id] = NotSent
    /\ subscription[s].sold \/ s \in BoundByHand
    /\ subscription' = [subscription EXCEPT
            ![s] = [sold |-> TRUE, entitled |-> entitled, price |-> price]]
    /\ event' = [event EXCEPT
            ![id] = [kind |-> "change", sub |-> s, time |-> now,
                     entitled |-> entitled, price |-> price]]
    /\ UNCHANGED <<service, now, history>>

\* The customer pays in the session whose address the service handed out.
Pay(o, s, id) ==
    /\ checkout[o].stage = "open"
    /\ \A i \in EventIds :
          event[i].kind = "checkout" => event[i].reference # o
    /\ ~subscription[s].sold
    /\ CustomerOf[s] # None
    /\ event[id] = NotSent
    /\ subscription' = [subscription EXCEPT
            ![s] = [sold |-> TRUE, entitled |-> TRUE, price |-> checkout[o].price]]
    /\ event' = [event EXCEPT
            ![id] = [kind |-> "checkout", sub |-> s, time |-> now,
                     reference |-> o]]
    /\ UNCHANGED <<service, now, history>>

-----------------------------------------------------------------------------
(* Opening a checkout: _create_checkout. *)

\* The check of `binding`, in a transaction of its own.
Ask(o) ==
    /\ asking[o] < MaxRequests
    /\ account[o].sub = None
    /\ asking' = [asking EXCEPT ![o] = @ + 1]
    /\ UNCHANGED <<account, ledger, checkout, retrieved, sessions,
                   provider, history>>

\* Mutation of Unreserved: the row is not unique per organisation.
ReservedAgain(o) == TRUE

Unreserved(o) == checkout[o].stage = "none"

\* `action`: a plan is sold hosted only when exactly one price stands for it.
Sellable(price) ==
    /\ PriceMap[price] # None
    /\ \A other \in Prices \ {price} : PriceMap[other] # PriceMap[price]

\* The row of `reserve` is unique per organisation and stays for good.
Reserve(o, price) ==
    /\ asking[o] > 0
    /\ Sellable(price)
    /\ Unreserved(o)
    /\ asking' = [asking EXCEPT ![o] = @ - 1]
    /\ checkout' = [checkout EXCEPT
            ![o] = [stage |-> "reserved", price |-> price]]
    /\ UNCHANGED <<account, ledger, retrieved, sessions, provider, history>>

RefuseReserve(o) ==
    /\ asking[o] > 0
    /\ ~Unreserved(o)
    /\ asking' = [asking EXCEPT ![o] = @ - 1]
    /\ UNCHANGED <<account, ledger, checkout, retrieved, sessions,
                   provider, history>>

\* The provider opens a session; `set_session` stores it, or the reply or the
\* process is lost and the row is left for offline reconciliation.
OpenSession(o, stage) ==
    /\ checkout[o].stage = "reserved"
    /\ stage \in {"open", "ambiguous"}
    /\ sessions' = [sessions EXCEPT ![o] = @ + 1]
    /\ checkout' = [checkout EXCEPT ![o].stage = stage]
    /\ UNCHANGED <<account, ledger, asking, retrieved, provider, history>>

\* Mutation of LoseRequest: a late timeout takes back a session handed out.
LoseRequestLate(o) ==
    /\ checkout[o].stage \in {"reserved", "open"}
    /\ checkout' = [checkout EXCEPT ![o].stage = "ambiguous"]
    /\ UNCHANGED <<account, ledger, asking, retrieved, sessions,
                   provider, history>>

\* The request fails before the provider opens a session.
LoseRequest(o) ==
    /\ checkout[o].stage = "reserved"
    /\ checkout' = [checkout EXCEPT ![o].stage = "ambiguous"]
    /\ UNCHANGED <<account, ledger, asking, retrieved, sessions,
                   provider, history>>

-----------------------------------------------------------------------------
(* Events. *)

\* Mutation of NotProcessed: the ledger is not consulted.
ProcessedAgain(id) == TRUE

NotProcessed(id) == ledger[id] = Unseen

Record(id, o, s, note) ==
    ledger' = [ledger EXCEPT ![id] = [org |-> o, sub |-> s, note |-> note]]

\* process_event on the row a, which register_subscription may have prepared:
\* e is the event, and `time` when its contents held.
ProcessEvent(o, a, e, id, time) ==
    LET note == NoteOf(a, e)
        first == NotProcessed(id)
        decides == first /\ note \in Applied \cup {"unknown_price"}
    IN /\ account' = [account EXCEPT
                         ![o] = IF first THEN AfterEvent(a, e, id) ELSE a]
       /\ IF first THEN Record(id, o, e.sub, note) ELSE UNCHANGED ledger
       /\ byOperator' = [byOperator EXCEPT ![o] = @ /\ ~decides]
       /\ asOf' = [asOf EXCEPT ![o] =
                      IF decides THEN time
                      ELSE IF a.sub = account[o].sub THEN @ ELSE 0]

Facts(id) == [sub |-> event[id].sub, time |-> event[id].time,
              entitled |-> event[id].entitled, price |-> event[id].price]

\* `apply_event`, for a subscription that is bound to an organisation.
Apply(o, id) ==
    /\ event[id].kind = "change"
    /\ account[o].sub = event[id].sub
    /\ \/ OutOfOrder(account[o], Facts(id))
       \/ SameTimestamp(account[o], Facts(id))
       \/ CustomerMatches(account[o], Facts(id))
    /\ ProcessEvent(o, account[o], Facts(id), id, event[id].time)
    /\ UNCHANGED <<checkout, asking, retrieved, sessions, provider>>

\* `apply_event`, for a subscription that no organisation has.
Ignore(id) ==
    /\ event[id].kind = "change"
    /\ \A o \in Orgs : account[o].sub # event[id].sub
    /\ NotProcessed(id)
    /\ Record(id, None, event[id].sub, "unregistered_subscription")
    /\ UNCHANGED <<account, checkout, asking, retrieved, sessions,
                   provider, history>>

\* `find`: only a row whose session was stored is found; a reserved or ambiguous
\* one has none.
Found(o) == checkout[o].stage \in {"open", "completed"}

\* `complete_checkout`: the row of the session, and the subscription as the
\* provider has it now, which must carry the price of the row.
Retrieve(id) ==
    /\ event[id].kind = "checkout"
    /\ Found(event[id].reference)
    /\ checkout[event[id].reference].stage # "completed"
    /\ subscription[event[id].sub].price = checkout[event[id].reference].price
    /\ retrieved' = retrieved \cup
            {[id |-> id, entitled |-> subscription[event[id].sub].entitled,
              at |-> now]}
    /\ UNCHANGED <<account, ledger, checkout, asking, sessions,
                   provider, history>>

\* Mutation of FreeFor: nobody looks for the other organisation.
FreeOrNot(o, s) == TRUE

\* The subscription is bound to no other organisation: the check of
\* `register_subscription` and the unique constraint behind it.
FreeFor(o, s) == \A other \in Orgs \ {o} : account[other].sub # s

\* `complete`: the guards of the transaction.
MayComplete(o, s) ==
    /\ checkout[o].stage = "open"
    /\ account[o].sub \in {None, s}
    /\ FreeFor(o, s)

\* Mutation of MarkCompleted: left to a later transaction.
MarkNothing(o) == UNCHANGED checkout

MarkCompleted(o) == checkout' = [checkout EXCEPT ![o].stage = "completed"]

Complete(r) ==
    LET o == event[r.id].reference
        s == event[r.id].sub
    IN /\ r \in retrieved
       /\ MayComplete(o, s)
       /\ ProcessEvent(o, Bound(account[o], s, CustomerOf[s], None),
                       [sub |-> s, time |-> event[r.id].time,
                        entitled |-> r.entitled, price |-> checkout[o].price],
                       r.id, r.at)
       /\ MarkCompleted(o)
       /\ retrieved' = retrieved \ {r}
       /\ UNCHANGED <<asking, sessions, provider>>

\* The transaction finds the checkout completed or the binding taken, or the
\* process stops before it.
Abandon(r) ==
    /\ r \in retrieved
    /\ retrieved' = retrieved \ {r}
    /\ UNCHANGED <<account, ledger, checkout, asking, sessions,
                   provider, history>>

-----------------------------------------------------------------------------
(* The operator. *)

AssignPlan(o, plan) ==
    /\ account' = [account EXCEPT ![o] = Assigned(@, plan)]
    /\ byOperator' = [byOperator EXCEPT ![o] = TRUE]
    /\ UNCHANGED <<ledger, checkout, asking, retrieved, sessions,
                   provider, asOf>>

RegisterSubscription(o, s, customer, plan) ==
    /\ FreeFor(o, s)
    /\ account' = [account EXCEPT ![o] = Bound(@, s, customer, plan)]
    /\ byOperator' = [byOperator EXCEPT ![o] = @ \/ plan # None]
    /\ asOf' = [asOf EXCEPT ![o] = IF account[o].sub = s THEN @ ELSE 0]
    /\ UNCHANGED <<ledger, checkout, asking, retrieved, sessions, provider>>

-----------------------------------------------------------------------------
Next ==
    \/ Tick
    \/ \E s \in Subscriptions, entitled \in BOOLEAN, price \in Prices,
          id \in EventIds : Change(s, entitled, price, id)
    \/ \E o \in Orgs, s \in Subscriptions, id \in EventIds : Pay(o, s, id)
    \/ \E o \in Orgs : Ask(o) \/ RefuseReserve(o) \/ LoseRequest(o)
    \/ \E o \in Orgs, price \in Prices : Reserve(o, price)
    \/ \E o \in Orgs, stage \in Stage : OpenSession(o, stage)
    \/ \E o \in Orgs, id \in EventIds : Apply(o, id)
    \/ \E id \in EventIds : Ignore(id) \/ Retrieve(id)
    \/ \E r \in retrieved : Complete(r) \/ Abandon(r)
    \/ \E o \in Orgs, plan \in AssignedPlans : AssignPlan(o, plan)
    \/ \E o \in Orgs, s \in BoundByHand, customer \in Customers,
          plan \in AssignedPlans \cup {None} :
             RegisterSubscription(o, s, customer, plan)

Spec == Init /\ [][Next]_vars
-----------------------------------------------------------------------------
(* What the accounts promise. *)

Paid(o) == PlanInForce(account[o]) # DefaultPlan

\* The price an event is about.
PriceOf(id) == IF event[id].kind = "checkout"
               THEN checkout[event[id].reference].price
               ELSE event[id].price

\* A paid plan in force is the operator's decision, or that of the event the
\* account names last: one about the subscription the account is bound to,
\* applied to this organisation, entitled, for the plan of its price and with
\* the account's own date.  Flagged and lapsed accounts are never paid.
PaidByDecision ==
    \A o \in Orgs : Paid(o) /\ ~byOperator[o] =>
        LET a == account[o]
        IN /\ a.last # None
           /\ ledger[a.last] = [org |-> o, sub |-> a.sub, note |-> "applied:active"]
           /\ event[a.last].sub = a.sub
           /\ event[a.last].time = a.at
           /\ a.plan = PriceMap[PriceOf(a.last)]

\* As long as an account keeps its subscription, its event date never goes
\* back, and nothing but a strictly newer event or the operator changes its
\* plan or status or lifts its flag (process_event's two comparisons).
OlderNeverUndoes ==
    [][\A o \in Orgs :
          LET a == account[o]
              b == account'[o]
          IN a.sub = b.sub =>
                /\ a.at <= b.at
                /\ \/ a.plan # b.plan
                   \/ a.status # b.status
                   \/ a.flagged /\ ~b.flagged
                   => a.at < b.at \/ byOperator'[o]]_vars

\* An event decides at most one account at most once, however often it is
\* delivered: what the ledger has of it is final, and an account only names an
\* event the ledger did not have.
EventsCountOnce ==
    [][/\ \A id \in EventIds : ledger[id] # Unseen => ledger'[id] = ledger[id]
       /\ \A o \in Orgs : account'[o].last \notin {None, account[o].last} =>
             ledger[account'[o].last] = Unseen]_vars

\* No subscription pays for two organisations.
OneOrgEach ==
    \A o, other \in Orgs :
        account[o].sub # None /\ account[o].sub = account[other].sub => o = other

\* A checkout is completed together with the record of its event: a crash or a
\* second delivery never leaves one without the other.
CompletionIsWhole ==
    \A id \in EventIds : event[id].kind = "checkout" =>
        LET o == event[id].reference
        IN /\ checkout[o].stage \in {"open", "completed"}
           /\ checkout[o].stage = "completed" <=> ledger[id] # Unseen
           /\ ledger[id] # Unseen => ledger[id].org = o

\* However many requests, tabs and lost replies, the provider opens at most one
\* checkout session per organisation, and sells it one subscription there.
OneSession ==
    /\ \A o \in Orgs : sessions[o] <= 1
    /\ \A i, j \in EventIds :
          event[i].kind = "checkout" /\ event[j].kind = "checkout" =>
              i = j \/ event[i].reference # event[j].reference

\* Older events do not undo newer decisions: what changes the plan in force was
\* true no earlier than what decided it, the decision of a completed checkout
\* counting from the retrieval it rests on.
RetrievalStands ==
    [][\A o \in Orgs :
          /\ account[o].sub = account'[o].sub
          /\ PlanInForce(account[o]) # PlanInForce(account'[o])
          => asOf[o] <= asOf'[o]]_vars

\* Once everything the provider sent is processed, no organisation is on a paid
\* plan whose subscription has lapsed, unless the operator says so.
LapsedIsNotPaid ==
    \A o \in Orgs :
        (/\ retrieved = {}
         /\ \A id \in EventIds : event[id].kind = "change" => ledger[id] # Unseen
         /\ account[o].sub # None
         /\ ~subscription[account[o].sub].entitled
         /\ ~byOperator[o]) => ~Paid(o)
=============================================================================
