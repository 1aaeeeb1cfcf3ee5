---------------------------- MODULE BillingProofs ---------------------------
(***************************************************************************)
(* Theorems about Billing, for any organisations, subscriptions, events,   *)
(* prices and plans and a clock that runs as long as it likes.             *)
(***************************************************************************)
EXTENDS Billing, TLAPS

(* The operators on accounts. *)

\* Five outcomes, and when each of them is reached (process_event's branches).
LEMMA NoteCases ==
    ASSUME NEW a \in Account, NEW e \in Event
    PROVE  \/ /\ NoteOf(a, e) = "out_of_order"
              /\ a.at # 0 /\ e.time < a.at
           \/ /\ NoteOf(a, e) = "same_timestamp_fail_closed"
              /\ a.at # 0 /\ e.time = a.at
           \/ /\ NoteOf(a, e) = "applied:delinquent"
              /\ a.at < e.time
           \/ /\ NoteOf(a, e) = "unknown_price"
              /\ a.at < e.time
           \/ /\ NoteOf(a, e) = "applied:active"
              /\ a.at < e.time
              /\ PriceMap[e.price] # None
<1>1. a.at \in Nat /\ e.time \in Nat \ {0}
  BY DEF Account, Event
<1>2. CASE OutOfOrder(a, e)
  BY <1>1, <1>2 DEF NoteOf, OutOfOrder, SameTimestamp
<1>3. CASE SameTimestamp(a, e)
  BY <1>1, <1>3 DEF NoteOf, OutOfOrder, SameTimestamp
<1>4. CASE ~OutOfOrder(a, e) /\ ~SameTimestamp(a, e)
  <2>1. a.at < e.time
    BY <1>1, <1>4 DEF OutOfOrder, SameTimestamp
  <2>2. NoteOf(a, e) = IF ~e.entitled THEN "applied:delinquent"
                       ELSE IF PriceMap[e.price] = None THEN "unknown_price"
                       ELSE "applied:active"
    BY <1>4 DEF NoteOf
  <2>. QED
    BY <2>1, <2>2
<1>. QED
  BY <1>2, <1>3, <1>4

\* What each outcome makes of the row.
LEMMA Outcomes ==
    ASSUME NEW a \in Account, NEW e \in Event, NEW id \in EventIds
    PROVE  LET b == AfterEvent(a, e, id)
               note == NoteOf(a, e)
           IN /\ b \in Account
              /\ b.sub = a.sub /\ b.customer = a.customer
              /\ note = "out_of_order" => b = a
              /\ note = "same_timestamp_fail_closed" =>
                    b = [a EXCEPT !.flagged = TRUE]
              /\ note \in {"out_of_order", "same_timestamp_fail_closed"} =>
                    b.at = a.at /\ b.last = a.last
              /\ note \notin {"out_of_order", "same_timestamp_fail_closed"} =>
                    b.at = e.time /\ b.last = id
              /\ note = "unknown_price" => b.flagged
              /\ note = "applied:active" =>
                    b.plan = PriceMap[e.price] /\ b.status = "active"
              /\ note = "applied:delinquent" => b.status = "delinquent"
<1>. DEFINE b == AfterEvent(a, e, id)
            dated == [a EXCEPT !.at = e.time, !.last = id]
            note == NoteOf(a, e)
<1>1. /\ e.time \in Nat /\ e.price \in Prices
      /\ DefaultPlan \in Plans
      /\ PriceMap[e.price] # None => PriceMap[e.price] \in Plans
  BY AccountsAssumption DEF Event
<1>2. CASE note = "out_of_order"
  <2>1. b = a
    BY <1>2 DEF AfterEvent
  <2>. QED
    BY <1>2, <2>1
<1>3. CASE note = "same_timestamp_fail_closed"
  <2>1. b = [a EXCEPT !.flagged = TRUE]
    BY <1>3 DEF AfterEvent
  <2>. QED
    BY <1>3, <2>1 DEF Account
<1>4. CASE note = "unknown_price"
  <2>1. b = [dated EXCEPT !.flagged = TRUE]
    BY <1>4 DEF AfterEvent
  <2>. QED
    BY <1>1, <1>4, <2>1 DEF Account
<1>5. CASE note = "applied:active"
  <2>1. b = [dated EXCEPT !.plan = PriceMap[e.price], !.status = "active",
                          !.flagged = FALSE]
    BY <1>5 DEF AfterEvent
  <2>2. PriceMap[e.price] \in Plans
    BY <1>1, <1>5, NoteCases
  <2>. QED
    BY <1>1, <1>5, <2>1, <2>2 DEF Account
<1>6. CASE note = "applied:delinquent"
  <2>1. b = [dated EXCEPT !.plan = DefaultPlan, !.status = "delinquent",
                          !.flagged = FALSE]
    BY <1>6 DEF AfterEvent
  <2>. QED
    BY <1>1, <1>6, <2>1 DEF Account
<1>. HIDE DEF note, b
<1>7. \/ note = "out_of_order" \/ note = "same_timestamp_fail_closed"
      \/ note = "unknown_price" \/ note = "applied:active"
      \/ note = "applied:delinquent"
  BY NoteCases DEF note
<1>. QED
  BY <1>2, <1>3, <1>4, <1>5, <1>6, <1>7 DEF note, b

\* A binding is an account, and forgets the order of another subscription's
\* events (register_subscription).
LEMMA Bindings ==
    ASSUME NEW a \in Account, NEW s \in Subscriptions,
           NEW customer \in Customers \cup {None}, NEW plan \in Plans \cup {None}
    PROVE  LET b == Bound(a, s, customer, plan)
           IN /\ b \in Account
              /\ b.sub = s
              /\ a.sub = s => b.at = a.at /\ b.last = a.last /\ b.status = a.status
                              /\ b.flagged = a.flagged
              /\ a.sub # s => b.at = 0 /\ b.last = None /\ b.status = "registered"
              /\ plan = None => b.plan = a.plan
<1>. DEFINE b == Bound(a, s, customer, plan)
<1>1. a.flagged \in BOOLEAN
  BY DEF Account
<1>2. CASE a.sub = s
  BY <1>1, <1>2 DEF Account, Bound
<1>3. CASE a.sub # s
  BY <1>1, <1>3 DEF Account, Bound
<1>. QED
  BY <1>2, <1>3

-----------------------------------------------------------------------------
(* Types. *)

\* What the two transactions that process an event do to the accounts and the
\* ledger.
LEMMA ProcessedRows ==
    ASSUME TypeOK, NEW o \in Orgs, NEW a \in Account, NEW e \in Event,
           NEW id \in EventIds, NEW time \in Nat,
           ProcessEvent(o, a, e, id, time)
    PROVE  /\ account' \in [Orgs -> Account]
           /\ ledger' \in [EventIds -> [org : Orgs \cup {None},
                                        sub : Subscriptions \cup {None},
                                        note : Notes \cup {"unseen"}]]
           /\ account'[o].sub = a.sub
           /\ \A other \in Orgs : other # o => account'[other] = account[other]
           /\ \A i \in EventIds : i # id => ledger'[i] = ledger[i]
           /\ NotProcessed(id) =>
                 /\ account'[o] = AfterEvent(a, e, id)
                 /\ ledger'[id] = [org |-> o, sub |-> e.sub, note |-> NoteOf(a, e)]
           /\ ~NotProcessed(id) => account'[o] = a /\ ledger' = ledger
<1>. DEFINE note == NoteOf(a, e)
            row == IF NotProcessed(id) THEN AfterEvent(a, e, id) ELSE a
            first == NotProcessed(id)
<1>1. /\ account' = [account EXCEPT ![o] = row]
      /\ first => ledger' = [ledger EXCEPT
                      ![id] = [org |-> o, sub |-> e.sub, note |-> note]]
      /\ ~first => ledger' = ledger
  BY DEF ProcessEvent, Record
<1>2. row \in Account /\ row.sub = a.sub
  BY Outcomes
<1>3. note \in Notes
  BY NoteCases DEF Notes, Applied
<1>4. e.sub \in Subscriptions
  BY DEF Event
<1>5. /\ account \in [Orgs -> Account]
      /\ ledger \in [EventIds -> [org : Orgs \cup {None},
                                  sub : Subscriptions \cup {None},
                                  note : Notes \cup {"unseen"}]]
  BY DEF TypeOK
<1>. HIDE DEF note, row, first
<1>6. /\ account' \in [Orgs -> Account]
      /\ account'[o] = row
      /\ \A other \in Orgs : other # o => account'[other] = account[other]
  BY <1>1, <1>2, <1>5
<1>7. /\ ledger' \in [EventIds -> [org : Orgs \cup {None},
                                   sub : Subscriptions \cup {None},
                                   note : Notes \cup {"unseen"}]]
      /\ \A i \in EventIds : i # id => ledger'[i] = ledger[i]
      /\ first => ledger'[id] = [org |-> o, sub |-> e.sub, note |-> note]
  <2>1. CASE first
    BY <1>1, <1>3, <1>4, <1>5, <2>1
  <2>2. CASE ~first
    BY <1>1, <1>5, <2>2
  <2>. QED
    BY <2>1, <2>2
<1>8. account'[o].sub = a.sub
  BY <1>2, <1>6
<1>9. /\ NotProcessed(id) =>
             /\ account'[o] = AfterEvent(a, e, id)
             /\ ledger'[id] = [org |-> o, sub |-> e.sub, note |-> NoteOf(a, e)]
      /\ ~NotProcessed(id) => account'[o] = a /\ ledger' = ledger
  BY <1>1, <1>6, <1>7 DEF note, row, first
<1>. QED
  BY <1>6, <1>7, <1>8, <1>9

\* The ledger's other rows stay.
LEMMA OtherEvents ==
    ASSUME TypeOK, NEW o, NEW a, NEW e, NEW id, NEW time,
           ProcessEvent(o, a, e, id, time), NEW i \in EventIds, i # id
    PROVE  ledger'[i] = ledger[i]
BY DEF ProcessEvent, Record, TypeOK

\* A first delivery makes of the row what AfterEvent says.
LEMMA FirstDelivery ==
    ASSUME TypeOK, NEW o \in Orgs, NEW a, NEW e, NEW id, NEW time,
           ProcessEvent(o, a, e, id, time), NotProcessed(id)
    PROVE  account'[o] = AfterEvent(a, e, id)
BY DEF ProcessEvent, TypeOK

\* And to the history of decisions: only a first delivery that decides
\* anything replaces the operator's word.
LEMMA ProcessedHistory ==
    ASSUME TypeOK, NEW o \in Orgs, NEW a \in Account, NEW e \in Event,
           NEW id \in EventIds, NEW time \in Nat,
           ProcessEvent(o, a, e, id, time)
    PROVE  /\ byOperator' \in [Orgs -> BOOLEAN]
           /\ asOf' \in [Orgs -> Nat]
           /\ \A other \in Orgs : other # o => byOperator'[other] = byOperator[other]
           /\ byOperator'[o] <=>
                 /\ byOperator[o]
                 /\ ~(/\ NotProcessed(id)
                      /\ NoteOf(a, e) \in Applied \cup {"unknown_price"})
<1>. DEFINE decides == /\ NotProcessed(id)
                       /\ NoteOf(a, e) \in Applied \cup {"unknown_price"}
<1>1. /\ byOperator' = [byOperator EXCEPT ![o] = @ /\ ~decides]
      /\ asOf' = [asOf EXCEPT ![o] = IF decides THEN time
                                     ELSE IF a.sub = account[o].sub THEN @ ELSE 0]
  BY DEF ProcessEvent
<1>2. byOperator \in [Orgs -> BOOLEAN] /\ asOf \in [Orgs -> Nat]
  BY DEF TypeOK
<1>. HIDE DEF decides
<1>3. /\ byOperator' \in [Orgs -> BOOLEAN]
      /\ byOperator'[o] = (byOperator[o] /\ ~decides)
      /\ \A other \in Orgs : other # o => byOperator'[other] = byOperator[other]
  BY <1>1, <1>2
<1>4. asOf' \in [Orgs -> Nat]
  BY <1>1, <1>2
<1>5. byOperator[o] \in BOOLEAN /\ byOperator'[o] \in BOOLEAN
  BY <1>2, <1>3
<1>6. byOperator'[o] <=> byOperator[o] /\ ~decides
  BY <1>3, <1>5
<1>. QED
  BY <1>3, <1>4, <1>6 DEF decides

\* What a change announces is an event.
LEMMA FactsAreEvents ==
    ASSUME TypeOK, NEW id \in EventIds, event[id].kind = "change"
    PROVE  /\ Facts(id) \in Event
           /\ Facts(id).sub = event[id].sub
           /\ Facts(id).time = event[id].time
           /\ Facts(id).price = event[id].price
<1>1. event[id] \in Sent \cup {NotSent}
  BY DEF TypeOK
<1>2. event[id].sub \in Subscriptions /\ event[id].time \in Nat \ {0}
      /\ event[id].entitled \in BOOLEAN /\ event[id].price \in Prices
  BY <1>1 DEF Sent, NotSent
<1>. QED
  BY <1>2 DEF Facts, Event

\* A checkout event has the organisation and the subscription of its checkout.
LEMMA CheckoutEvents ==
    ASSUME TypeOK, NEW id \in EventIds, event[id].kind = "checkout"
    PROVE  /\ event[id].reference \in Orgs
           /\ event[id].sub \in Subscriptions
           /\ event[id].time \in Nat \ {0}
<1>1. event[id] \in Sent \cup {NotSent}
  BY DEF TypeOK
<1>. QED
  BY <1>1 DEF Sent, NotSent

\* A checkout that was reserved has a price.
Priced == \A o \in Orgs :
    checkout[o].stage # "none" => checkout[o].price \in Prices

\* The account and the event that a completion hands to process_event.
Prepared(r) ==
    Bound(account[event[r.id].reference], event[r.id].sub,
          CustomerOf[event[r.id].sub], None)

Completion(r) ==
    [sub |-> event[r.id].sub, time |-> event[r.id].time,
     entitled |-> r.entitled, price |-> checkout[event[r.id].reference].price]

LEMMA Completing ==
    ASSUME TypeOK, Priced, NEW r \in retrieved, Complete(r)
    PROVE  /\ r.id \in EventIds /\ event[r.id].kind = "checkout"
           /\ event[r.id].reference \in Orgs
           /\ event[r.id].sub \in Subscriptions
           /\ Prepared(r) \in Account
           /\ Completion(r) \in Event
           /\ ProcessEvent(event[r.id].reference, Prepared(r), Completion(r),
                           r.id, r.at)
           /\ r.at \in Nat
           /\ MayComplete(event[r.id].reference, event[r.id].sub)
           /\ Prepared(r).sub = event[r.id].sub
<1>1. r \in Retrieval /\ event[r.id].kind = "checkout"
  BY DEF TypeOK
<1>2. r.id \in EventIds /\ r.entitled \in BOOLEAN /\ r.at \in Nat
  BY <1>1 DEF Retrieval
<1>3. /\ event[r.id].reference \in Orgs
      /\ event[r.id].sub \in Subscriptions
      /\ event[r.id].time \in Nat \ {0}
  BY <1>1, <1>2, CheckoutEvents
<1>4. /\ MayComplete(event[r.id].reference, event[r.id].sub)
      /\ ProcessEvent(event[r.id].reference, Prepared(r), Completion(r), r.id, r.at)
  BY DEF Complete, Prepared, Completion
<1>5. checkout[event[r.id].reference].price \in Prices
  BY <1>3, <1>4 DEF MayComplete, Priced
<1>6. Completion(r) \in Event
  BY <1>2, <1>3, <1>5 DEF Completion, Event
<1>7. Prepared(r) \in Account /\ Prepared(r).sub = event[r.id].sub
  <2>1. account[event[r.id].reference] \in Account
    BY <1>3 DEF TypeOK
  <2>2. CustomerOf[event[r.id].sub] \in Customers \cup {None}
    BY <1>3, AccountsAssumption
  <2>. QED
    BY <1>3, <2>1, <2>2, Bindings DEF Prepared
<1>. QED
  BY <1>1, <1>2, <1>3, <1>4, <1>6, <1>7

Typed == TypeOK /\ Priced

LEMMA TypedInit == Init => Typed
<1>. SUFFICES ASSUME Init PROVE Typed
  OBVIOUS
<1>1. NoAccount \in Account
  BY AccountsAssumption DEF NoAccount, Account
<1>2. NotSent \in Sent \cup {NotSent} /\ NotSent.kind = "unsent"
  BY DEF NotSent
<1>3. TypeOK
  BY <1>1, <1>2 DEF Init, TypeOK, Unseen, Stage
<1>4. Priced
  BY DEF Init, Priced
<1>. QED
  BY <1>3, <1>4 DEF Typed

\* No step of any actor spoils the tables.
LEMMA TypedStep == Typed /\ [Next]_vars => Typed'
<1>. SUFFICES ASSUME TypeOK, Priced, [Next]_vars
              PROVE  TypeOK' /\ Priced'
  BY DEF Typed
<1>. USE DEF service, provider, history
<1>1. CASE Tick
  BY <1>1 DEF Tick, TypeOK, Priced
<1>2. ASSUME NEW s \in Subscriptions, NEW entitled \in BOOLEAN,
             NEW price \in Prices, NEW id \in EventIds,
             Change(s, entitled, price, id)
      PROVE  TypeOK' /\ Priced'
  <2>. DEFINE sent == [kind |-> "change", sub |-> s, time |-> now,
                       entitled |-> entitled, price |-> price]
              sold == [sold |-> TRUE, entitled |-> entitled, price |-> price]
  <2>1. sent \in Sent /\ sent.kind = "change" /\ sent.sub = s
    BY DEF TypeOK, Sent
  <2>2. event' = [event EXCEPT ![id] = sent] /\ event[id] = NotSent
        /\ subscription' = [subscription EXCEPT ![s] = sold]
        /\ UNCHANGED <<service, now, history>>
    BY <1>2 DEF Change
  <2>3. sold \in [sold : BOOLEAN, entitled : BOOLEAN, price : Prices \cup {None}]
        /\ sold.sold
    OBVIOUS
  <2>4. NotSent.kind = "unsent"
    BY DEF NotSent
  <2>. HIDE DEF sent, sold
  <2>5. \A i \in EventIds : event[i].kind # "unsent" =>
            event[i].sub \in Subscriptions
    BY DEF TypeOK, Sent, NotSent
  <2>6. TypeOK'
    BY <2>1, <2>2, <2>3, <2>4, <2>5 DEF TypeOK, Retrieval
  <2>. QED
    BY <2>2, <2>6 DEF Priced
<1>3. ASSUME NEW o \in Orgs, NEW s \in Subscriptions, NEW id \in EventIds,
             Pay(o, s, id)
      PROVE  TypeOK' /\ Priced'
  <2>. DEFINE sent == [kind |-> "checkout", sub |-> s, time |-> now,
                       reference |-> o]
              sold == [sold |-> TRUE, entitled |-> TRUE,
                       price |-> checkout[o].price]
  <2>1. sent \in Sent /\ sent.kind = "checkout" /\ sent.sub = s
    BY DEF TypeOK, Sent
  <2>2. event' = [event EXCEPT ![id] = sent] /\ event[id] = NotSent
        /\ subscription' = [subscription EXCEPT ![s] = sold]
        /\ UNCHANGED <<service, now, history>>
    BY <1>3 DEF Pay
  <2>3. sold \in [sold : BOOLEAN, entitled : BOOLEAN, price : Prices \cup {None}]
        /\ sold.sold
    BY DEF TypeOK
  <2>4. NotSent.kind = "unsent"
    BY DEF NotSent
  <2>. HIDE DEF sent, sold
  <2>5. \A i \in EventIds : event[i].kind # "unsent" =>
            event[i].sub \in Subscriptions
    BY DEF TypeOK, Sent, NotSent
  <2>6. TypeOK'
    BY <2>1, <2>2, <2>3, <2>4, <2>5 DEF TypeOK, Retrieval
  <2>. QED
    BY <2>2, <2>6 DEF Priced
<1>4. ASSUME NEW o \in Orgs, Ask(o) \/ RefuseReserve(o)
      PROVE  TypeOK' /\ Priced'
  <2>1. asking' \in [Orgs -> Nat]
    <3>1. asking \in [Orgs -> Nat] /\ asking[o] \in Nat
      BY DEF TypeOK
    <3>2. CASE Ask(o)
      BY <3>1, <3>2 DEF Ask
    <3>3. CASE RefuseReserve(o)
      BY <3>1, <3>3 DEF RefuseReserve
    <3>. QED
      BY <1>4, <3>2, <3>3
  <2>2. UNCHANGED <<account, ledger, checkout, retrieved, sessions, provider, history>>
    BY <1>4 DEF Ask, RefuseReserve
  <2>. QED
    BY <2>1, <2>2 DEF TypeOK, Priced
<1>5. ASSUME NEW o \in Orgs, LoseRequest(o)
      PROVE  TypeOK' /\ Priced'
  <2>1. \A r \in retrieved : event[r.id].reference \in Orgs
    BY CheckoutEvents DEF TypeOK, Retrieval
  <2>. QED
    BY <1>5, <2>1 DEF LoseRequest, TypeOK, Priced, Stage
<1>6. ASSUME NEW o \in Orgs, NEW price \in Prices, Reserve(o, price)
      PROVE  TypeOK' /\ Priced'
  <2>1. \A r \in retrieved : event[r.id].reference \in Orgs
    BY CheckoutEvents DEF TypeOK, Retrieval
  <2>. QED
    BY <1>6, <2>1 DEF Reserve, Unreserved, TypeOK, Priced, Stage
<1>7. ASSUME NEW o \in Orgs, NEW stage \in Stage, OpenSession(o, stage)
      PROVE  TypeOK' /\ Priced'
  <2>1. \A r \in retrieved : event[r.id].reference \in Orgs
    BY CheckoutEvents DEF TypeOK, Retrieval
  <2>. QED
    BY <1>7, <2>1 DEF OpenSession, TypeOK, Priced, Stage
<1>8. ASSUME NEW o \in Orgs, NEW id \in EventIds, Apply(o, id)
      PROVE  TypeOK' /\ Priced'
  <2>1. /\ Facts(id) \in Event /\ account[o] \in Account
        /\ event[id].time \in Nat
    BY <1>8, FactsAreEvents DEF Apply, TypeOK, Event
  <2>2. /\ account' \in [Orgs -> Account]
        /\ ledger' \in [EventIds -> [org : Orgs \cup {None},
                                     sub : Subscriptions \cup {None},
                                     note : Notes \cup {"unseen"}]]
    BY <1>8, <2>1, ProcessedRows DEF Apply
  <2>22. /\ byOperator' \in [Orgs -> BOOLEAN]
         /\ asOf' \in [Orgs -> Nat]
    BY <1>8, <2>1, ProcessedHistory DEF Apply
  <2>3. UNCHANGED <<checkout, asking, retrieved, sessions, provider>>
    BY <1>8 DEF Apply
  <2>. QED
    BY <2>2, <2>22, <2>3 DEF TypeOK, Priced
<1>9. ASSUME NEW id \in EventIds, Ignore(id)
      PROVE  TypeOK' /\ Priced'
  <2>1. event[id].sub \in Subscriptions
    BY <1>9 DEF Ignore, TypeOK, Sent, NotSent
  <2>2. ledger' \in [EventIds -> [org : Orgs \cup {None},
                                  sub : Subscriptions \cup {None},
                                  note : Notes \cup {"unseen"}]]
    BY <1>9, <2>1 DEF Ignore, Record, TypeOK, Notes
  <2>3. UNCHANGED <<account, checkout, asking, retrieved, sessions, provider, history>>
    BY <1>9 DEF Ignore
  <2>. QED
    BY <2>2, <2>3 DEF TypeOK, Priced
<1>10. ASSUME NEW id \in EventIds, Retrieve(id)
       PROVE  TypeOK' /\ Priced'
  <2>1. event[id].sub \in Subscriptions
    BY <1>10, CheckoutEvents DEF Retrieve
  <2>2. [id |-> id, entitled |-> subscription[event[id].sub].entitled,
         at |-> now] \in Retrieval
    BY <2>1 DEF TypeOK, Retrieval
  <2>. QED
    BY <1>10, <2>2 DEF Retrieve, Found, TypeOK, Priced
<1>11. ASSUME NEW r \in retrieved, Complete(r)
       PROVE  TypeOK' /\ Priced'
  <2>. DEFINE o == event[r.id].reference
  <2>1. /\ r.id \in EventIds /\ o \in Orgs /\ r.at \in Nat
        /\ Prepared(r) \in Account
        /\ Completion(r) \in Event
        /\ ProcessEvent(o, Prepared(r), Completion(r), r.id, r.at)
    BY <1>11, Completing
  <2>2. /\ account' \in [Orgs -> Account]
        /\ ledger' \in [EventIds -> [org : Orgs \cup {None},
                                     sub : Subscriptions \cup {None},
                                     note : Notes \cup {"unseen"}]]
    BY <2>1, ProcessedRows
  <2>22. /\ byOperator' \in [Orgs -> BOOLEAN]
         /\ asOf' \in [Orgs -> Nat]
    BY <2>1, ProcessedHistory
  <2>3. /\ UNCHANGED <<asking, sessions, provider>>
        /\ checkout' = [checkout EXCEPT ![o].stage = "completed"]
        /\ retrieved' = retrieved \ {r}
    BY <1>11 DEF Complete, MarkCompleted
  <2>4. \A x \in retrieved : event[x.id].reference \in Orgs
    BY CheckoutEvents DEF TypeOK, Retrieval
  <2>5. /\ checkout' \in [Orgs -> [stage : Stage, price : Prices \cup {None}]]
        /\ \A x \in Orgs : checkout'[x].price = checkout[x].price
        /\ \A x \in Orgs : x # o => checkout'[x].stage = checkout[x].stage
        /\ checkout'[o].stage = "completed"
    BY <2>1, <2>3 DEF TypeOK, Stage
  <2>6. checkout[o].stage # "none"
    BY <1>11 DEF Complete, MayComplete
  <2>. HIDE DEF o
  <2>7. TypeOK'
    BY <2>2, <2>22, <2>3, <2>4, <2>5 DEF TypeOK
  <2>8. Priced'
    BY <2>5, <2>6 DEF Priced
  <2>. QED
    BY <2>7, <2>8
<1>12. ASSUME NEW r \in retrieved, Abandon(r)
       PROVE  TypeOK' /\ Priced'
  BY <1>12 DEF Abandon, TypeOK, Priced
<1>13. ASSUME NEW o \in Orgs, NEW plan \in AssignedPlans, AssignPlan(o, plan)
       PROVE  TypeOK' /\ Priced'
  <2>1. account[o] \in Account /\ plan \in Plans
    BY BillingAssumption DEF TypeOK
  <2>2. Assigned(account[o], plan) \in Account
    BY <2>1 DEF Assigned, Account
  <2>. QED
    BY <1>13, <2>2 DEF AssignPlan, TypeOK, Priced
<1>14. ASSUME NEW o \in Orgs, NEW s \in BoundByHand, NEW customer \in Customers,
              NEW plan \in AssignedPlans \cup {None},
              RegisterSubscription(o, s, customer, plan)
       PROVE  TypeOK' /\ Priced'
  <2>1. account[o] \in Account /\ plan \in Plans \cup {None} /\ s \in Subscriptions
    BY BillingAssumption DEF TypeOK
  <2>2. Bound(account[o], s, customer, plan) \in Account
    BY <2>1, Bindings
  <2>. QED
    BY <1>14, <2>2 DEF RegisterSubscription, TypeOK, Priced
<1>15. CASE UNCHANGED vars
  BY <1>15 DEF vars, TypeOK, Priced
<1>. HIDE DEF service, provider, history
<1>. QED
  BY <1>1, <1>2, <1>3, <1>4, <1>5, <1>6, <1>7, <1>8, <1>9, <1>10, <1>11,
     <1>12, <1>13, <1>14, <1>15 DEF Next

\* The tables keep their types whatever happens in whatever order.
THEOREM TypeCorrect == Spec => []TypeOK
<1>1. Typed => TypeOK
  BY DEF Typed
<1>. QED
  BY <1>1, TypedInit, TypedStep, PTL DEF Spec

-----------------------------------------------------------------------------
(* Safety. *)

\* What the safety invariants rest on: an event that was not sent is in no row.
Ledgered == \A id \in EventIds : event[id].kind = "unsent" => ledger[id] = Unseen

\* No session exists before its checkout is reserved and opened.
Opened == \A o \in Orgs :
    sessions[o] <= IF checkout[o].stage \in {"none", "reserved"} THEN 0 ELSE 1

Inv ==
    /\ Typed
    /\ Ledgered
    /\ Opened
    /\ OneSession
    /\ CompletionIsWhole
    /\ OneOrgEach
    /\ PaidByDecision

LEMMA InvInit == Init => Inv
<1>. SUFFICES ASSUME Init PROVE Inv
  OBVIOUS
<1>1. Typed
  BY TypedInit
<1>2. Ledgered
  BY DEF Init, Ledgered
<1>3. Opened /\ OneSession
  BY DEF Init, Opened, OneSession, NotSent
<1>4. CompletionIsWhole
  BY DEF Init, CompletionIsWhole, NotSent
<1>5. OneOrgEach
  BY DEF Init, OneOrgEach, NoAccount
<1>6. PaidByDecision
  BY DEF Init, PaidByDecision, Paid, PlanInForce, NoAccount
<1>. QED
  BY <1>1, <1>2, <1>3, <1>4, <1>5, <1>6 DEF Inv

\* Only the four operations that write an account or the ledger matter to the
\* invariants about them; the others leave both alone and only send what was
\* not sent, and change only checkouts that are not completed.
Quiet ==
    /\ UNCHANGED <<account, ledger, byOperator>>
    /\ \A id \in EventIds : event[id].kind # "unsent" => event'[id] = event[id]
    /\ \A id \in EventIds :
          event[id].kind = "unsent" /\ event'[id].kind = "checkout" =>
             /\ event'[id].reference \in Orgs
             /\ checkout'[event'[id].reference].stage = "open"
    /\ \A o \in Orgs : checkout[o].stage \in {"open", "completed"} =>
          checkout'[o] = checkout[o]

LEMMA QuietSteps ==
    ASSUME Typed, [Next]_vars
    PROVE  \/ Quiet
           \/ \E o \in Orgs, id \in EventIds : Apply(o, id)
           \/ \E id \in EventIds : Ignore(id)
           \/ \E r \in retrieved : Complete(r)
           \/ \E o \in Orgs, plan \in AssignedPlans : AssignPlan(o, plan)
           \/ \E o \in Orgs, s \in BoundByHand, customer \in Customers,
                 plan \in AssignedPlans \cup {None} :
                    RegisterSubscription(o, s, customer, plan)
<1>. USE DEF service, provider, history
<1>0. /\ checkout \in [Orgs -> [stage : Stage, price : Prices \cup {None}]]
      /\ event \in [EventIds -> Sent \cup {NotSent}]
      /\ NotSent.kind = "unsent"
  BY DEF Typed, TypeOK, NotSent
<1>1. CASE Tick
  BY <1>1 DEF Tick, Quiet
<1>2. ASSUME NEW s \in Subscriptions, NEW entitled \in BOOLEAN,
             NEW price \in Prices, NEW id \in EventIds,
             Change(s, entitled, price, id)
      PROVE  Quiet
  BY <1>0, <1>2 DEF Change, Quiet
<1>3. ASSUME NEW o \in Orgs, NEW s \in Subscriptions, NEW id \in EventIds,
             Pay(o, s, id)
      PROVE  Quiet
  BY <1>0, <1>3 DEF Pay, Quiet
<1>4. ASSUME NEW o \in Orgs, Ask(o) \/ RefuseReserve(o) \/ LoseRequest(o)
      PROVE  Quiet
  BY <1>0, <1>4 DEF Ask, RefuseReserve, LoseRequest, Quiet
<1>5. ASSUME NEW o \in Orgs, NEW price \in Prices, Reserve(o, price)
      PROVE  Quiet
  BY <1>0, <1>5 DEF Reserve, Unreserved, Quiet
<1>6. ASSUME NEW o \in Orgs, NEW stage \in Stage, OpenSession(o, stage)
      PROVE  Quiet
  BY <1>0, <1>6 DEF OpenSession, Quiet
<1>7. ASSUME NEW id \in EventIds, Retrieve(id)
      PROVE  Quiet
  BY <1>7 DEF Retrieve, Quiet
<1>8. ASSUME NEW r \in retrieved, Abandon(r)
      PROVE  Quiet
  BY <1>8 DEF Abandon, Quiet
<1>9. CASE UNCHANGED vars
  BY <1>9 DEF vars, Quiet
<1>. HIDE DEF service, provider, history
<1>. QED
  BY <1>1, <1>2, <1>3, <1>4, <1>5, <1>6, <1>7, <1>8, <1>9 DEF Next

\* Events sent stay as they are, and so do the checkouts in which they were
\* sent but for their completion.
LEMMA SentStays ==
    ASSUME Typed, [Next]_vars
    PROVE  /\ \A id \in EventIds :
                 event[id].kind # "unsent" => event'[id] = event[id]
           /\ \A o \in Orgs : checkout[o].stage \in {"open", "completed"} =>
                 checkout'[o].price = checkout[o].price
<1>. USE DEF service, provider, history
<1>0. checkout \in [Orgs -> [stage : Stage, price : Prices \cup {None}]]
  BY DEF Typed, TypeOK
<1>1. CASE Quiet
  BY <1>1 DEF Quiet
<1>2. ASSUME NEW o \in Orgs, NEW id \in EventIds, Apply(o, id)
      PROVE  UNCHANGED <<event, checkout>>
  BY <1>2 DEF Apply
<1>3. ASSUME NEW id \in EventIds, Ignore(id)
      PROVE  UNCHANGED <<event, checkout>>
  BY <1>3 DEF Ignore
<1>4. ASSUME NEW r \in retrieved, Complete(r)
      PROVE  /\ UNCHANGED event
             /\ \A o \in Orgs : checkout'[o].price = checkout[o].price
  BY <1>0, <1>4 DEF Complete, MarkCompleted
<1>5. ASSUME NEW o \in Orgs, NEW plan \in AssignedPlans, AssignPlan(o, plan)
      PROVE  UNCHANGED <<event, checkout>>
  BY <1>5 DEF AssignPlan
<1>6. ASSUME NEW o \in Orgs, NEW s \in BoundByHand, NEW customer \in Customers,
             NEW plan \in AssignedPlans \cup {None},
             RegisterSubscription(o, s, customer, plan)
      PROVE  UNCHANGED <<event, checkout>>
  BY <1>6 DEF RegisterSubscription
<1>. HIDE DEF service, provider, history
<1>. QED
  BY <1>1, <1>2, <1>3, <1>4, <1>5, <1>6, QuietSteps

LEMMA LedgeredStep == Typed /\ Ledgered /\ [Next]_vars => Ledgered'
<1>. SUFFICES ASSUME Typed, Ledgered, [Next]_vars,
                     NEW i \in EventIds, event'[i].kind = "unsent"
              PROVE  ledger'[i] = Unseen
  BY DEF Ledgered
<1>1. event[i].kind = "unsent" /\ ledger[i] = Unseen
  BY SentStays DEF Ledgered
<1>2. CASE Quiet
  BY <1>1, <1>2 DEF Quiet
<1>3. ASSUME NEW o \in Orgs, NEW id \in EventIds, Apply(o, id)
      PROVE  ledger'[i] = Unseen
  <2>1. id # i
    BY <1>1, <1>3 DEF Apply
  <2>. QED
    BY <1>1, <1>3, <2>1 DEF Apply, ProcessEvent, Record, Typed, TypeOK
<1>4. ASSUME NEW id \in EventIds, Ignore(id)
      PROVE  ledger'[i] = Unseen
  <2>1. id # i
    BY <1>1, <1>4 DEF Ignore
  <2>. QED
    BY <1>1, <1>4, <2>1 DEF Ignore, Record, Typed, TypeOK
<1>5. ASSUME NEW r \in retrieved, Complete(r)
      PROVE  ledger'[i] = Unseen
  <2>1. r.id # i
    BY <1>1, <1>5, Completing DEF Typed
  <2>. QED
    BY <1>1, <1>5, <2>1 DEF Complete, ProcessEvent, Record, Typed, TypeOK
<1>6. ASSUME NEW o \in Orgs, NEW plan \in AssignedPlans, AssignPlan(o, plan)
      PROVE  ledger'[i] = Unseen
  BY <1>1, <1>6 DEF AssignPlan
<1>7. ASSUME NEW o \in Orgs, NEW s \in BoundByHand, NEW customer \in Customers,
             NEW plan \in AssignedPlans \cup {None},
             RegisterSubscription(o, s, customer, plan)
      PROVE  ledger'[i] = Unseen
  BY <1>1, <1>7 DEF RegisterSubscription
<1>. QED
  BY <1>2, <1>3, <1>4, <1>5, <1>6, <1>7, QuietSteps

\* A session is opened once, and sold once.
LEMMA SessionStep ==
    Typed /\ Opened /\ OneSession /\ [Next]_vars => Opened' /\ OneSession'
<1>. SUFFICES ASSUME Typed, Opened, OneSession, [Next]_vars
              PROVE  Opened' /\ OneSession'
  OBVIOUS
<1>. USE DEF service, provider, history
<1>0. /\ checkout \in [Orgs -> [stage : Stage, price : Prices \cup {None}]]
      /\ sessions \in [Orgs -> Nat]
      /\ \A o \in Orgs : sessions[o] <=
            IF checkout[o].stage \in {"none", "reserved"} THEN 0 ELSE 1
  BY DEF Typed, TypeOK, Opened
<1>1. Opened'
  <2>1. ASSUME NEW o \in Orgs, LoseRequest(o)
        PROVE  Opened'
    BY <1>0, <2>1 DEF LoseRequest, Opened
  <2>2. ASSUME NEW o \in Orgs, NEW price \in Prices, Reserve(o, price)
        PROVE  Opened'
    BY <1>0, <2>2 DEF Reserve, Unreserved, Opened
  <2>3. ASSUME NEW o \in Orgs, NEW stage \in Stage, OpenSession(o, stage)
        PROVE  Opened'
    <3>1. sessions[o] = 0
      BY <1>0, <2>3 DEF OpenSession
    <3>2. sessions'[o] = 1 /\ checkout'[o].stage \notin {"none", "reserved"}
      BY <1>0, <2>3, <3>1 DEF OpenSession
    <3>3. \A x \in Orgs : x # o =>
             sessions'[x] = sessions[x] /\ checkout'[x] = checkout[x]
      BY <1>0, <2>3 DEF OpenSession
    <3>. QED
      BY <1>0, <3>2, <3>3 DEF Opened
  <2>4. ASSUME NEW r \in retrieved, Complete(r)
        PROVE  Opened'
    <3>1. event[r.id].reference \in Orgs
          /\ checkout[event[r.id].reference].stage = "open"
      BY <2>4, Completing DEF Typed, MayComplete
    <3>. QED
      BY <1>0, <2>4, <3>1 DEF Complete, MarkCompleted, Opened
  <2>5. CASE UNCHANGED <<checkout, sessions>>
    BY <1>0, <2>5 DEF Opened
  <2>6. \/ UNCHANGED <<checkout, sessions>>
        \/ \E o \in Orgs : LoseRequest(o)
        \/ \E o \in Orgs, price \in Prices : Reserve(o, price)
        \/ \E o \in Orgs, stage \in Stage : OpenSession(o, stage)
        \/ \E r \in retrieved : Complete(r)
    BY DEF Next, vars, Tick, Change, Pay, Ask, RefuseReserve, Apply, Ignore,
           Retrieve, Abandon, AssignPlan, RegisterSubscription
  <2>. QED
    BY <2>1, <2>2, <2>3, <2>4, <2>5, <2>6
<1>2. sessions' \in [Orgs -> Nat]
  BY TypedStep DEF Typed, TypeOK
<1>3. \A o \in Orgs : sessions'[o] <= 1
  BY <1>1, <1>2 DEF Opened
<1>4. \A i, j \in EventIds :
         event'[i].kind = "checkout" /\ event'[j].kind = "checkout" =>
            i = j \/ event'[i].reference # event'[j].reference
  <2>0. event \in [EventIds -> Sent \cup {NotSent}] /\ NotSent.kind = "unsent"
    BY DEF Typed, TypeOK, NotSent
  <2>1. ASSUME NEW s \in Subscriptions, NEW entitled \in BOOLEAN,
               NEW price \in Prices, NEW id \in EventIds,
               Change(s, entitled, price, id)
        PROVE  <1>4
    <3>1. event'[id].kind = "change"
          /\ \A i \in EventIds : i # id => event'[i] = event[i]
      BY <2>0, <2>1 DEF Change
    <3>. QED
      BY <3>1 DEF OneSession
  <2>2. ASSUME NEW o \in Orgs, NEW s \in Subscriptions, NEW id \in EventIds,
               Pay(o, s, id)
        PROVE  <1>4
    <3>1. /\ event'[id].reference = o
          /\ \A i \in EventIds : i # id => event'[i] = event[i]
          /\ \A i \in EventIds :
                event[i].kind = "checkout" => event[i].reference # o
      BY <2>0, <2>2 DEF Pay
    <3>. QED
      BY <3>1 DEF OneSession
  <2>3. CASE UNCHANGED event
    BY <2>3 DEF OneSession
  <2>4. \/ UNCHANGED event
        \/ \E s \in Subscriptions, entitled \in BOOLEAN, price \in Prices,
              id \in EventIds : Change(s, entitled, price, id)
        \/ \E o \in Orgs, s \in Subscriptions, id \in EventIds : Pay(o, s, id)
    BY DEF Next, vars, Tick, Ask, RefuseReserve, LoseRequest, Reserve,
           OpenSession, Apply, Ignore, Retrieve, Complete, Abandon, AssignPlan,
           RegisterSubscription
  <2>. QED
    BY <2>1, <2>2, <2>3, <2>4
<1>. HIDE DEF service, provider, history
<1>. QED
  BY <1>1, <1>3, <1>4 DEF OneSession

\* A binding is given to an organisation only while no other has it.
LEMMA OneOrgStep == Typed /\ OneOrgEach /\ [Next]_vars => OneOrgEach'
<1>. SUFFICES ASSUME Typed, OneOrgEach, [Next]_vars
              PROVE  OneOrgEach'
  OBVIOUS
<1>0. account \in [Orgs -> Account]
  BY DEF Typed, TypeOK
<1>1. CASE Quiet
  BY <1>1 DEF Quiet, OneOrgEach
<1>2. ASSUME NEW o \in Orgs, NEW id \in EventIds, Apply(o, id)
      PROVE  OneOrgEach'
  <2>1. Facts(id) \in Event /\ event[id].time \in Nat /\ account[o] \in Account
    BY <1>0, <1>2, FactsAreEvents DEF Apply, Typed, Event
  <2>2. ProcessEvent(o, account[o], Facts(id), id, event[id].time)
    BY <1>2 DEF Apply
  <2>3. account'[o].sub = account[o].sub
        /\ \A x \in Orgs : x # o => account'[x] = account[x]
    BY <2>1, <2>2, ProcessedRows DEF Typed
  <2>. QED
    BY <2>3 DEF OneOrgEach
<1>3. ASSUME NEW id \in EventIds, Ignore(id)
      PROVE  OneOrgEach'
  BY <1>3 DEF Ignore, OneOrgEach
<1>4. ASSUME NEW r \in retrieved, Complete(r)
      PROVE  OneOrgEach'
  <2>. DEFINE o == event[r.id].reference
              s == event[r.id].sub
  <2>1. /\ o \in Orgs /\ s \in Subscriptions /\ r.id \in EventIds /\ r.at \in Nat
        /\ Prepared(r) \in Account /\ Completion(r) \in Event
        /\ ProcessEvent(o, Prepared(r), Completion(r), r.id, r.at)
        /\ MayComplete(o, s)
        /\ Prepared(r).sub = s
    BY <1>4, Completing DEF Typed
  <2>2. TypeOK
    BY DEF Typed
  <2>. HIDE DEF o, s
  <2>3. account'[o].sub = s
        /\ \A x \in Orgs : x # o => account'[x] = account[x]
    BY <2>1, <2>2, ProcessedRows
  <2>4. \A x \in Orgs \ {o} : account[x].sub # s
    BY <2>1 DEF MayComplete, FreeFor
  <2>. QED
    BY <2>1, <2>3, <2>4 DEF OneOrgEach
<1>5. ASSUME NEW o \in Orgs, NEW plan \in AssignedPlans, AssignPlan(o, plan)
      PROVE  OneOrgEach'
  <2>1. \A x \in Orgs : account'[x].sub = account[x].sub
    BY <1>0, <1>5 DEF AssignPlan, Assigned, Account
  <2>. QED
    BY <2>1 DEF OneOrgEach
<1>6. ASSUME NEW o \in Orgs, NEW s \in BoundByHand, NEW customer \in Customers,
             NEW plan \in AssignedPlans \cup {None},
             RegisterSubscription(o, s, customer, plan)
      PROVE  OneOrgEach'
  <2>1. account[o] \in Account /\ plan \in Plans \cup {None} /\ s \in Subscriptions
    BY <1>0, BillingAssumption
  <2>2. Bound(account[o], s, customer, plan).sub = s
    BY <2>1, Bindings
  <2>3. account'[o].sub = s
        /\ \A x \in Orgs : x # o => account'[x] = account[x]
    BY <1>0, <1>6, <2>2 DEF RegisterSubscription
  <2>4. \A x \in Orgs \ {o} : account[x].sub # s
    BY <1>6 DEF RegisterSubscription, FreeFor
  <2>. QED
    BY <2>3, <2>4 DEF OneOrgEach
<1>. QED
  BY <1>1, <1>2, <1>3, <1>4, <1>5, <1>6, QuietSteps

\* What the ledger has of an event is final, and accounts only come to name
\* events it did not have.
LEMMA LedgerStep ==
    ASSUME Typed, [Next]_vars
    PROVE  /\ \A i \in EventIds : ledger[i] # Unseen => ledger'[i] = ledger[i]
           /\ \A o \in Orgs : account'[o].last \notin {None, account[o].last} =>
                 ledger[account'[o].last] = Unseen
<1>0. account \in [Orgs -> Account] /\ TypeOK
  BY DEF Typed, TypeOK
<1>. DEFINE Goal == /\ \A i \in EventIds : ledger[i] # Unseen => ledger'[i] = ledger[i]
                    /\ \A o \in Orgs :
                          account'[o].last \notin {None, account[o].last} =>
                             ledger[account'[o].last] = Unseen
<1>1. CASE Quiet
  BY <1>1 DEF Quiet
<1>2. ASSUME NEW o \in Orgs, NEW id \in EventIds, Apply(o, id)
      PROVE  Goal
  <2>1. /\ Facts(id) \in Event /\ event[id].time \in Nat /\ account[o] \in Account
        /\ ProcessEvent(o, account[o], Facts(id), id, event[id].time)
    BY <1>0, <1>2, FactsAreEvents DEF Apply, Event
  <2>2. /\ \A other \in Orgs : other # o => account'[other] = account[other]
        /\ \A i \in EventIds : i # id => ledger'[i] = ledger[i]
    BY <1>0, <2>1, ProcessedRows
  <2>4. NotProcessed(id) => account'[o] = AfterEvent(account[o], Facts(id), id)
    BY <1>0, <2>1, ProcessedRows
  <2>5. ~NotProcessed(id) => account'[o] = account[o] /\ ledger' = ledger
    BY <1>0, <2>1, ProcessedRows
  <2>3. AfterEvent(account[o], Facts(id), id).last \in {account[o].last, id}
    BY <2>1, Outcomes
  <2>. QED
    BY <2>2, <2>3, <2>4, <2>5 DEF NotProcessed
<1>3. ASSUME NEW id \in EventIds, Ignore(id)
      PROVE  Goal
  BY <1>3 DEF Ignore, Record, NotProcessed, Typed, TypeOK
<1>4. ASSUME NEW r \in retrieved, Complete(r)
      PROVE  Goal
  <2>. DEFINE o == event[r.id].reference
  <2>1. /\ o \in Orgs /\ r.id \in EventIds /\ r.at \in Nat
        /\ Prepared(r) \in Account /\ Completion(r) \in Event
        /\ ProcessEvent(o, Prepared(r), Completion(r), r.id, r.at)
        /\ event[r.id].sub \in Subscriptions
    BY <1>4, Completing DEF Typed
  <2>2. Prepared(r).last \in {account[o].last, None}
    <3>1. account[o] \in Account
      BY <1>0, <2>1
    <3>2. CustomerOf[event[r.id].sub] \in Customers \cup {None}
      BY <2>1, AccountsAssumption
    <3>. QED
      BY <2>1, <3>1, <3>2, Bindings DEF Prepared
  <2>. HIDE DEF o
  <2>3. \A other \in Orgs : other # o => account'[other] = account[other]
    BY <1>0, <2>1, ProcessedRows
  <2>7. \A i \in EventIds : i # r.id => ledger'[i] = ledger[i]
    BY <1>0, <2>1, OtherEvents
  <2>5. NotProcessed(r.id) =>
           account'[o] = AfterEvent(Prepared(r), Completion(r), r.id)
    BY <1>0, <2>1, FirstDelivery
  <2>6. ~NotProcessed(r.id) => account'[o] = Prepared(r) /\ ledger' = ledger
    BY <1>0, <2>1, ProcessedRows
  <2>4. AfterEvent(Prepared(r), Completion(r), r.id).last \in {Prepared(r).last, r.id}
    BY <2>1, Outcomes
  <2>. QED
    BY <2>2, <2>3, <2>4, <2>5, <2>6, <2>7 DEF NotProcessed
<1>5. ASSUME NEW o \in Orgs, NEW plan \in AssignedPlans, AssignPlan(o, plan)
      PROVE  Goal
  <2>1. \A x \in Orgs : account'[x].last = account[x].last
    BY <1>0, <1>5 DEF AssignPlan, Assigned, Account
  <2>. QED
    BY <1>5, <2>1 DEF AssignPlan
<1>6. ASSUME NEW o \in Orgs, NEW s \in BoundByHand, NEW customer \in Customers,
             NEW plan \in AssignedPlans \cup {None},
             RegisterSubscription(o, s, customer, plan)
      PROVE  Goal
  <2>1. account[o] \in Account /\ plan \in Plans \cup {None} /\ s \in Subscriptions
    BY <1>0, BillingAssumption
  <2>2. Bound(account[o], s, customer, plan).last \in {account[o].last, None}
    BY <2>1, Bindings
  <2>3. \A x \in Orgs : account'[x].last \in {account[x].last, None}
    BY <1>0, <1>6, <2>2 DEF RegisterSubscription
  <2>. QED
    BY <1>6, <2>3 DEF RegisterSubscription
<1>. QED
  BY <1>1, <1>2, <1>3, <1>4, <1>5, <1>6, QuietSteps

\* The transaction of a completion marks the checkout and records the event.
LEMMA CompletionStep ==
    ASSUME Typed, Ledgered, OneSession, CompletionIsWhole, [Next]_vars
    PROVE  CompletionIsWhole'
<1>. SUFFICES ASSUME NEW i \in EventIds, event'[i].kind = "checkout"
              PROVE  LET o == event'[i].reference
                     IN /\ checkout'[o].stage \in {"open", "completed"}
                        /\ checkout'[o].stage = "completed" <=> ledger'[i] # Unseen
                        /\ ledger'[i] # Unseen => ledger'[i].org = o
  BY DEF CompletionIsWhole
<1>. DEFINE o == event'[i].reference
            Goal == /\ checkout'[o].stage \in {"open", "completed"}
                    /\ checkout'[o].stage = "completed" <=> ledger'[i] # Unseen
                    /\ ledger'[i] # Unseen => ledger'[i].org = o
<1>1. ASSUME Quiet
      PROVE  Goal
  <2>1. CASE event[i].kind = "unsent"
    BY <1>1, <2>1 DEF Quiet, Ledgered
  <2>2. CASE event[i].kind # "unsent"
    <3>1. event'[i] = event[i] /\ ledger' = ledger
      BY <1>1, <2>2 DEF Quiet
    <3>2. /\ checkout[o].stage \in {"open", "completed"}
          /\ checkout[o].stage = "completed" <=> ledger[i] # Unseen
          /\ ledger[i] # Unseen => ledger[i].org = o
      BY <3>1 DEF CompletionIsWhole
    <3>3. o \in Orgs
      BY <3>1, CheckoutEvents DEF Typed
    <3>. HIDE DEF o
    <3>4. checkout'[o] = checkout[o]
      BY <1>1, <3>2, <3>3 DEF Quiet
    <3>. QED
      BY <3>1, <3>2, <3>4
  <2>. QED
    BY <2>1, <2>2
<1>2. ASSUME UNCHANGED <<event, checkout>>, ledger'[i] = ledger[i]
      PROVE  Goal
  BY <1>2 DEF CompletionIsWhole
<1>3. ASSUME NEW x \in Orgs, NEW id \in EventIds, Apply(x, id)
      PROVE  Goal
  <2>1. id # i /\ UNCHANGED <<event, checkout>>
    BY <1>3 DEF Apply, provider
  <2>2. ledger'[i] = ledger[i]
    BY <1>3, <2>1 DEF Apply, ProcessEvent, Record, Typed, TypeOK
  <2>. QED
    BY <1>2, <2>1, <2>2
<1>4. ASSUME NEW id \in EventIds, Ignore(id)
      PROVE  Goal
  <2>1. id # i /\ UNCHANGED <<event, checkout>>
    BY <1>4 DEF Ignore, provider
  <2>2. ledger'[i] = ledger[i]
    BY <1>4, <2>1 DEF Ignore, Record, Typed, TypeOK
  <2>. QED
    BY <1>2, <2>1, <2>2
<1>5. ASSUME NEW r \in retrieved, Complete(r)
      PROVE  Goal
  <2>. DEFINE x == event[r.id].reference
  <2>1. /\ x \in Orgs /\ r.id \in EventIds /\ r.at \in Nat
        /\ event[r.id].kind = "checkout"
        /\ Prepared(r) \in Account /\ Completion(r) \in Event
        /\ ProcessEvent(x, Prepared(r), Completion(r), r.id, r.at)
        /\ MayComplete(x, event[r.id].sub)
    BY <1>5, Completing DEF Typed
  <2>2. /\ UNCHANGED event
        /\ checkout' = [checkout EXCEPT ![x].stage = "completed"]
    BY <1>5 DEF Complete, MarkCompleted, provider
  <2>3. checkout \in [Orgs -> [stage : Stage, price : Prices \cup {None}]]
    BY DEF Typed, TypeOK
  <2>4. NotProcessed(r.id)
    BY <2>1 DEF MayComplete, CompletionIsWhole, NotProcessed
  <2>9. TypeOK
    BY DEF Typed
  <2>10. \A j \in EventIds : j # r.id => ledger'[j] = ledger[j]
    BY <2>1, <2>9, OtherEvents
  <2>11. ledger'[r.id] = [org |-> x, sub |-> Completion(r).sub,
                          note |-> NoteOf(Prepared(r), Completion(r))]
    BY <2>1, <2>4, <2>9, ProcessedRows
  <2>5. /\ \A j \in EventIds : j # r.id => ledger'[j] = ledger[j]
        /\ ledger'[r.id].org = x
    BY <2>10, <2>11
  <2>6. ledger'[r.id] # Unseen
    BY <2>1, <2>5, BillingAssumption DEF Unseen
  <2>7. CASE i = r.id
    <3>1. checkout'[x].stage = "completed"
      BY <2>1, <2>2, <2>3
    <3>. QED
      BY <2>2, <2>5, <2>6, <2>7, <3>1
  <2>8. CASE i # r.id
    <3>1. o = event[i].reference /\ o # x /\ event[i].kind = "checkout"
      BY <2>1, <2>2, <2>8 DEF OneSession
    <3>2. checkout'[o] = checkout[o]
      BY <2>1, <2>2, <2>3, <3>1, CheckoutEvents DEF Typed
    <3>. QED
      BY <2>2, <2>5, <2>8, <3>1, <3>2 DEF CompletionIsWhole
  <2>. QED
    BY <2>7, <2>8
<1>6. ASSUME NEW x \in Orgs, NEW plan \in AssignedPlans, AssignPlan(x, plan)
      PROVE  Goal
  BY <1>2, <1>6 DEF AssignPlan, provider
<1>7. ASSUME NEW x \in Orgs, NEW s \in BoundByHand, NEW customer \in Customers,
             NEW plan \in AssignedPlans \cup {None},
             RegisterSubscription(x, s, customer, plan)
      PROVE  Goal
  BY <1>2, <1>7 DEF RegisterSubscription, provider
<1>. HIDE DEF o
<1>8. Goal
  <2>. HIDE DEF Goal
  <2>. QED
    BY <1>1, <1>3, <1>4, <1>5, <1>6, <1>7, QuietSteps
<1>. QED
  BY <1>8 DEF o

(* Orders of events. *)

\* What an event makes of a row it is processed on: its date never goes back,
\* and only a strictly newer event changes plan or status or lifts the flag.
LEMMA OutcomeOrder ==
    ASSUME NEW a \in Account, NEW e \in Event, NEW id \in EventIds
    PROVE  LET b == AfterEvent(a, e, id)
           IN /\ a.at <= b.at
              /\ \/ a.plan # b.plan
                 \/ a.status # b.status
                 \/ a.flagged /\ ~b.flagged
                 => a.at < b.at
<1>. DEFINE b == AfterEvent(a, e, id)
            note == NoteOf(a, e)
<1>1. a.at \in Nat
  BY DEF Account
<1>2. CASE note = "out_of_order"
  <2>1. b = a
    BY <1>2, Outcomes
  <2>. QED
    BY <1>1, <2>1
<1>3. CASE note = "same_timestamp_fail_closed"
  <2>1. b = [a EXCEPT !.flagged = TRUE]
    BY <1>3, Outcomes
  <2>. QED
    BY <1>1, <2>1 DEF Account
<1>4. CASE a.at < e.time /\ note \notin {"out_of_order", "same_timestamp_fail_closed"}
  <2>1. b.at = e.time /\ e.time \in Nat
    BY <1>4, Outcomes DEF Event
  <2>. HIDE DEF b, note
  <2>2. a.at < b.at /\ b.at \in Nat
    BY <1>4, <2>1
  <2>. QED
    BY <1>1, <2>2 DEF b
<1>. QED
  BY <1>2, <1>3, <1>4, NoteCases

\* A row that is paid after an event is the row before, or what its price says.
LEMMA OutcomePaid ==
    ASSUME NEW a \in Account, NEW e \in Event, NEW id \in EventIds,
           PlanInForce(AfterEvent(a, e, id)) # DefaultPlan
    PROVE  LET b == AfterEvent(a, e, id)
           IN \/ /\ NoteOf(a, e) = "out_of_order"
                 /\ a.at # 0
                 /\ b = a
              \/ /\ NoteOf(a, e) = "applied:active"
                 /\ b.plan = PriceMap[e.price]
                 /\ b.at = e.time
                 /\ b.last = id
<1>. DEFINE b == AfterEvent(a, e, id)
            note == NoteOf(a, e)
<1>1. ~b.flagged /\ b.status = "active"
  BY DEF PlanInForce
<1>. HIDE DEF b
<1>2. note # "same_timestamp_fail_closed"
  <2>1. SUFFICES ASSUME note = "same_timestamp_fail_closed" PROVE FALSE
    OBVIOUS
  <2>2. b = [a EXCEPT !.flagged = TRUE]
    BY <2>1, Outcomes DEF b
  <2>. QED
    BY <1>1, <2>2 DEF Account
<1>3. note # "unknown_price"
  BY <1>1, Outcomes DEF b
<1>4. note # "applied:delinquent"
  BY <1>1, Outcomes DEF b
<1>5. CASE note = "out_of_order"
  BY <1>5, Outcomes, NoteCases DEF b
<1>6. CASE note = "applied:active"
  BY <1>6, Outcomes DEF b
<1>. QED
  BY <1>2, <1>3, <1>4, <1>5, <1>6, NoteCases

\* A completion prepares a row of the same decisions, if the subscription is
\* the same, and one without a date otherwise.
LEMMA Preparing ==
    ASSUME Typed, NEW r \in retrieved, Complete(r)
    PROVE  LET a == account[event[r.id].reference]
               b == Prepared(r)
           IN /\ a.sub = b.sub =>
                    /\ b.at = a.at /\ b.last = a.last
                    /\ b.status = a.status /\ b.flagged = a.flagged
              /\ a.sub # b.sub => b.at = 0
              /\ b.plan = a.plan
<1>. DEFINE a == account[event[r.id].reference]
            s == event[r.id].sub
<1>1. s \in Subscriptions /\ event[r.id].reference \in Orgs /\ Prepared(r).sub = s
  BY Completing DEF Typed
<1>2. a \in Account /\ CustomerOf[s] \in Customers \cup {None}
  BY <1>1, AccountsAssumption DEF Typed, TypeOK
<1>. HIDE DEF a, s
<1>3. LET b == Bound(a, s, CustomerOf[s], None)
      IN /\ b.sub = s
         /\ a.sub = s => b.at = a.at /\ b.last = a.last /\ b.status = a.status
                         /\ b.flagged = a.flagged
         /\ a.sub # s => b.at = 0 /\ b.last = None /\ b.status = "registered"
         /\ b.plan = a.plan
  BY <1>1, <1>2, Bindings
<1>. QED
  BY <1>3 DEF Prepared, a, s

(* Paid plans. *)

\* The event that the account names last is what put its plan in force.
Decided(o) ==
    LET a == account[o]
    IN /\ a.last # None
       /\ ledger[a.last] = [org |-> o, sub |-> a.sub, note |-> "applied:active"]
       /\ event[a.last].sub = a.sub
       /\ event[a.last].time = a.at
       /\ a.plan = PriceMap[PriceOf(a.last)]

\* What an event said when it decided, it says ever after.
LEMMA DecidedStays ==
    ASSUME Typed, Ledgered, CompletionIsWhole, [Next]_vars,
           NEW o \in Orgs, Decided(o),
           account'[o].plan = account[o].plan, account'[o].sub = account[o].sub,
           account'[o].last = account[o].last, account'[o].at = account[o].at
    PROVE  Decided(o)'
<1>. DEFINE id == account[o].last
<1>1. id \in EventIds
  BY DEF Typed, TypeOK, Account, Decided
<1>2. ledger[id] # Unseen
  BY DEF Decided, Unseen
<1>3. ledger'[id] = ledger[id]
  BY <1>1, <1>2, LedgerStep
<1>4. event[id].kind # "unsent" /\ event'[id] = event[id]
  BY <1>1, <1>2, SentStays DEF Ledgered
<1>5. PriceOf(id)' = PriceOf(id)
  <2>1. CASE event[id].kind = "checkout"
    <3>. DEFINE x == event[id].reference
    <3>1. x \in Orgs
      BY <1>1, <2>1, CheckoutEvents DEF Typed
    <3>2. checkout[x].stage \in {"open", "completed"}
      BY <1>1, <2>1 DEF CompletionIsWhole
    <3>3. checkout'[x].price = checkout[x].price
      BY <3>1, <3>2, SentStays
    <3>. QED
      BY <1>4, <2>1, <3>3 DEF PriceOf
  <2>2. CASE event[id].kind # "checkout"
    BY <1>4, <2>2 DEF PriceOf
  <2>. QED
    BY <2>1, <2>2
<1>6. id' = id
  OBVIOUS
<1>. QED
  BY <1>3, <1>4, <1>5, <1>6 DEF Decided

\* The same for an organisation whose account and word of the operator stay.
LEMMA Unmoved ==
    ASSUME Typed, Ledgered, CompletionIsWhole, PaidByDecision, [Next]_vars,
           NEW o \in Orgs, account'[o] = account[o],
           Paid(o)', ~byOperator[o]
    PROVE  Decided(o)'
<1>1. Paid(o)
  BY DEF Paid
<1>2. Decided(o)
  BY <1>1 DEF PaidByDecision, Decided
<1>. QED
  BY <1>2, DecidedStays

\* What puts a plan in force in a transaction that processes an event: nothing
\* did, or this event, whose row in the ledger says so.
LEMMA ProcessedPaid ==
    ASSUME TypeOK, NEW o \in Orgs, NEW a \in Account, NEW e \in Event,
           NEW id \in EventIds, NEW time \in Nat,
           ProcessEvent(o, a, e, id, time), NotProcessed(id),
           Paid(o)', ~byOperator'[o]
    PROVE  \/ /\ account'[o] = a
              /\ a.at # 0
              /\ ~byOperator[o]
           \/ /\ account'[o].plan = PriceMap[e.price]
              /\ account'[o].at = e.time
              /\ account'[o].last = id
              /\ account'[o].sub = a.sub
              /\ ledger'[id] = [org |-> o, sub |-> e.sub, note |-> "applied:active"]
<1>1. account'[o] = AfterEvent(a, e, id)
  BY FirstDelivery
<1>2. ledger'[id] = [org |-> o, sub |-> e.sub, note |-> NoteOf(a, e)]
  BY ProcessedRows
<1>3. byOperator'[o] <=>
         /\ byOperator[o]
         /\ ~(/\ NotProcessed(id)
              /\ NoteOf(a, e) \in Applied \cup {"unknown_price"})
  BY ProcessedHistory
<1>4. PlanInForce(AfterEvent(a, e, id)) # DefaultPlan
  BY <1>1 DEF Paid
<1>5. AfterEvent(a, e, id).sub = a.sub
  BY Outcomes
<1>6. CASE /\ NoteOf(a, e) = "out_of_order"
           /\ a.at # 0
           /\ AfterEvent(a, e, id) = a
  BY <1>1, <1>3, <1>6 DEF Applied
<1>7. CASE /\ NoteOf(a, e) = "applied:active"
           /\ AfterEvent(a, e, id).plan = PriceMap[e.price]
           /\ AfterEvent(a, e, id).at = e.time
           /\ AfterEvent(a, e, id).last = id
  BY <1>1, <1>2, <1>5, <1>7
<1>. QED
  BY <1>4, <1>6, <1>7, OutcomePaid

LEMMA PaidByApply ==
    ASSUME Typed, Ledgered, CompletionIsWhole, PaidByDecision, [Next]_vars,
           NEW o \in Orgs, NEW id \in EventIds, Apply(o, id),
           Paid(o)', ~byOperator'[o]
    PROVE  Decided(o)'
<1>1. /\ TypeOK /\ Facts(id) \in Event /\ event[id].time \in Nat
      /\ account[o] \in Account
      /\ event[id].kind = "change"
      /\ ProcessEvent(o, account[o], Facts(id), id, event[id].time)
  BY FactsAreEvents DEF Apply, Event, Typed, TypeOK
<1>2. CASE ~NotProcessed(id)
  <2>1. account'[o] = account[o]
    BY <1>1, <1>2, ProcessedRows
  <2>2. byOperator'[o] <=> byOperator[o]
    BY <1>1, <1>2, ProcessedHistory
  <2>. QED
    BY <2>1, <2>2, Unmoved
<1>3. CASE NotProcessed(id)
  <2>1. \/ /\ account'[o] = account[o]
           /\ ~byOperator[o]
        \/ /\ account'[o].plan = PriceMap[Facts(id).price]
           /\ account'[o].at = Facts(id).time
           /\ account'[o].last = id
           /\ account'[o].sub = account[o].sub
           /\ ledger'[id] = [org |-> o, sub |-> Facts(id).sub,
                             note |-> "applied:active"]
    BY <1>1, <1>3, ProcessedPaid
  <2>2. CASE account'[o] = account[o] /\ ~byOperator[o]
    BY <2>2, Unmoved
  <2>3. CASE /\ account'[o].plan = PriceMap[Facts(id).price]
             /\ account'[o].at = Facts(id).time
             /\ account'[o].last = id
             /\ account'[o].sub = account[o].sub
             /\ ledger'[id] = [org |-> o, sub |-> Facts(id).sub,
                               note |-> "applied:active"]
    <3>1. event' = event /\ account[o].sub = event[id].sub
      BY DEF Apply, provider
    <3>2. PriceOf(id)' = Facts(id).price
      BY <1>1, <3>1 DEF PriceOf, Facts
    <3>3. id # None
      BY AccountsAssumption
    <3>4. Facts(id).sub = event[id].sub /\ Facts(id).time = event[id].time
      BY DEF Facts
    <3>. QED
      BY <2>3, <3>1, <3>2, <3>3, <3>4 DEF Decided
  <2>. QED
    BY <2>1, <2>2, <2>3
<1>. QED
  BY <1>2, <1>3

LEMMA PaidByComplete ==
    ASSUME Typed, Ledgered, CompletionIsWhole, PaidByDecision, [Next]_vars,
           NEW r \in retrieved, Complete(r),
           NEW o, NEW s, o = event[r.id].reference, s = event[r.id].sub,
           Paid(o)', ~byOperator'[o]
    PROVE  Decided(o)'
<1>1. /\ o \in Orgs /\ s \in Subscriptions /\ r.id \in EventIds /\ r.at \in Nat
      /\ Prepared(r) \in Account /\ Completion(r) \in Event
      /\ ProcessEvent(o, Prepared(r), Completion(r), r.id, r.at)
      /\ MayComplete(o, s)
      /\ Prepared(r).sub = s
      /\ event[r.id].kind = "checkout"
  BY Completing DEF Typed
<1>2. TypeOK
  BY DEF Typed
<1>3. NotProcessed(r.id)
  BY <1>1 DEF MayComplete, CompletionIsWhole, NotProcessed
<1>4. /\ account[o].sub = Prepared(r).sub =>
            /\ Prepared(r).at = account[o].at /\ Prepared(r).last = account[o].last
            /\ Prepared(r).status = account[o].status
            /\ Prepared(r).flagged = account[o].flagged
      /\ account[o].sub # Prepared(r).sub => Prepared(r).at = 0
      /\ Prepared(r).plan = account[o].plan
  BY Preparing
<1>5. event' = event /\ event'[r.id].reference = o
  BY DEF Complete, provider
<1>7. checkout'[o].price = checkout[o].price
  BY <1>1, SentStays DEF MayComplete
<1>8. \/ /\ account'[o] = Prepared(r)
         /\ Prepared(r).at # 0
         /\ ~byOperator[o]
      \/ /\ account'[o].plan = PriceMap[Completion(r).price]
         /\ account'[o].at = Completion(r).time
         /\ account'[o].last = r.id
         /\ account'[o].sub = Prepared(r).sub
         /\ ledger'[r.id] = [org |-> o, sub |-> Completion(r).sub,
                             note |-> "applied:active"]
  BY <1>1, <1>2, <1>3, ProcessedPaid
<1>9. CASE account'[o] = Prepared(r) /\ Prepared(r).at # 0 /\ ~byOperator[o]
  <2>1. /\ account'[o].plan = account[o].plan
        /\ account'[o].sub = account[o].sub
        /\ account'[o].last = account[o].last
        /\ account'[o].at = account[o].at
        /\ account'[o].status = account[o].status
        /\ account'[o].flagged = account[o].flagged
    BY <1>4, <1>9
  <2>2. Paid(o)
    BY <2>1 DEF Paid, PlanInForce
  <2>3. Decided(o)
    BY <1>1, <1>9, <2>2 DEF PaidByDecision, Decided
  <2>. QED
    BY <1>1, <2>1, <2>3, DecidedStays
<1>10. CASE /\ account'[o].plan = PriceMap[Completion(r).price]
            /\ account'[o].at = Completion(r).time
            /\ account'[o].last = r.id
            /\ account'[o].sub = Prepared(r).sub
            /\ ledger'[r.id] = [org |-> o, sub |-> Completion(r).sub,
                                note |-> "applied:active"]
  <2>1. PriceOf(r.id)' = Completion(r).price
    BY <1>1, <1>5, <1>7 DEF PriceOf, Completion
  <2>2. r.id # None
    BY <1>1, AccountsAssumption
  <2>3. Completion(r).sub = s /\ Completion(r).time = event[r.id].time
    BY DEF Completion
  <2>4. Prepared(r).sub = s /\ s = event[r.id].sub
    BY <1>1
  <2>. QED
    BY <1>5, <1>10, <2>1, <2>2, <2>3, <2>4 DEF Decided
<1>. QED
  BY <1>8, <1>9, <1>10

LEMMA PaidStep ==
    ASSUME Typed, Ledgered, CompletionIsWhole, PaidByDecision, [Next]_vars
    PROVE  PaidByDecision'
<1>. SUFFICES ASSUME NEW o \in Orgs, Paid(o)', ~byOperator'[o]
              PROVE  Decided(o)'
  BY DEF PaidByDecision, Decided
<1>0. /\ TypeOK
      /\ account \in [Orgs -> Account] /\ byOperator \in [Orgs -> BOOLEAN]
  BY DEF Typed, TypeOK
<1>1. CASE account'[o] = account[o] /\ byOperator'[o] = byOperator[o]
  BY <1>1, Unmoved
<1>2. CASE Quiet
  BY <1>1, <1>2 DEF Quiet
<1>3. ASSUME NEW x \in Orgs, NEW id \in EventIds, Apply(x, id)
      PROVE  Decided(o)'
  <2>1. CASE x = o
    BY <1>3, <2>1, PaidByApply
  <2>2. CASE x # o
    <3>1. account'[o] = account[o] /\ byOperator'[o] = byOperator[o]
      BY <1>0, <1>3, <2>2 DEF Apply, ProcessEvent
    <3>. QED
      BY <1>1, <3>1
  <2>. QED
    BY <2>1, <2>2
<1>4. ASSUME NEW id \in EventIds, Ignore(id)
      PROVE  Decided(o)'
  BY <1>1, <1>4 DEF Ignore, history
<1>5. ASSUME NEW r \in retrieved, Complete(r)
      PROVE  Decided(o)'
  <2>1. CASE event[r.id].reference = o
    BY <1>5, <2>1, PaidByComplete
  <2>2. CASE event[r.id].reference # o
    <3>1. account'[o] = account[o] /\ byOperator'[o] = byOperator[o]
      BY <1>0, <1>5, <2>2 DEF Complete, ProcessEvent
    <3>. QED
      BY <1>1, <3>1
  <2>. QED
    BY <2>1, <2>2
<1>6. ASSUME NEW x \in Orgs, NEW plan \in AssignedPlans, AssignPlan(x, plan)
      PROVE  Decided(o)'
  <2>1. x # o
    BY <1>0, <1>6 DEF AssignPlan
  <2>2. account'[o] = account[o] /\ byOperator'[o] = byOperator[o]
    BY <1>0, <1>6, <2>1 DEF AssignPlan
  <2>. QED
    BY <1>1, <2>2
<1>7. ASSUME NEW x \in Orgs, NEW s \in BoundByHand, NEW customer \in Customers,
             NEW plan \in AssignedPlans \cup {None},
             RegisterSubscription(x, s, customer, plan)
      PROVE  Decided(o)'
  <2>1. CASE x # o
    <3>1. account'[o] = account[o] /\ byOperator'[o] = byOperator[o]
      BY <1>0, <1>7, <2>1 DEF RegisterSubscription
    <3>. QED
      BY <1>1, <3>1
  <2>2. CASE x = o
    <3>1. /\ account[o] \in Account /\ s \in Subscriptions
          /\ plan \in Plans \cup {None} /\ customer \in Customers \cup {None}
          /\ byOperator[o] \in BOOLEAN
      BY <1>0, BillingAssumption
    <3>2. plan = None /\ ~byOperator[o]
      BY <1>0, <1>7, <2>2, <3>1 DEF RegisterSubscription
    <3>3. account'[o] = Bound(account[o], s, customer, plan)
      BY <1>0, <1>7, <2>2 DEF RegisterSubscription
    <3>4. /\ account'[o].sub = s
          /\ account[o].sub = s =>
                /\ account'[o].at = account[o].at
                /\ account'[o].last = account[o].last
                /\ account'[o].status = account[o].status
                /\ account'[o].flagged = account[o].flagged
          /\ account[o].sub # s => account'[o].status = "registered"
          /\ account'[o].plan = account[o].plan
      BY <3>1, <3>2, <3>3, Bindings
    <3>5. account[o].sub = s
      BY <3>4 DEF Paid, PlanInForce
    <3>6. Paid(o)
      BY <3>4, <3>5 DEF Paid, PlanInForce
    <3>7. Decided(o)
      BY <3>2, <3>6 DEF PaidByDecision, Decided
    <3>. QED
      BY <3>4, <3>5, <3>7, DecidedStays
  <2>. QED
    BY <2>1, <2>2
<1>. QED
  BY <1>2, <1>3, <1>4, <1>5, <1>6, <1>7, QuietSteps

LEMMA InvStep == Inv /\ [Next]_vars => Inv'
<1>. SUFFICES ASSUME Inv, [Next]_vars PROVE Inv'
  OBVIOUS
<1>1. /\ Typed /\ Ledgered /\ Opened /\ OneSession
      /\ CompletionIsWhole /\ OneOrgEach /\ PaidByDecision
  BY DEF Inv
<1>2. Typed' /\ Ledgered' /\ Opened' /\ OneSession' /\ OneOrgEach'
  BY <1>1, TypedStep, LedgeredStep, SessionStep, OneOrgStep
<1>3. CompletionIsWhole' /\ PaidByDecision'
  BY <1>1, CompletionStep, PaidStep
<1>. QED
  BY <1>2, <1>3 DEF Inv

LEMMA Invariance == Spec => []Inv
<1>1. Init => Inv
  BY InvInit
<1>2. Inv /\ [Next]_vars => Inv'
  BY InvStep
<1>. QED
  BY <1>1, <1>2, PTL DEF Spec

\* Whatever is delivered when, however often and in which order, a paid plan is
\* the operator's decision or that of the event the account names.
THEOREM PaidIsDecided == Spec => []PaidByDecision
<1>1. Inv => PaidByDecision
  BY DEF Inv
<1>. QED
  BY <1>1, Invariance, PTL

\* A subscription never pays for two organisations.
THEOREM OneOrganisation == Spec => []OneOrgEach
<1>1. Inv => OneOrgEach
  BY DEF Inv
<1>. QED
  BY <1>1, Invariance, PTL

\* A checkout is completed if and only if its event is recorded.
THEOREM WholeCompletions == Spec => []CompletionIsWhole
<1>1. Inv => CompletionIsWhole
  BY DEF Inv
<1>. QED
  BY <1>1, Invariance, PTL

\* An organisation has one checkout session, and buys one subscription in it.
THEOREM SingleSession == Spec => []OneSession
<1>1. Inv => OneSession
  BY DEF Inv
<1>. QED
  BY <1>1, Invariance, PTL

\* An event counts once: the ledger's rows are final, and an account only comes
\* to name an event the ledger did not have.
THEOREM CountedOnce == Spec => EventsCountOnce
<1>1. Inv /\ [Next]_vars =>
         [/\ \A id \in EventIds : ledger[id] # Unseen => ledger'[id] = ledger[id]
          /\ \A o \in Orgs : account'[o].last \notin {None, account[o].last} =>
                ledger[account'[o].last] = Unseen]_vars
  BY LedgerStep DEF Inv
<1>. QED
  BY <1>1, Invariance, PTL DEF Spec, EventsCountOnce

\* The order of one account's decisions, in one step.
Ordered(o) ==
    LET a == account[o]
        b == account'[o]
    IN a.sub = b.sub =>
          /\ a.at <= b.at
          /\ \/ a.plan # b.plan
             \/ a.status # b.status
             \/ a.flagged /\ ~b.flagged
             => a.at < b.at \/ byOperator'[o]

LEMMA OrderStep ==
    ASSUME Typed, CompletionIsWhole, [Next]_vars, NEW o \in Orgs
    PROVE  Ordered(o)
<1>0. /\ TypeOK /\ account[o] \in Account /\ account[o].at \in Nat
      /\ account \in [Orgs -> Account] /\ byOperator \in [Orgs -> BOOLEAN]
  BY DEF Typed, TypeOK, Account
<1>1. CASE account'[o] = account[o]
  BY <1>0, <1>1 DEF Ordered
<1>2. CASE Quiet
  BY <1>1, <1>2 DEF Quiet
<1>3. ASSUME NEW x \in Orgs, NEW id \in EventIds, Apply(x, id)
      PROVE  Ordered(o)
  <2>1. /\ Facts(id) \in Event /\ event[id].time \in Nat /\ account[x] \in Account
        /\ ProcessEvent(x, account[x], Facts(id), id, event[id].time)
    BY <1>0, <1>3, FactsAreEvents DEF Apply, Event
  <2>2. CASE x # o
    BY <1>0, <1>1, <2>1, <2>2, ProcessedRows
  <2>3. CASE ~NotProcessed(id) /\ x = o
    BY <1>0, <1>1, <2>1, <2>3, ProcessedRows
  <2>4. CASE NotProcessed(id) /\ x = o
    <3>1. account'[o] = AfterEvent(account[o], Facts(id), id)
      BY <1>0, <2>1, <2>4, FirstDelivery
    <3>. QED
      BY <1>0, <2>1, <3>1, OutcomeOrder DEF Ordered
  <2>. QED
    BY <2>2, <2>3, <2>4
<1>4. ASSUME NEW id \in EventIds, Ignore(id)
      PROVE  Ordered(o)
  BY <1>1, <1>4 DEF Ignore
<1>5. ASSUME NEW r \in retrieved, Complete(r)
      PROVE  Ordered(o)
  <2>1. /\ event[r.id].reference \in Orgs /\ r.id \in EventIds /\ r.at \in Nat
        /\ Prepared(r) \in Account /\ Completion(r) \in Event
        /\ ProcessEvent(event[r.id].reference, Prepared(r), Completion(r), r.id, r.at)
        /\ MayComplete(event[r.id].reference, event[r.id].sub)
        /\ event[r.id].kind = "checkout"
    BY <1>5, Completing DEF Typed
  <2>2. CASE event[r.id].reference # o
    BY <1>0, <1>1, <2>1, <2>2, ProcessedRows
  <2>3. CASE event[r.id].reference = o
    <3>1. NotProcessed(r.id)
      BY <2>1 DEF MayComplete, CompletionIsWhole, NotProcessed
    <3>2. account'[o] = AfterEvent(Prepared(r), Completion(r), r.id)
      BY <1>0, <2>1, <2>3, <3>1, FirstDelivery
    <3>3. account'[o].sub = Prepared(r).sub
      BY <2>1, <3>2, Outcomes
    <3>4. account[o].sub = Prepared(r).sub =>
             /\ Prepared(r).at = account[o].at
             /\ Prepared(r).status = account[o].status
             /\ Prepared(r).flagged = account[o].flagged
             /\ Prepared(r).plan = account[o].plan
      BY <1>5, <2>3, Preparing
    <3>5. LET a == Prepared(r)
              b == account'[o]
          IN /\ a.at <= b.at
             /\ \/ a.plan # b.plan
                \/ a.status # b.status
                \/ a.flagged /\ ~b.flagged
                => a.at < b.at
      BY <2>1, <3>2, OutcomeOrder
    <3>. QED
      BY <3>3, <3>4, <3>5 DEF Ordered
  <2>. QED
    BY <2>2, <2>3
<1>6. ASSUME NEW x \in Orgs, NEW plan \in AssignedPlans, AssignPlan(x, plan)
      PROVE  Ordered(o)
  <2>1. CASE x # o
    BY <1>0, <1>1, <1>6, <2>1 DEF AssignPlan
  <2>2. CASE x = o
    <3>1. byOperator'[o] /\ account'[o].at = account[o].at
      BY <1>0, <1>6, <2>2 DEF AssignPlan, Assigned, Account
    <3>. QED
      BY <1>0, <3>1 DEF Ordered
  <2>. QED
    BY <2>1, <2>2
<1>7. ASSUME NEW x \in Orgs, NEW s \in BoundByHand, NEW customer \in Customers,
             NEW plan \in AssignedPlans \cup {None},
             RegisterSubscription(x, s, customer, plan)
      PROVE  Ordered(o)
  <2>1. CASE x # o
    BY <1>0, <1>1, <1>7, <2>1 DEF RegisterSubscription
  <2>2. CASE x = o
    <3>1. /\ s \in Subscriptions /\ plan \in Plans \cup {None}
          /\ customer \in Customers \cup {None} /\ byOperator[o] \in BOOLEAN
      BY <1>0, BillingAssumption
    <3>2. account'[o] = Bound(account[o], s, customer, plan)
          /\ (plan # None => byOperator'[o])
      BY <1>0, <1>7, <2>2, <3>1 DEF RegisterSubscription
    <3>3. /\ account'[o].sub = s
          /\ account[o].sub = s =>
                /\ account'[o].at = account[o].at
                /\ account'[o].status = account[o].status
                /\ account'[o].flagged = account[o].flagged
          /\ plan = None => account'[o].plan = account[o].plan
      BY <1>0, <3>1, <3>2, Bindings
    <3>. QED
      BY <1>0, <3>2, <3>3 DEF Ordered
  <2>. QED
    BY <2>1, <2>2
<1>. QED
  BY <1>2, <1>3, <1>4, <1>5, <1>6, <1>7, QuietSteps

\* Whatever order events arrive in, an older one never undoes what a newer one
\* of the same subscription decided.
THEOREM NewerStands == Spec => OlderNeverUndoes
<1>1. Inv /\ [Next]_vars =>
         [\A o \in Orgs :
             LET a == account[o]
                 b == account'[o]
             IN a.sub = b.sub =>
                   /\ a.at <= b.at
                   /\ \/ a.plan # b.plan
                      \/ a.status # b.status
                      \/ a.flagged /\ ~b.flagged
                      => a.at < b.at \/ byOperator'[o]]_vars
  BY OrderStep DEF Inv, Ordered
<1>. QED
  BY <1>1, Invariance, PTL DEF Spec, OlderNeverUndoes
=============================================================================
