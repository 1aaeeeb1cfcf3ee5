---------------------------- MODULE SupportProofs ----------------------------
(* Theorems about Support: nobody acts on an entitlement that is gone, a    *)
(* repeated call files nothing twice, and the limits hold.                  *)
EXTENDS Support, TLAPS, FiniteSetTheorems, SetTheorems

-----------------------------------------------------------------------------
(* Tickets.                                                                *)

LEMMA TicketTyped ==
    ASSUME NEW p \in Principals, NEW queue \in Queues, NEW key \in Keys,
           NEW text \in Texts
    PROVE  LET t == Ticket(p, queue, key, text) IN
           /\ t \in TicketSet
           /\ t.reporter = p /\ t.queue = queue /\ t.key = key /\ t.text = text
           /\ t.replies = <<>> /\ t.status = "open"
  BY DEF Ticket, TicketSet, Statuses

LEMMA TicketParts ==
    ASSUME NEW t \in TicketSet
    PROVE  /\ t.reporter \in Principals /\ t.queue \in Queues /\ t.key \in Keys
           /\ t.text \in Texts /\ t.status \in Statuses
           /\ t.assigned \in Principals \cup {None} /\ t.replies \in Seq(Principals)
  BY DEF TicketSet

LEMMA SetReplies ==
    ASSUME NEW t \in TicketSet, NEW r \in Seq(Principals)
    PROVE  LET u == [t EXCEPT !.replies = r] IN
           /\ u \in TicketSet /\ u.replies = r
           /\ u.reporter = t.reporter /\ u.queue = t.queue /\ u.key = t.key
           /\ u.text = t.text /\ u.status = t.status /\ u.assigned = t.assigned
  BY Zenon DEF TicketSet

LEMMA SetStatus ==
    ASSUME NEW t \in TicketSet, NEW s \in Statuses
    PROVE  LET u == [t EXCEPT !.status = s] IN
           /\ u \in TicketSet /\ u.status = s
           /\ u.reporter = t.reporter /\ u.queue = t.queue /\ u.key = t.key
           /\ u.text = t.text /\ u.replies = t.replies /\ u.assigned = t.assigned
  BY Zenon DEF TicketSet

LEMMA SetAssigned ==
    ASSUME NEW t \in TicketSet, NEW p \in Principals
    PROVE  LET u == [t EXCEPT !.assigned = p] IN
           /\ u \in TicketSet /\ u.assigned = p
           /\ u.reporter = t.reporter /\ u.queue = t.queue /\ u.key = t.key
           /\ u.text = t.text /\ u.replies = t.replies /\ u.status = t.status
  BY Zenon DEF TicketSet

LEMMA RepliedParts ==
    ASSUME NEW t \in TicketSet, NEW p \in Principals,
           NEW s \in Statuses \cup {None}
    PROVE  LET u == Replied(t, p, s) IN
           /\ u \in TicketSet
           /\ u.replies = Append(t.replies, p) /\ u.assigned = t.assigned
           /\ u.reporter = t.reporter /\ u.queue = t.queue /\ u.key = t.key
           /\ u.text = t.text
           /\ u.status = IF s = None THEN t.status ELSE s
  <1> DEFINE r == Append(t.replies, p)
             u == [t EXCEPT !.replies = r]
  <1>1. r \in Seq(Principals)
    BY TicketParts
  <1>2. /\ u \in TicketSet /\ u.replies = r
        /\ u.reporter = t.reporter /\ u.queue = t.queue /\ u.key = t.key
        /\ u.text = t.text /\ u.status = t.status /\ u.assigned = t.assigned
    BY <1>1, SetReplies, Zenon
  <1>3. Replied(t, p, s) = IF s = None THEN u ELSE [u EXCEPT !.status = s]
    BY Zenon DEF Replied
  <1> HIDE DEF u
  <1>4. CASE s = None
    BY <1>2, <1>3, <1>4
  <1>5. CASE s # None
    <2>1. s \in Statuses
      BY <1>5
    <2> DEFINE v == [u EXCEPT !.status = s]
    <2>2. /\ v \in TicketSet /\ v.status = s
          /\ v.reporter = u.reporter /\ v.queue = u.queue /\ v.key = u.key
          /\ v.text = u.text /\ v.replies = u.replies /\ v.assigned = u.assigned
      BY <1>2, <2>1, SetStatus, Zenon
    <2>3. Replied(t, p, s) = v
      BY <1>3, <1>5, Zenon
    <2> HIDE DEF v
    <2> QED
      BY <1>2, <1>5, <2>2, <2>3
  <1> QED
    BY <1>4, <1>5

-----------------------------------------------------------------------------
(* Requests and the types.                                                 *)

LEMMA RequestCases ==
    ASSUME TypeOK, NEW c \in Clients
    PROVE  LET q == call[c] IN
           /\ Asked(c, "create") =>
                 q.by \in Principals /\ q.key \in Keys /\ q.text \in Texts
           /\ Asked(c, "read") => q.by \in Principals /\ q.left \subseteq Ids
           /\ Asked(c, "reply") => /\ q.by \in Principals /\ q.ticket \in Ids
                                   /\ q.status \in Statuses \cup {None}
           /\ Asked(c, "assign") =>
                 q.by \in Principals /\ q.ticket \in Ids /\ q.to \in Principals
  BY DEF TypeOK, Requests, Asked, Idle

LEMMA LessLeft ==
    ASSUME TypeOK, NEW c \in Clients, Asked(c, "read"), NEW S \in SUBSET Ids
    PROVE  [call[c] EXCEPT !.left = S] \in Requests
  <1>1. call[c] \in [op : {"read"}, by : Principals, left : SUBSET Ids]
    BY DEF TypeOK, Requests, Asked, Idle
  <1>2. [call[c] EXCEPT !.left = S] \in [op : {"read"}, by : Principals, left : SUBSET Ids]
    BY <1>1, Zenon
  <1> QED
    BY <1>2, Zenon DEF Requests

LEMMA AnswerTyped ==
    ASSUME NEW p \in Principals, NEW i \in Ids
    PROVE  Answer(p, i) \in Requests
  BY DEF Answer, Requests

\* A step that only gives one client another request.
LEMMA CallTyped ==
    ASSUME TypeOK, NEW c \in Clients, NEW q \in Requests,
           UNCHANGED <<active, config, tickets>>,
           call' = [call EXCEPT ![c] = q]
    PROVE  TypeOK'
  <1>1. Requests' = Requests
    BY DEF Requests, Ids
  <1> HIDE DEF Requests
  <1> QED
    BY <1>1 DEF TypeOK

\* A step that stores tickets, none less, and answers the client.
LEMMA StoreTyped ==
    ASSUME TypeOK, NEW c \in Clients, NEW p \in Principals,
           NEW i \in DOMAIN tickets', Ids \subseteq DOMAIN tickets',
           tickets' \in Seq(TicketSet),
           call' = [call EXCEPT ![c] = Answer(p, i)],
           UNCHANGED <<active, config>>
    PROVE  TypeOK'
  <1>1. Requests \subseteq Requests'
    BY DEF Requests, Ids
  <1>2. Answer(p, i) \in Requests'
    BY DEF Answer, Requests, Ids
  <1> HIDE DEF Requests, Answer, TicketSet
  <1> QED
    BY <1>1, <1>2 DEF TypeOK

LEMMA AskTyped ==
    ASSUME TypeOK, NEW c \in Clients, NEW q \in Requests, Ask(c, q)
    PROVE  TypeOK'
  BY CallTyped DEF Ask

\* What the transactions that store something do, as far as the proofs need it.
LEMMA CreateEffect ==
    ASSUME TypeOK, NEW c \in Clients, Create(c)
    PROVE  LET q == call[c]
               n == Len(tickets) + 1
               u == Ticket(q.by, Queue(q.by), q.key, q.text) IN
           /\ q.by \in Principals /\ q.by \in active
           /\ u \in TicketSet
           /\ u.reporter = q.by /\ u.queue = Queue(q.by)
           /\ u.key = q.key /\ u.text = q.text /\ u.replies = <<>>
           /\ tickets' \in Seq(TicketSet)
           /\ DOMAIN tickets' = Ids \cup {n} /\ n \notin Ids
           /\ Ids = 1 .. Len(tickets) /\ Len(tickets) \in Nat
           /\ tickets'[n] = u
           /\ \A i \in Ids : tickets'[i] = tickets[i]
           /\ call' = [call EXCEPT ![c] = Answer(q.by, n)]
  <1> DEFINE q == call[c]
             n == Len(tickets) + 1
             u == Ticket(q.by, Queue(q.by), q.key, q.text)
  <1>1. q.by \in Principals /\ q.key \in Keys /\ q.text \in Texts
    BY RequestCases DEF Create
  <1>2. Queue(q.by) \in Queues
    BY DEF Queue, Queues
  <1>3. /\ u \in TicketSet /\ u.reporter = q.by /\ u.queue = Queue(q.by)
        /\ u.key = q.key /\ u.text = q.text /\ u.replies = <<>>
    BY <1>1, <1>2, TicketTyped
  <1>4. /\ tickets' = Append(tickets, u) /\ q.by \in active
        /\ call' = [call EXCEPT ![c] = Answer(q.by, n)]
    BY DEF Create, Answers
  <1>5. tickets \in Seq(TicketSet)
    BY DEF TypeOK
  <1> HIDE DEF u
  <1>6. /\ tickets' \in Seq(TicketSet)
        /\ DOMAIN tickets' = Ids \cup {n} /\ n \notin Ids
        /\ Ids = 1 .. Len(tickets) /\ Len(tickets) \in Nat
        /\ tickets'[n] = u
        /\ \A i \in Ids : tickets'[i] = tickets[i]
    BY <1>3, <1>4, <1>5 DEF Ids
  <1> QED
    BY <1>1, <1>3, <1>4, <1>6, Zenon DEF u

\* Reply and Assign put `u` in the place of one ticket.
LEMMA Replaced ==
    ASSUME TypeOK, NEW i \in Ids, NEW u \in TicketSet,
           tickets' = [tickets EXCEPT ![i] = u]
    PROVE  /\ tickets' \in Seq(TicketSet)
           /\ DOMAIN tickets' = Ids
           /\ tickets'[i] = u
           /\ \A j \in Ids \ {i} : tickets'[j] = tickets[j]
           /\ tickets[i] \in TicketSet
  <1>1. tickets \in Seq(TicketSet)
    BY DEF TypeOK
  <1> QED
    BY <1>1 DEF Ids

LEMMA ReplyEffect ==
    ASSUME TypeOK, NEW c \in Clients, Reply(c)
    PROVE  LET q == call[c]
               t == tickets[q.ticket]
               u == Replied(t, q.by, q.status) IN
           /\ q.ticket \in Ids /\ q.by \in Principals
           /\ q.status \in Statuses \cup {None}
           /\ t \in TicketSet /\ u \in TicketSet
           /\ u.replies = Append(t.replies, q.by) /\ u.assigned = t.assigned
           /\ u.reporter = t.reporter /\ u.queue = t.queue /\ u.key = t.key
           /\ u.text = t.text
           /\ u.status = IF q.status = None THEN t.status ELSE q.status
           /\ tickets' = [tickets EXCEPT ![q.ticket] = u]
           /\ call' = [call EXCEPT ![c] = Answer(q.by, q.ticket)]
  <1> DEFINE q == call[c]
             t == tickets[q.ticket]
             u == Replied(t, q.by, q.status)
  <1>1. q.by \in Principals /\ q.ticket \in Ids /\ q.status \in Statuses \cup {None}
    BY RequestCases DEF Reply
  <1>2. t \in TicketSet
    BY <1>1 DEF TypeOK, Ids
  <1>3. /\ u \in TicketSet
        /\ u.replies = Append(t.replies, q.by) /\ u.assigned = t.assigned
        /\ u.reporter = t.reporter /\ u.queue = t.queue /\ u.key = t.key
        /\ u.text = t.text
        /\ u.status = IF q.status = None THEN t.status ELSE q.status
    BY <1>1, <1>2, RepliedParts, Zenon
  <1>4. /\ tickets' = [tickets EXCEPT ![q.ticket] = u]
        /\ call' = [call EXCEPT ![c] = Answer(q.by, q.ticket)]
    BY Zenon DEF Reply, Answers
  <1> QED
    BY <1>1, <1>2, <1>3, <1>4, Zenon

LEMMA AssignEffect ==
    ASSUME TypeOK, NEW c \in Clients, Assign(c)
    PROVE  LET q == call[c]
               t == tickets[q.ticket]
               u == [t EXCEPT !.assigned = q.to] IN
           /\ q.ticket \in Ids /\ q.by \in Principals /\ q.to \in Principals
           /\ t \in TicketSet /\ u \in TicketSet
           /\ u.replies = t.replies /\ u.assigned = q.to
           /\ u.reporter = t.reporter /\ u.queue = t.queue /\ u.key = t.key
           /\ u.text = t.text /\ u.status = t.status
           /\ tickets' = [tickets EXCEPT ![q.ticket] = u]
           /\ call' = [call EXCEPT ![c] = Answer(q.by, q.ticket)]
  <1> DEFINE q == call[c]
             t == tickets[q.ticket]
             u == [t EXCEPT !.assigned = q.to]
  <1>1. q.by \in Principals /\ q.ticket \in Ids /\ q.to \in Principals
    BY RequestCases DEF Assign
  <1>2. t \in TicketSet
    BY <1>1 DEF TypeOK, Ids
  <1>3. /\ u \in TicketSet
        /\ u.replies = t.replies /\ u.assigned = q.to
        /\ u.reporter = t.reporter /\ u.queue = t.queue /\ u.key = t.key
        /\ u.text = t.text /\ u.status = t.status
    BY <1>1, <1>2, SetAssigned, Zenon
  <1>4. /\ tickets' = [tickets EXCEPT ![q.ticket] = u]
        /\ call' = [call EXCEPT ![c] = Answer(q.by, q.ticket)]
    BY Zenon DEF Assign, Answers
  <1> QED
    BY <1>1, <1>2, <1>3, <1>4, Zenon

LEMMA AskCases ==
    ASSUME TypeOK, NEW c \in Clients, NEW p \in Principals,
           \/ \E key \in Keys, text \in Texts :
                 p \in Reporters /\ AskCreate(c, p, key, text)
           \/ \E i \in Ids : AskRead(c, p, {i})
           \/ AskRead(c, p, Listed(p))
           \/ \E i \in Ids, status \in Statuses \cup {None} :
                 AskReply(c, p, i, status)
           \/ \E i \in Ids, q \in Principals : AskAssign(c, p, i, q)
    PROVE  \E q \in Requests : Ask(c, q) /\ q.op # "answered"
  <1>1. ASSUME NEW key \in Keys, NEW text \in Texts, AskCreate(c, p, key, text)
        PROVE  \E q \in Requests : Ask(c, q) /\ q.op # "answered"
    <2>1. [op |-> "create", by |-> p, key |-> key, text |-> text] \in Requests
      BY DEF Requests
    <2> QED
      BY <1>1, <2>1 DEF AskCreate
  <1>2. ASSUME NEW S \in SUBSET Ids, AskRead(c, p, S)
        PROVE  \E q \in Requests : Ask(c, q) /\ q.op # "answered"
    <2>1. [op |-> "read", by |-> p, left |-> S] \in Requests
      BY DEF Requests
    <2> QED
      BY <1>2, <2>1 DEF AskRead
  <1>3. ASSUME NEW i \in Ids, NEW status \in Statuses \cup {None},
               AskReply(c, p, i, status)
        PROVE  \E q \in Requests : Ask(c, q) /\ q.op # "answered"
    <2>1. [op |-> "reply", by |-> p, ticket |-> i, status |-> status] \in Requests
      BY DEF Requests
    <2> QED
      BY <1>3, <2>1 DEF AskReply
  <1>4. ASSUME NEW i \in Ids, NEW q \in Principals, AskAssign(c, p, i, q)
        PROVE  \E r \in Requests : Ask(c, r) /\ r.op # "answered"
    <2>1. [op |-> "assign", by |-> p, ticket |-> i, to |-> q] \in Requests
      BY DEF Requests
    <2> QED
      BY <1>4, <2>1 DEF AskAssign
  <1>5. \A i \in Ids : {i} \in SUBSET Ids
    OBVIOUS
  <1>6. Listed(p) \in SUBSET Ids
    BY DEF Listed
  <1> HIDE DEF Requests, Ask, AskCreate, AskRead, AskReply, AskAssign
  <1> QED
    BY <1>1, <1>2, <1>3, <1>4, <1>5, <1>6

LEMMA DuplicateEffect ==
    ASSUME TypeOK, NEW c \in Clients, Duplicate(c)
    PROVE  LET q == call[c] IN
           /\ q.by \in Principals /\ q.by \in active
           /\ \E i \in Ids :
                 /\ tickets[i].reporter = q.by /\ tickets[i].key = q.key
                 /\ tickets[i].text = q.text /\ tickets[i].queue = Queue(q.by)
                 /\ call' = [call EXCEPT ![c] = Answer(q.by, i)]
           /\ UNCHANGED <<active, config, tickets>>
  <1>1. call[c].by \in Principals
    BY RequestCases DEF Duplicate
  <1> QED
    BY <1>1 DEF Duplicate, Prior, Same, Answers

LEMMA ReadEffect ==
    ASSUME TypeOK, NEW c \in Clients, Read(c)
    PROVE  LET q == call[c] IN
           /\ q.by \in Principals
           /\ \E i \in Ids :
                 /\ Authorized(q.by, tickets[i])
                 /\ \/ call' = [call EXCEPT ![c] = Answer(q.by, i)]
                    \/ \E r \in Requests :
                          r.op = "read" /\ call' = [call EXCEPT ![c] = r]
           /\ UNCHANGED <<active, config, tickets>>
  <1> DEFINE q == call[c]
  <1>1. q.by \in Principals /\ q.left \subseteq Ids /\ Asked(c, "read")
    BY RequestCases DEF Read
  <1>2. PICK i \in q.left :
          /\ Authorized(q.by, tickets[i])
          /\ call' = [call EXCEPT ![c] = IF q.left = {i} THEN Answer(q.by, i)
                                         ELSE [q EXCEPT !.left = q.left \ {i}]]
    BY Zenon DEF Read
  <1>3. UNCHANGED <<active, config, tickets>>
    BY DEF Read
  <1> DEFINE S == q.left \ {i}
             r == [q EXCEPT !.left = S]
  <1>4. r \in Requests
    BY <1>1, LessLeft
  <1>5. r.op = "read"
    <2>1. q \in [op : {"read"}, by : Principals, left : SUBSET Ids]
      BY <1>1 DEF TypeOK, Requests, Asked, Idle
    <2> QED
      BY <2>1, Zenon
  <1> HIDE DEF r
  <1>6. call' = [call EXCEPT ![c] = IF q.left = {i} THEN Answer(q.by, i) ELSE r]
    BY <1>2, Zenon DEF r
  <1>7. i \in Ids
    BY <1>1
  <1> HIDE DEF Requests, Answer, Authorized
  <1> QED
    BY <1>1, <1>2, <1>3, <1>4, <1>5, <1>6, <1>7

LEMMA TransactionTyped ==
    ASSUME TypeOK, NEW c \in Clients, Transaction(c)
    PROVE  TypeOK'
  <1>1. CASE Create(c)
    <2>1. UNCHANGED <<active, config>>
      BY <1>1 DEF Create
    <2>2. /\ call[c].by \in Principals
          /\ Len(tickets) + 1 \in DOMAIN tickets' /\ Ids \subseteq DOMAIN tickets'
          /\ tickets' \in Seq(TicketSet)
          /\ call' = [call EXCEPT ![c] = Answer(call[c].by, Len(tickets) + 1)]
      BY <1>1, CreateEffect
    <2> QED
      BY <2>1, <2>2, StoreTyped
  <1>2. CASE Duplicate(c)
    <2>1. PICK i \in Ids : call' = [call EXCEPT ![c] = Answer(call[c].by, i)]
      BY <1>2, DuplicateEffect
    <2>2. call[c].by \in Principals /\ UNCHANGED <<active, config, tickets>>
      BY <1>2, DuplicateEffect
    <2> QED
      BY <2>1, <2>2, AnswerTyped, CallTyped
  <1>3. CASE Read(c)
    <2>1. PICK i \in Ids : \/ call' = [call EXCEPT ![c] = Answer(call[c].by, i)]
                           \/ \E r \in Requests : call' = [call EXCEPT ![c] = r]
      BY <1>3, ReadEffect
    <2>2. call[c].by \in Principals /\ UNCHANGED <<active, config, tickets>>
      BY <1>3, ReadEffect
    <2> QED
      BY <2>1, <2>2, AnswerTyped, CallTyped
  <1>4. CASE Reply(c)
    <2> DEFINE q == call[c]
               u == Replied(tickets[q.ticket], q.by, q.status)
    <2>1. UNCHANGED <<active, config>>
      BY <1>4 DEF Reply
    <2>2. /\ q.ticket \in Ids /\ q.by \in Principals /\ u \in TicketSet
          /\ tickets' = [tickets EXCEPT ![q.ticket] = u]
          /\ call' = [call EXCEPT ![c] = Answer(q.by, q.ticket)]
      BY <1>4, ReplyEffect
    <2> HIDE DEF u
    <2>3. tickets' \in Seq(TicketSet) /\ DOMAIN tickets' = Ids
      BY <2>2, Replaced
    <2> QED
      BY <2>1, <2>2, <2>3, StoreTyped
  <1>5. CASE Assign(c)
    <2> DEFINE q == call[c]
               u == [tickets[q.ticket] EXCEPT !.assigned = q.to]
    <2>1. UNCHANGED <<active, config>>
      BY <1>5 DEF Assign
    <2>2. /\ q.ticket \in Ids /\ q.by \in Principals /\ u \in TicketSet
          /\ tickets' = [tickets EXCEPT ![q.ticket] = u]
          /\ call' = [call EXCEPT ![c] = Answer(q.by, q.ticket)]
      BY <1>5, AssignEffect, Zenon
    <2> HIDE DEF u
    <2>3. tickets' \in Seq(TicketSet) /\ DOMAIN tickets' = Ids
      BY <2>2, Replaced
    <2> QED
      BY <2>1, <2>2, <2>3, StoreTyped
  <1> QED
    BY <1>1, <1>2, <1>3, <1>4, <1>5 DEF Transaction

LEMMA InitTyped == Init => TypeOK
  BY SupportAssumption DEF Init, TypeOK, Requests, Idle

LEMMA NextTyped ==
    ASSUME TypeOK, [Next]_vars
    PROVE  TypeOK'
  <1>1. ASSUME NEW c \in Clients, NEW p \in Principals,
               \/ \E key \in Keys, text \in Texts :
                     p \in Reporters /\ AskCreate(c, p, key, text)
               \/ \E i \in Ids : AskRead(c, p, {i})
               \/ AskRead(c, p, Listed(p))
               \/ \E i \in Ids, status \in Statuses \cup {None} :
                     AskReply(c, p, i, status)
               \/ \E i \in Ids, q \in Principals : AskAssign(c, p, i, q)
        PROVE  TypeOK'
    BY <1>1, AskCases, AskTyped
  <1>2. ASSUME NEW s \in Scopes, NEW new \in Configurations[s], Configure(s, new)
        PROVE  TypeOK'
    <2>1. new \in Configs
      BY SupportAssumption
    <2>2. Requests' = Requests
      BY <1>2 DEF Configure, Requests, Ids
    <2> HIDE DEF Requests, Configs
    <2> QED
      BY <1>2, <2>1, <2>2 DEF Configure, TypeOK
  <1>3. ASSUME NEW c \in Clients, GiveUp(c)
        PROVE  TypeOK'
    <2>1. Idle \in Requests
      BY DEF Requests
    <2> QED
      BY <1>3, <2>1, CallTyped DEF GiveUp
  <1>4. ASSUME NEW p \in Principals, Revoke(p)
        PROVE  TypeOK'
    <2>1. Requests' = Requests
      BY <1>4 DEF Revoke, Requests, Ids
    <2> HIDE DEF Requests
    <2> QED
      BY <1>4, <2>1 DEF Revoke, TypeOK
  <1>5. CASE UNCHANGED vars
    <2>1. Requests' = Requests
      BY <1>5 DEF vars, Requests, Ids
    <2> HIDE DEF Requests
    <2> QED
      BY <1>5, <2>1 DEF vars, TypeOK
  <1> HIDE DEF TypeOK
  <1> QED
    BY <1>1, <1>2, <1>3, <1>4, <1>5, TransactionTyped DEF Next

\* What the tables hold, and every call under way refers to a ticket that exists:
\* tickets are only ever added.
THEOREM TypeCorrect == Spec => []TypeOK
  BY InitTyped, NextTyped, PTL DEF Spec

-----------------------------------------------------------------------------
(* The transactions check what the application promises.                   *)

LEMMA HandlerHandles ==
    ASSUME NEW p \in active, NEW t, Handler(p, t)
    PROVE  CanHandle(p, t)
  BY DEF Handler, CanHandle, SolutionSupport, OrgSupport, Members

LEMMA AuthorizedReads ==
    ASSUME NEW p, NEW t, Authorized(p, t)
    PROVE  MayRead(p, t)
  BY HandlerHandles DEF Authorized, MayRead, Visible

\* The parts of OnlyEligibleStep.
TicketsEntitled == \A i \in Ids : Entitled(tickets[i], tickets'[i])
NewRouted == \A i \in DOMAIN tickets' \ Ids :
    tickets'[i].reporter \in active /\ tickets'[i].queue = Queue(tickets'[i].reporter)
AnswersEntitled == \A c \in Clients :
    call'[c] # call[c] /\ call'[c].op = "answered" /\ call'[c].ticket \in Ids
       => MayRead(call'[c].by, tickets[call'[c].ticket])
TeamsActive == \A o \in Tenants :
    config'[o] # config[o] => config'[o].team \subseteq Members(o)

LEMMA FromParts ==
    ASSUME TicketsEntitled, NewRouted, AnswersEntitled, TeamsActive
    PROVE  OnlyEligibleStep
  BY DEF TicketsEntitled, NewRouted, AnswersEntitled, TeamsActive, OnlyEligibleStep

LEMMA Unstored ==
    ASSUME tickets' = tickets
    PROVE  TicketsEntitled /\ NewRouted
  BY DEF TicketsEntitled, NewRouted, Entitled, Ids

LEMMA Unanswered ==
    ASSUME TypeOK, NEW c \in Clients, NEW q \in Requests, q.op # "answered",
           call' = [call EXCEPT ![c] = q]
    PROVE  AnswersEntitled
  <1> HIDE DEF Requests
  <1> QED
    BY DEF AnswersEntitled, TypeOK

LEMMA Answered ==
    ASSUME TypeOK, NEW c \in Clients, NEW p, NEW i, 
           i \in Ids => MayRead(p, tickets[i]),
           call' = [call EXCEPT ![c] = Answer(p, i)]
    PROVE  AnswersEntitled
  <1>1. Answer(p, i).by = p /\ Answer(p, i).ticket = i
    BY DEF Answer
  <1> HIDE DEF Requests, Answer, MayRead
  <1> QED
    BY <1>1 DEF AnswersEntitled, TypeOK

LEMMA ReplacedEntitled ==
    ASSUME TypeOK, NEW i \in Ids, NEW u \in TicketSet,
           tickets' = [tickets EXCEPT ![i] = u], Entitled(tickets[i], u)
    PROVE  TicketsEntitled /\ NewRouted
  <1>1. /\ DOMAIN tickets' = Ids /\ tickets'[i] = u
        /\ \A j \in Ids \ {i} : tickets'[j] = tickets[j]
    BY Replaced
  <1>2. \A j \in Ids \ {i} : Entitled(tickets[j], tickets'[j])
    BY <1>1 DEF Entitled
  <1> QED
    BY <1>1, <1>2 DEF TicketsEntitled, NewRouted

LEMMA LastAppended ==
    ASSUME NEW s \in Seq(Principals), NEW p \in Principals
    PROVE  Append(s, p)[Len(Append(s, p))] = p
  OBVIOUS

LEMMA TransactionEligible ==
    ASSUME TypeOK, NEW c \in Clients, Transaction(c)
    PROVE  OnlyEligibleStep
  <1>0. config' = config /\ TeamsActive
    BY DEF Transaction, Create, Duplicate, Read, Reply, Assign, TeamsActive
  <1>1. CASE Create(c)
    <2> DEFINE q == call[c]
               n == Len(tickets) + 1
               u == Ticket(q.by, Queue(q.by), q.key, q.text)
    <2>1. /\ q.by \in active /\ u.reporter = q.by /\ u.queue = Queue(q.by)
          /\ DOMAIN tickets' = Ids \cup {n} /\ n \notin Ids
          /\ tickets'[n] = u
          /\ \A i \in Ids : tickets'[i] = tickets[i]
          /\ call' = [call EXCEPT ![c] = Answer(q.by, n)]
      BY <1>1, CreateEffect
    <2> HIDE DEF u
    <2>2. NewRouted
      BY <2>1 DEF NewRouted
    <2>3. TicketsEntitled
      BY <2>1 DEF TicketsEntitled, Entitled
    <2>4. AnswersEntitled
      BY <2>1, Answered
    <2> QED
      BY <1>0, <2>2, <2>3, <2>4, FromParts
  <1>2. CASE Duplicate(c)
    <2>1. PICK i \in Ids : tickets[i].reporter = call[c].by
                           /\ call' = [call EXCEPT ![c] = Answer(call[c].by, i)]
      BY <1>2, DuplicateEffect
    <2>2. call[c].by \in active /\ tickets' = tickets
      BY <1>2, DuplicateEffect
    <2>3. MayRead(call[c].by, tickets[i])
      BY <2>1, <2>2 DEF MayRead, Visible
    <2>4. AnswersEntitled
      BY <2>1, <2>3, Answered
    <2> QED
      BY <1>0, <2>2, <2>4, Unstored, FromParts
  <1>3. CASE Read(c)
    <2>1. PICK i \in Ids :
            /\ Authorized(call[c].by, tickets[i])
            /\ \/ call' = [call EXCEPT ![c] = Answer(call[c].by, i)]
               \/ \E r \in Requests : r.op = "read" /\ call' = [call EXCEPT ![c] = r]
      BY <1>3, ReadEffect
    <2>2. tickets' = tickets
      BY <1>3, ReadEffect
    <2>3. MayRead(call[c].by, tickets[i])
      BY <2>1, AuthorizedReads
    <2>4. AnswersEntitled
      BY <2>1, <2>3, Answered, Unanswered
    <2> QED
      BY <1>0, <2>2, <2>4, Unstored, FromParts
  <1>4. CASE Reply(c)
    <2> DEFINE q == call[c]
               t == tickets[q.ticket]
               u == Replied(t, q.by, q.status)
    <2>1. /\ q.ticket \in Ids /\ q.by \in Principals
          /\ t \in TicketSet /\ u \in TicketSet
          /\ u.replies = Append(t.replies, q.by) /\ u.assigned = t.assigned
          /\ tickets' = [tickets EXCEPT ![q.ticket] = u]
          /\ call' = [call EXCEPT ![c] = Answer(q.by, q.ticket)]
      BY <1>4, ReplyEffect
    <2>2. MayRead(q.by, t)
      BY <1>4, AuthorizedReads DEF Reply
    <2> HIDE DEF u
    <2>3. Entitled(t, u)
      <3>1. t.replies \in Seq(Principals)
        BY <2>1, TicketParts
      <3>2. u.replies[Len(u.replies)] = q.by
        BY <2>1, <3>1, LastAppended
      <3> QED
        BY <2>1, <2>2, <3>2 DEF Entitled
    <2>4. TicketsEntitled /\ NewRouted
      BY <2>1, <2>3, ReplacedEntitled
    <2>5. AnswersEntitled
      BY <2>1, <2>2, Answered
    <2> QED
      BY <1>0, <2>4, <2>5, FromParts
  <1>5. CASE Assign(c)
    <2> DEFINE q == call[c]
               t == tickets[q.ticket]
               u == [t EXCEPT !.assigned = q.to]
    <2>1. /\ q.ticket \in Ids /\ u \in TicketSet
          /\ u.replies = t.replies /\ u.assigned = q.to
          /\ tickets' = [tickets EXCEPT ![q.ticket] = u]
          /\ call' = [call EXCEPT ![c] = Answer(q.by, q.ticket)]
      BY <1>5, AssignEffect, Zenon
    <2>2. /\ q.by \in active /\ CanHandle(q.by, t)
          /\ q.to \in active /\ CanHandle(q.to, t)
      BY <1>5, HandlerHandles DEF Assign, MayAssign
    <2> HIDE DEF u
    <2>3. Entitled(t, u)
      BY <2>1, <2>2 DEF Entitled
    <2>4. TicketsEntitled /\ NewRouted
      BY <2>1, <2>3, ReplacedEntitled
    <2>5. AnswersEntitled
      BY <2>1, <2>2, Answered DEF MayRead, Visible
    <2> QED
      BY <1>0, <2>4, <2>5, FromParts
  <1> QED
    BY <1>1, <1>2, <1>3, <1>4, <1>5 DEF Transaction

LEMMA NextEligible ==
    ASSUME TypeOK, [Next]_vars
    PROVE  OnlyEligibleStep
  <1>1. ASSUME NEW c \in Clients, NEW q \in Requests, q.op # "answered",
               call' = [call EXCEPT ![c] = q], UNCHANGED <<config, tickets>>
        PROVE  OnlyEligibleStep
    <2>1. TeamsActive
      BY <1>1 DEF TeamsActive
    <2> QED
      BY <1>1, <2>1, Unstored, Unanswered, FromParts
  <1>2. ASSUME NEW c \in Clients, NEW p \in Principals,
               \/ \E key \in Keys, text \in Texts :
                     p \in Reporters /\ AskCreate(c, p, key, text)
               \/ \E i \in Ids : AskRead(c, p, {i})
               \/ AskRead(c, p, Listed(p))
               \/ \E i \in Ids, status \in Statuses \cup {None} :
                     AskReply(c, p, i, status)
               \/ \E i \in Ids, q \in Principals : AskAssign(c, p, i, q)
        PROVE  OnlyEligibleStep
    <2>1. PICK q \in Requests : Ask(c, q) /\ q.op # "answered"
      BY <1>2, AskCases
    <2>2. call' = [call EXCEPT ![c] = q] /\ UNCHANGED <<config, tickets>>
      BY <2>1 DEF Ask
    <2> QED
      BY <1>1, <2>1, <2>2
  <1>3. ASSUME NEW c \in Clients, GiveUp(c)
        PROVE  OnlyEligibleStep
    <2>1. Idle \in Requests /\ Idle.op # "answered"
      BY DEF Requests, Idle
    <2>2. call' = [call EXCEPT ![c] = Idle] /\ UNCHANGED <<config, tickets>>
      BY <1>3 DEF GiveUp
    <2> QED
      BY <1>1, <2>1, <2>2
  <1>4. ASSUME call' = call, tickets' = tickets, TeamsActive
        PROVE  OnlyEligibleStep
    <2>1. AnswersEntitled
      BY <1>4 DEF AnswersEntitled
    <2> QED
      BY <1>4, <2>1, Unstored, FromParts
  <1>5. ASSUME NEW s \in Scopes, NEW new \in Configurations[s], Configure(s, new)
        PROVE  OnlyEligibleStep
    <2>1. TeamsActive
      <3>1. config \in [Scopes -> Configs \cup {None}] /\ Solution \notin Tenants
        BY SupportAssumption DEF TypeOK
      <3> QED
        BY <1>5, <3>1 DEF Configure, OrgTeam, TeamsActive, Scopes
    <2> QED
      BY <1>4, <1>5, <2>1 DEF Configure
  <1>6. ASSUME NEW p \in Principals, Revoke(p)
        PROVE  OnlyEligibleStep
    BY <1>4, <1>6 DEF Revoke, TeamsActive
  <1>7. CASE UNCHANGED vars
    BY <1>4, <1>7 DEF vars, TeamsActive
  <1> HIDE DEF OnlyEligibleStep, TypeOK
  <1> QED
    BY <1>2, <1>3, <1>5, <1>6, <1>7, TransactionEligible DEF Next

\* Every reply, assignment, new ticket and answer is for somebody who is active
\* and entitled by the application's rule when the transaction runs.
THEOREM EntitledAtCommit == Spec => OnlyEligible
  <1>1. TypeOK /\ [Next]_vars => [OnlyEligibleStep]_vars
    BY NextEligible
  <1> QED
    BY <1>1, TypeCorrect, PTL DEF Spec, OnlyEligible

-----------------------------------------------------------------------------
(* Retries.                                                                *)

Standing == \A i \in Ids :
    i \in DOMAIN tickets' /\ Submitted(tickets'[i]) = Submitted(tickets[i])
NewKeys == \A i \in Ids, j \in DOMAIN tickets' \ Ids :
    tickets'[j].reporter # tickets[i].reporter \/ tickets'[j].key # tickets[i].key
Honest == \A c \in Clients : Asked(c, "create") /\ call'[c].op = "answered" =>
    LET q == call[c] IN
    Submitted(tickets'[call'[c].ticket]) = <<q.by, Queue(q.by), q.key, q.text>>

LEMMA FromRetryParts ==
    ASSUME Standing, NewKeys, Honest
    PROVE  SubmittedOnceStep
  BY DEF Standing, NewKeys, Honest, SubmittedOnceStep

LEMMA UnstoredStands ==
    ASSUME tickets' = tickets
    PROVE  Standing /\ NewKeys
  BY DEF Standing, NewKeys, Ids

LEMMA ReplacedStands ==
    ASSUME TypeOK, NEW i \in Ids, NEW u \in TicketSet,
           tickets' = [tickets EXCEPT ![i] = u], Submitted(u) = Submitted(tickets[i])
    PROVE  Standing /\ NewKeys
  <1>1. /\ DOMAIN tickets' = Ids /\ tickets'[i] = u
        /\ \A j \in Ids \ {i} : tickets'[j] = tickets[j]
    BY Replaced
  <1> HIDE DEF Submitted
  <1> QED
    BY <1>1 DEF Standing, NewKeys

\* What client `c` is given is no answer to a creation, or a right one.
LEMMA OthersHonest ==
    ASSUME TypeOK, NEW c \in Clients, NEW r,
           call' = [call EXCEPT ![c] = r],
           Asked(c, "create") /\ r.op = "answered" =>
              LET q == call[c] IN
              Submitted(tickets'[r.ticket]) = <<q.by, Queue(q.by), q.key, q.text>>
    PROVE  Honest
  <1> HIDE DEF Submitted, Requests
  <1> QED
    BY DEF Honest, TypeOK, Asked

LEMMA TransactionOnce ==
    ASSUME TypeOK, NEW c \in Clients, Transaction(c)
    PROVE  SubmittedOnceStep
  <1> DEFINE q == call[c]
  <1>1. CASE Create(c)
    <2> DEFINE n == Len(tickets) + 1
               u == Ticket(q.by, Queue(q.by), q.key, q.text)
    <2>1. /\ u.reporter = q.by /\ u.queue = Queue(q.by)
          /\ u.key = q.key /\ u.text = q.text
          /\ DOMAIN tickets' = Ids \cup {n} /\ n \notin Ids
          /\ tickets'[n] = u
          /\ \A i \in Ids : tickets'[i] = tickets[i]
          /\ call' = [call EXCEPT ![c] = Answer(q.by, n)]
      BY <1>1, CreateEffect
    <2> HIDE DEF u
    <2>2. Prior(q.by, q.key) = {}
      BY <1>1 DEF Create
    <2>3. Standing
      BY <2>1 DEF Standing, Submitted
    <2>4. NewKeys
      BY <2>1, <2>2 DEF NewKeys, Prior
    <2>5. Answer(q.by, n).ticket = n
      BY DEF Answer
    <2>6. Submitted(tickets'[n]) = <<q.by, Queue(q.by), q.key, q.text>>
      BY <2>1 DEF Submitted
    <2>7. Honest
      BY <2>1, <2>5, <2>6, OthersHonest
    <2> QED
      BY <2>3, <2>4, <2>7, FromRetryParts
  <1>2. CASE Duplicate(c)
    <2>1. PICK i \in Ids :
            /\ tickets[i].reporter = q.by /\ tickets[i].key = q.key
            /\ tickets[i].text = q.text /\ tickets[i].queue = Queue(q.by)
            /\ call' = [call EXCEPT ![c] = Answer(q.by, i)]
      BY <1>2, DuplicateEffect
    <2>2. tickets' = tickets
      BY <1>2, DuplicateEffect
    <2>3. Answer(q.by, i).ticket = i
      BY DEF Answer
    <2>4. Submitted(tickets'[i]) = <<q.by, Queue(q.by), q.key, q.text>>
      BY <2>1, <2>2 DEF Submitted
    <2>5. Honest
      BY <2>1, <2>3, <2>4, OthersHonest
    <2> QED
      BY <2>2, <2>5, UnstoredStands, FromRetryParts
  <1>3. CASE Read(c)
    <2>1. PICK r : call' = [call EXCEPT ![c] = r]
      BY <1>3, ReadEffect
    <2>2. tickets' = tickets /\ ~Asked(c, "create")
      BY <1>3, ReadEffect DEF Read, Asked
    <2>3. Honest
      BY <2>1, <2>2, OthersHonest
    <2> QED
      BY <2>2, <2>3, UnstoredStands, FromRetryParts
  <1>4. CASE Reply(c)
    <2> DEFINE u == Replied(tickets[q.ticket], q.by, q.status)
    <2>1. /\ q.ticket \in Ids /\ u \in TicketSet
          /\ u.reporter = tickets[q.ticket].reporter
          /\ u.queue = tickets[q.ticket].queue
          /\ u.key = tickets[q.ticket].key /\ u.text = tickets[q.ticket].text
          /\ tickets' = [tickets EXCEPT ![q.ticket] = u]
          /\ call' = [call EXCEPT ![c] = Answer(q.by, q.ticket)]
      BY <1>4, ReplyEffect
    <2>2. ~Asked(c, "create")
      BY <1>4 DEF Reply, Asked
    <2> HIDE DEF u
    <2>3. Standing /\ NewKeys
      BY <2>1, ReplacedStands DEF Submitted
    <2>4. Honest
      BY <2>1, <2>2, OthersHonest
    <2> QED
      BY <2>3, <2>4, FromRetryParts
  <1>5. CASE Assign(c)
    <2> DEFINE u == [tickets[q.ticket] EXCEPT !.assigned = q.to]
    <2>1. /\ q.ticket \in Ids /\ u \in TicketSet
          /\ u.reporter = tickets[q.ticket].reporter
          /\ u.queue = tickets[q.ticket].queue
          /\ u.key = tickets[q.ticket].key /\ u.text = tickets[q.ticket].text
          /\ tickets' = [tickets EXCEPT ![q.ticket] = u]
          /\ call' = [call EXCEPT ![c] = Answer(q.by, q.ticket)]
      BY <1>5, AssignEffect, Zenon
    <2>2. ~Asked(c, "create")
      BY <1>5 DEF Assign, Asked
    <2> HIDE DEF u
    <2>3. Standing /\ NewKeys
      BY <2>1, ReplacedStands DEF Submitted
    <2>4. Honest
      BY <2>1, <2>2, OthersHonest
    <2> QED
      BY <2>3, <2>4, FromRetryParts
  <1> QED
    BY <1>1, <1>2, <1>3, <1>4, <1>5 DEF Transaction

LEMMA NextOnce ==
    ASSUME TypeOK, [Next]_vars
    PROVE  SubmittedOnceStep
  <1>1. ASSUME NEW c \in Clients, NEW q \in Requests, q.op # "answered",
               call' = [call EXCEPT ![c] = q], tickets' = tickets
        PROVE  SubmittedOnceStep
    BY <1>1, OthersHonest, UnstoredStands, FromRetryParts
  <1>2. ASSUME NEW c \in Clients, NEW p \in Principals,
               \/ \E key \in Keys, text \in Texts :
                     p \in Reporters /\ AskCreate(c, p, key, text)
               \/ \E i \in Ids : AskRead(c, p, {i})
               \/ AskRead(c, p, Listed(p))
               \/ \E i \in Ids, status \in Statuses \cup {None} :
                     AskReply(c, p, i, status)
               \/ \E i \in Ids, q \in Principals : AskAssign(c, p, i, q)
        PROVE  SubmittedOnceStep
    <2>1. PICK q \in Requests : Ask(c, q) /\ q.op # "answered"
      BY <1>2, AskCases
    <2>2. call' = [call EXCEPT ![c] = q] /\ tickets' = tickets
      BY <2>1 DEF Ask
    <2> QED
      BY <1>1, <2>1, <2>2
  <1>3. ASSUME NEW c \in Clients, GiveUp(c)
        PROVE  SubmittedOnceStep
    <2>1. Idle \in Requests /\ Idle.op # "answered"
      BY DEF Requests, Idle
    <2>2. call' = [call EXCEPT ![c] = Idle] /\ tickets' = tickets
      BY <1>3 DEF GiveUp
    <2> QED
      BY <1>1, <2>1, <2>2
  <1>4. ASSUME call' = call, tickets' = tickets
        PROVE  SubmittedOnceStep
    <2>1. Honest
      BY <1>4 DEF Honest, Asked
    <2> QED
      BY <1>4, <2>1, UnstoredStands, FromRetryParts
  <1>5. ASSUME NEW s \in Scopes, NEW new \in Configurations[s], Configure(s, new)
        PROVE  SubmittedOnceStep
    BY <1>4, <1>5 DEF Configure
  <1>6. ASSUME NEW p \in Principals, Revoke(p)
        PROVE  SubmittedOnceStep
    BY <1>4, <1>6 DEF Revoke
  <1>7. CASE UNCHANGED vars
    BY <1>4, <1>7 DEF vars
  <1> HIDE DEF SubmittedOnceStep, TypeOK
  <1> QED
    BY <1>2, <1>3, <1>5, <1>6, <1>7, TransactionOnce DEF Next

\* However calls are repeated and overlap, a key stands for one ticket with the
\* content submitted first, which no step removes or alters.
THEOREM RetriesAreSafe == Spec => SubmittedOnce
  <1>1. TypeOK /\ [Next]_vars => [SubmittedOnceStep]_vars
    BY NextOnce
  <1> QED
    BY <1>1, TypeCorrect, PTL DEF Spec, SubmittedOnce

-----------------------------------------------------------------------------
(* The limits that are counts.                                             *)

LEMMA CountsFinite ==
    ASSUME TypeOK, NEW o
    PROVE  IsFiniteSet(Of(o)) /\ IsFiniteSet(Open(o))
  <1>1. Ids = 1 .. Len(tickets) /\ Len(tickets) \in Nat
    BY DEF TypeOK, Ids
  <1>2. IsFiniteSet(Ids)
    BY <1>1, FS_Interval
  <1> QED
    BY <1>2, FS_Subset DEF Of, Open

LEMMA OneMore ==
    ASSUME NEW S, IsFiniteSet(S), NEW T, NEW x, T \subseteq S \cup {x},
           NEW limit \in Nat, Cardinality(S) < limit
    PROVE  Cardinality(T) <= limit
  <1>1. IsFiniteSet(S \cup {x}) /\ Cardinality(S \cup {x}) <= Cardinality(S) + 1
    <2>1. IsFiniteSet(S \cup {x})
      BY FS_AddElement
    <2>2. Cardinality(S \cup {x}) = Cardinality(S) \/ Cardinality(S \cup {x}) = Cardinality(S) + 1
      BY FS_AddElement
    <2>3. Cardinality(S) \in Nat
      BY FS_CardinalityType
    <2> QED
      BY <2>1, <2>2, <2>3
  <1>2. Cardinality(T) <= Cardinality(S \cup {x})
    BY <1>1, FS_Subset
  <1>3. Cardinality(S) \in Nat /\ Cardinality(S \cup {x}) \in Nat /\ Cardinality(T) \in Nat
    BY <1>1, FS_CardinalityType, FS_Subset
  <1> QED
    BY <1>1, <1>2, <1>3

LEMMA NoMore ==
    ASSUME NEW S, IsFiniteSet(S), NEW T, T \subseteq S,
           NEW limit \in Nat, Cardinality(S) <= limit
    PROVE  Cardinality(T) <= limit
  <1>1. Cardinality(T) <= Cardinality(S) /\ IsFiniteSet(T)
    BY FS_Subset
  <1>2. Cardinality(S) \in Nat /\ Cardinality(T) \in Nat
    BY <1>1, FS_CardinalityType
  <1> QED
    BY <1>1, <1>2

LEMMA CreateCounts ==
    ASSUME TypeOK, CountsWithin, NEW c \in Clients, Create(c)
    PROVE  CountsWithin'
  <1> DEFINE q == call[c]
             n == Len(tickets) + 1
             u == Ticket(q.by, Queue(q.by), q.key, q.text)
  <1>1. /\ u.reporter = q.by /\ u.replies = <<>>
        /\ DOMAIN tickets' = Ids \cup {n} /\ n \notin Ids
        /\ tickets'[n] = u
        /\ \A i \in Ids : tickets'[i] = tickets[i]
    BY CreateEffect
  <1> HIDE DEF u
  <1>2. /\ Cardinality(Of(OrgOf[q.by])) < MaxTickets
        /\ Cardinality(Open(OrgOf[q.by])) < MaxOpen
    BY DEF Create, Room
  <1>3. ASSUME NEW o \in Tenants
        PROVE  Cardinality(Of(o))' <= MaxTickets /\ Cardinality(Open(o))' <= MaxOpen
    <2>1. Of(o)' \subseteq Of(o) \cup {n} /\ Open(o)' \subseteq Open(o) \cup {n}
      BY <1>1 DEF Of, Open, Ids
    <2>2. o # OrgOf[q.by] => Of(o)' \subseteq Of(o) /\ Open(o)' \subseteq Open(o)
      BY <1>1 DEF Of, Open, Ids, Home
    <2>3. Cardinality(Of(o)) <= MaxTickets /\ Cardinality(Open(o)) <= MaxOpen
      BY DEF CountsWithin
    <2>4. CASE o = OrgOf[q.by]
      BY <1>2, <2>1, <2>4, CountsFinite, OneMore, SupportAssumption
    <2>5. CASE o # OrgOf[q.by]
      BY <2>2, <2>3, <2>5, CountsFinite, NoMore, SupportAssumption
    <2> QED
      BY <2>4, <2>5
  <1>4. \A i \in DOMAIN tickets' : Len(tickets'[i].replies) <= MaxReplies
    BY <1>1, SupportAssumption DEF CountsWithin
  <1> QED
    BY <1>3, <1>4 DEF CountsWithin, Ids

LEMMA ReplyCounts ==
    ASSUME TypeOK, CountsWithin, NEW c \in Clients, Reply(c)
    PROVE  CountsWithin'
  <1> DEFINE q == call[c]
             t == tickets[q.ticket]
             u == Replied(t, q.by, q.status)
  <1>1. /\ q.ticket \in Ids /\ q.by \in Principals /\ t \in TicketSet
        /\ u \in TicketSet
        /\ u.replies = Append(t.replies, q.by)
        /\ u.reporter = t.reporter
        /\ u.status = IF q.status = None THEN t.status ELSE q.status
        /\ tickets' = [tickets EXCEPT ![q.ticket] = u]
    BY ReplyEffect
  <1> HIDE DEF u
  <1>2. /\ DOMAIN tickets' = Ids /\ tickets'[q.ticket] = u
        /\ \A j \in Ids \ {q.ticket} : tickets'[j] = tickets[j]
    BY <1>1, Replaced
  <1>3. /\ Len(t.replies) < MaxReplies
        /\ Reopens(t, q.status) => Cardinality(Open(Home(t))) < MaxOpen
    BY DEF Reply
  <1>4. ASSUME NEW o \in Tenants
        PROVE  Cardinality(Of(o))' <= MaxTickets /\ Cardinality(Open(o))' <= MaxOpen
    <2>1. Of(o)' \subseteq Of(o)
      BY <1>1, <1>2 DEF Of, Home, Ids
    <2>2. Open(o)' \subseteq Open(o) \cup {q.ticket}
      BY <1>2, <2>1 DEF Of, Open
    <2>3. Cardinality(Of(o)) <= MaxTickets /\ Cardinality(Open(o)) <= MaxOpen
      BY DEF CountsWithin
    <2>4. Cardinality(Of(o))' <= MaxTickets
      BY <2>1, <2>3, CountsFinite, NoMore, SupportAssumption
    <2>5. CASE Reopens(t, q.status) /\ Home(t) = o
      BY <1>3, <2>2, <2>4, <2>5, CountsFinite, OneMore, SupportAssumption
    <2>6. CASE ~(Reopens(t, q.status) /\ Home(t) = o)
      <3>1. t.status \in Statuses
        BY <1>1, TicketParts
      <3>2. q.ticket \in Open(o)' => q.ticket \in Open(o)
        BY <1>1, <1>2, <2>6, <3>1 DEF Open, Of, Home, Ids, Reopens, Statuses
      <3>3. Open(o)' \subseteq Open(o)
        BY <2>2, <3>2
      <3> QED
        BY <2>3, <2>4, <3>3, CountsFinite, NoMore, SupportAssumption
    <2> QED
      BY <2>5, <2>6
  <1>5. Len(u.replies) <= MaxReplies
    <2>1. t.replies \in Seq(Principals)
      BY <1>1, TicketParts
    <2>2. Len(Append(t.replies, q.by)) = Len(t.replies) + 1 /\ Len(t.replies) \in Nat
      BY <1>1, <2>1
    <2> QED
      BY <1>1, <1>3, <2>2, SupportAssumption
  <1>6. \A i \in DOMAIN tickets' : Len(tickets'[i].replies) <= MaxReplies
    BY <1>2, <1>5 DEF CountsWithin
  <1> QED
    BY <1>4, <1>6 DEF CountsWithin, Ids

LEMMA AssignCounts ==
    ASSUME TypeOK, CountsWithin, NEW c \in Clients, Assign(c)
    PROVE  CountsWithin'
  <1> DEFINE q == call[c]
             t == tickets[q.ticket]
             u == [t EXCEPT !.assigned = q.to]
  <1>1. /\ q.ticket \in Ids /\ u \in TicketSet
        /\ u.replies = t.replies /\ u.reporter = t.reporter /\ u.status = t.status
        /\ tickets' = [tickets EXCEPT ![q.ticket] = u]
    BY AssignEffect, Zenon
  <1> HIDE DEF u
  <1>2. /\ DOMAIN tickets' = Ids /\ tickets'[q.ticket] = u
        /\ \A j \in Ids \ {q.ticket} : tickets'[j] = tickets[j]
    BY <1>1, Replaced
  <1>3. \A o \in Tenants : Of(o)' = Of(o) /\ Open(o)' = Open(o)
    BY <1>1, <1>2 DEF Of, Open, Home, Ids
  <1>4. \A i \in DOMAIN tickets' : Len(tickets'[i].replies) <= MaxReplies
    BY <1>1, <1>2 DEF CountsWithin
  <1> QED
    BY <1>3, <1>4 DEF CountsWithin, Ids

LEMMA UnstoredCounts ==
    ASSUME CountsWithin, tickets' = tickets
    PROVE  CountsWithin'
  BY DEF CountsWithin, Of, Open, Home, Ids

LEMMA NextCounts ==
    ASSUME TypeOK, CountsWithin, [Next]_vars
    PROVE  CountsWithin'
  <1>1. ASSUME NEW c \in Clients, Transaction(c)
        PROVE  CountsWithin'
    BY <1>1, CreateCounts, ReplyCounts, AssignCounts, UnstoredCounts
       DEF Transaction, Duplicate, Read
  <1>2. ASSUME ~\E c \in Clients : Transaction(c)
        PROVE  tickets' = tickets
    BY <1>2 DEF Next, AskCreate, AskRead, AskReply, AskAssign, Ask, GiveUp,
                Configure, Revoke, vars
  <1> QED
    BY <1>1, <1>2, UnstoredCounts

LEMMA InitCounts == Init => CountsWithin
  <1> SUFFICES ASSUME Init PROVE CountsWithin
    OBVIOUS
  <1>1. Ids = {}
    BY DEF Init, Ids
  <1>2. \A o \in Tenants : Of(o) = {} /\ Open(o) = {}
    BY <1>1 DEF Of, Open
  <1>3. \A o \in Tenants : Cardinality(Of(o)) = 0 /\ Cardinality(Open(o)) = 0
    BY <1>2, FS_EmptySet, Zenon
  <1>4. MaxTickets \in Nat /\ MaxOpen \in Nat
    BY SupportAssumption
  <1> QED
    BY <1>1, <1>3, <1>4 DEF CountsWithin

\* No organisation has more tickets or open tickets, and no ticket more replies,
\* than the limits, however often tickets are closed and reopened.
THEOREM CountsBounded == Spec => []CountsWithin
  BY InitCounts, NextCounts, TypeCorrect, PTL DEF Spec

-----------------------------------------------------------------------------
(* The limit that is a sum: the bytes of the tickets of an organisation.   *)

Total(o) == SumFunctionOnSet(Held, Of(o))

\* Each ticket holds a natural number of bytes, and so do all of them.
LEMMA HeldTyped ==
    ASSUME TypeOK
    PROVE  \A i \in Ids : Held[i] \in Nat /\ Held[i] = Bytes(tickets[i])
  <1> SUFFICES ASSUME NEW i \in Ids
               PROVE  Held[i] \in Nat /\ Held[i] = Bytes(tickets[i])
    OBVIOUS
  <1>1. tickets[i] \in TicketSet
    BY DEF TypeOK, Ids
  <1>2. tickets[i].text \in Texts /\ tickets[i].replies \in Seq(Principals)
    BY <1>1, TicketParts
  <1>3. Size[tickets[i].text] \in Nat /\ ReplySize \in Nat /\ Len(tickets[i].replies) \in Nat
    BY <1>2, SupportAssumption
  <1>4. Bytes(tickets[i]) \in Nat
    BY <1>3 DEF Bytes
  <1> QED
    BY <1>4 DEF Held

LEMMA TotalTyped ==
    ASSUME TypeOK, NEW o
    PROVE  Total(o) \in Nat /\ IsFiniteSet(Of(o)) /\ Of(o) \subseteq Ids
  <1>1. IsFiniteSet(Of(o)) /\ Of(o) \subseteq Ids
    BY CountsFinite DEF Of
  <1>2. \A i \in Of(o) : Held[i] \in Nat
    BY <1>1, HeldTyped
  <1> QED
    BY <1>1, <1>2, SumType DEF Total

\* What is left of the limit.
LEMMA FitsTotal ==
    ASSUME NEW o, NEW n
    PROVE  Fits(o, n) <=> Total(o) + n <= MaxBytes
  BY DEF Fits, Total

LEMMA HeldTypedNext ==
    ASSUME TypeOK'
    PROVE  \A i \in DOMAIN tickets' : Held'[i] \in Nat /\ Held'[i] = Bytes(tickets'[i])
  <1> SUFFICES ASSUME NEW i \in DOMAIN tickets'
               PROVE  Held'[i] \in Nat /\ Held'[i] = Bytes(tickets'[i])
    OBVIOUS
  <1>1. tickets'[i] \in TicketSet
    BY DEF TypeOK
  <1>2. tickets'[i].text \in Texts /\ tickets'[i].replies \in Seq(Principals)
    BY <1>1, TicketParts
  <1>3. Size[tickets'[i].text] \in Nat /\ ReplySize \in Nat /\ Len(tickets'[i].replies) \in Nat
    BY <1>2, SupportAssumption
  <1>4. Bytes(tickets'[i]) \in Nat
    BY <1>3 DEF Bytes
  <1> QED
    BY <1>4 DEF Held, Ids

LEMMA TotalTypedNext ==
    ASSUME TypeOK', NEW o
    PROVE  Total(o)' \in Nat
  <1>1. Ids' = 1 .. Len(tickets') /\ Len(tickets') \in Nat
    BY DEF TypeOK, Ids
  <1>2. IsFiniteSet(Ids')
    BY <1>1, FS_Interval
  <1>3. Of(o)' \subseteq Ids' /\ \A i \in Ids' : Held'[i] \in Nat
    BY HeldTypedNext DEF Of, Ids
  <1>4. IsFiniteSet(Of(o)') /\ \A i \in Of(o)' : Held'[i] \in Nat
    BY <1>2, <1>3, FS_Subset
  <1> QED
    BY <1>4, SumType DEF Total

\* A new ticket adds its size to what its organisation holds.
LEMMA CreateTotal ==
    ASSUME TypeOK, TypeOK', NEW c \in Clients, Create(c), NEW o \in Tenants,
           Total(o) <= MaxBytes
    PROVE  Total(o)' <= MaxBytes
  <1> DEFINE q == call[c]
             n == Len(tickets) + 1
             u == Ticket(q.by, Queue(q.by), q.key, q.text)
  <1>1. /\ u.reporter = q.by /\ u.replies = <<>> /\ u.text = q.text
        /\ DOMAIN tickets' = Ids \cup {n} /\ n \notin Ids
        /\ tickets'[n] = u
        /\ \A i \in Ids : tickets'[i] = tickets[i]
    BY CreateEffect
  <1> HIDE DEF u, n
  <1>2. /\ \A i \in Ids : Held'[i] = Held[i]
        /\ \A i \in Ids \cup {n} : Held'[i] \in Nat
        /\ Held'[n] = Bytes(u)
    BY <1>1, HeldTyped, HeldTypedNext
  <1>3. Total(o) \in Nat /\ IsFiniteSet(Of(o)) /\ Of(o) \subseteq Ids
    BY TotalTyped
  <1>4. SumFunctionOnSet(Held', Of(o)) = Total(o)
    BY <1>2, <1>3, SumSame, Zenon DEF Total
  <1>5. CASE OrgOf[q.by] = o
    <2>1. Of(o)' = Of(o) \cup {n}
      BY <1>1, <1>5 DEF Of, Ids, Home
    <2>2. SumFunctionOnSet(Held', Of(o) \cup {n}) = Held'[n] + SumFunctionOnSet(Held', Of(o))
      <3>1. n \notin Of(o)
        BY <1>1, <1>3
      <3> QED
        BY <1>2, <1>3, <3>1, SumAdd
    <2>3. Total(o)' = Held'[n] + Total(o)
      BY <1>4, <2>1, <2>2 DEF Total
    <2>4. Size[q.text] \in Nat /\ ReplySize \in Nat
      <3>1. q.text \in Texts
        BY RequestCases DEF Create
      <3> QED
        BY <3>1, SupportAssumption
    <2>5. Held'[n] = Size[q.text]
      BY <1>1, <1>2, <2>4 DEF Bytes
    <2>6. Total(o) + Size[q.text] <= MaxBytes
      BY <1>5, FitsTotal DEF Create, Room
    <2> QED
      BY <1>3, <2>3, <2>4, <2>5, <2>6
  <1>6. CASE OrgOf[q.by] # o
    <2>1. Of(o)' = Of(o)
      BY <1>1, <1>6 DEF Of, Ids, Home
    <2> QED
      BY <1>4, <2>1 DEF Total
  <1> QED
    BY <1>5, <1>6

\* A ticket that takes another one's place changes what its organisation holds
\* by the difference.
LEMMA ReplacedTotal ==
    ASSUME TypeOK, TypeOK', NEW k \in Ids, NEW u \in TicketSet,
           u.reporter = tickets[k].reporter,
           tickets' = [tickets EXCEPT ![k] = u], NEW o \in Tenants
    PROVE  /\ Home(tickets[k]) = o => Total(o)' + Bytes(tickets[k]) = Total(o) + Bytes(u)
           /\ Home(tickets[k]) # o => Total(o)' = Total(o)
  <1>1. /\ DOMAIN tickets' = Ids /\ tickets'[k] = u
        /\ \A j \in Ids \ {k} : tickets'[j] = tickets[j]
    BY Replaced
  <1>2. Of(o)' = Of(o)
    BY <1>1 DEF Of, Home, Ids
  <1>3. IsFiniteSet(Of(o)) /\ Of(o) \subseteq Ids
    BY TotalTyped
  <1>4. /\ \A i \in Of(o) : Held[i] \in Nat /\ Held'[i] \in Nat
        /\ \A i \in Of(o) \ {k} : Held[i] = Held'[i]
        /\ Held[k] = Bytes(tickets[k]) /\ Held'[k] = Bytes(u)
    BY <1>1, <1>3, HeldTyped, HeldTypedNext
  <1>5. CASE Home(tickets[k]) = o
    <2>1. k \in Of(o)
      BY <1>5 DEF Of
    <2>2. SumFunctionOnSet(Held', Of(o)) + Held[k] = SumFunctionOnSet(Held, Of(o)) + Held'[k]
      BY <1>3, <1>4, <2>1, SumChange
    <2> QED
      BY <1>2, <1>4, <1>5, <2>2 DEF Total
  <1>6. CASE Home(tickets[k]) # o
    <2>1. k \notin Of(o)
      BY <1>6 DEF Of
    <2>2. SumFunctionOnSet(Held, Of(o)) = SumFunctionOnSet(Held', Of(o))
      BY <1>3, <1>4, <2>1, SumSame
    <2> QED
      BY <1>2, <1>6, <2>2 DEF Total
  <1> QED
    BY <1>5, <1>6

LEMMA ReplyTotal ==
    ASSUME TypeOK, TypeOK', NEW c \in Clients, Reply(c), NEW o \in Tenants,
           Total(o) <= MaxBytes
    PROVE  Total(o)' <= MaxBytes
  <1> DEFINE q == call[c]
             t == tickets[q.ticket]
             u == Replied(t, q.by, q.status)
  <1>1. /\ q.ticket \in Ids /\ q.by \in Principals /\ t \in TicketSet
        /\ u \in TicketSet
        /\ u.replies = Append(t.replies, q.by)
        /\ u.reporter = t.reporter /\ u.text = t.text
        /\ tickets' = [tickets EXCEPT ![q.ticket] = u]
    BY ReplyEffect
  <1>2. Fits(Home(t), ReplySize)
    BY DEF Reply
  <1> HIDE DEF u
  <1>3. /\ Home(t) = o => Total(o)' + Bytes(t) = Total(o) + Bytes(u)
        /\ Home(t) # o => Total(o)' = Total(o)
    BY <1>1, ReplacedTotal
  <1>4. Bytes(u) = Bytes(t) + ReplySize /\ Bytes(t) \in Nat /\ ReplySize \in Nat
    <2>1. Len(u.replies) = Len(t.replies) + 1 /\ Len(t.replies) \in Nat
      BY <1>1, TicketParts
    <2>2. Size[t.text] \in Nat /\ ReplySize \in Nat
      BY <1>1, TicketParts, SupportAssumption
    <2>3. ReplySize * (Len(t.replies) + 1) = ReplySize * Len(t.replies) + ReplySize
          /\ ReplySize * Len(t.replies) \in Nat
      BY <2>1, <2>2
    <2>4. Bytes(t) = Size[t.text] + ReplySize * Len(t.replies)
          /\ Bytes(u) = Size[t.text] + ReplySize * (Len(t.replies) + 1)
      BY <1>1, <2>1 DEF Bytes
    <2> DEFINE size == Size[t.text]
               stored == ReplySize * Len(t.replies)
               more == ReplySize * (Len(t.replies) + 1)
    <2>5. /\ size \in Nat /\ stored \in Nat /\ ReplySize \in Nat
          /\ more = stored + ReplySize
          /\ Bytes(t) = size + stored /\ Bytes(u) = size + more
      BY <2>2, <2>3, <2>4
    <2> HIDE DEF size, stored, more
    <2> QED
      BY <2>5
  <1>5. Total(o) \in Nat /\ Total(o)' \in Nat
    BY TotalTyped, TotalTypedNext
  <1>6. Home(t) = o => Total(o) + ReplySize <= MaxBytes
    BY <1>2, FitsTotal
  <1> QED
    BY <1>3, <1>4, <1>5, <1>6

LEMMA AssignTotal ==
    ASSUME TypeOK, TypeOK', NEW c \in Clients, Assign(c), NEW o \in Tenants,
           Total(o) <= MaxBytes
    PROVE  Total(o)' <= MaxBytes
  <1> DEFINE q == call[c]
             t == tickets[q.ticket]
             u == [t EXCEPT !.assigned = q.to]
  <1>1. /\ q.ticket \in Ids /\ t \in TicketSet /\ u \in TicketSet
        /\ u.replies = t.replies /\ u.reporter = t.reporter /\ u.text = t.text
        /\ tickets' = [tickets EXCEPT ![q.ticket] = u]
    BY AssignEffect, Zenon
  <1> HIDE DEF u
  <1>2. /\ Home(t) = o => Total(o)' + Bytes(t) = Total(o) + Bytes(u)
        /\ Home(t) # o => Total(o)' = Total(o)
    BY <1>1, ReplacedTotal
  <1>3. Bytes(u) = Bytes(t) /\ Bytes(t) \in Nat /\ Total(o) \in Nat
    <2>1. Bytes(t) \in Nat
      BY <1>1, HeldTyped
    <2> QED
      BY <1>1, <2>1, TotalTyped DEF Bytes
  <1>4. Total(o)' \in Nat
    BY TotalTypedNext
  <1> QED
    BY <1>2, <1>3, <1>4

\* Every limit `create` and `reply` count against.
LEMMA NextLimits ==
    ASSUME TypeOK, TypeOK', WithinLimits, [Next]_vars
    PROVE  WithinLimits'
  <1>1. CountsWithin'
    BY NextCounts DEF WithinLimits
  <1>2. ASSUME NEW o \in Tenants
        PROVE  Total(o)' <= MaxBytes
    <2>1. Total(o) <= MaxBytes
      <3>1. Total(o) \in Nat
        BY TotalTyped
      <3>2. Total(o) + 0 <= MaxBytes
        BY FitsTotal DEF WithinLimits
      <3> QED
        BY <3>1, <3>2
    <2>2. CASE tickets' = tickets
      BY <2>1, <2>2 DEF Total, Held, Of, Ids, Home
    <2>3. ASSUME NEW c \in Clients, Transaction(c)
          PROVE  Total(o)' <= MaxBytes
      BY <2>1, <2>2, <2>3, CreateTotal, ReplyTotal, AssignTotal DEF Transaction, Duplicate, Read
    <2>4. ASSUME ~\E c \in Clients : Transaction(c)
          PROVE  tickets' = tickets
      BY <2>4 DEF Next, AskCreate, AskRead, AskReply, AskAssign, Ask, GiveUp,
                  Configure, Revoke, vars
    <2> QED
      BY <2>2, <2>3, <2>4
  <1>3. ASSUME NEW o \in Tenants
        PROVE  Fits(o, 0)'
    <2>1. Total(o)' \in Nat
      BY TotalTypedNext
    <2> QED
      BY <1>2, <2>1 DEF Fits, Total
  <1> QED
    BY <1>1, <1>3 DEF WithinLimits

LEMMA InitLimits == Init => WithinLimits
  <1> SUFFICES ASSUME Init PROVE WithinLimits
    OBVIOUS
  <1>1. \A o \in Tenants : Of(o) = {}
    BY DEF Init, Of, Ids
  <1>2. \A o \in Tenants : Total(o) = 0
    BY <1>1, SumEmpty DEF Total
  <1>3. \A o \in Tenants : Fits(o, 0)
    BY <1>2, FitsTotal, SupportAssumption
  <1> QED
    BY <1>3, InitCounts DEF WithinLimits

\* No organisation has more tickets, open tickets or bytes, and no ticket more
\* replies, than the limits, for any number of tickets and any sizes.
THEOREM LimitsHold == Spec => []WithinLimits
  BY InitLimits, NextLimits, TypeCorrect, PTL DEF Spec
=============================================================================
