------------------------------- MODULE Support -------------------------------
(***************************************************************************)
(* Support tickets: distributedai/application/support.py and               *)
(* distributedai/persistence/support.py.                                   *)
(*                                                                         *)
(* A call is checked by the application first, without locks (the Ask      *)
(* actions), and carried out by a transaction of the repository later,     *)
(* which checks again what it needs.  Between the two, people are revoked, *)
(* the queues get other handlers, and other calls come first.  The reads   *)
(* of a check are taken together: the transaction repeats all of them but  *)
(* the route.                                                              *)
(*                                                                         *)
(* A transaction is one step: it locks the organisation of the ticket, or  *)
(* the rows it reads.  Where a configuration does not exist yet there is   *)
(* no row to lock, but a change of it reads no tickets, so the assignment  *)
(* or reply it overtakes still precedes it in a serial order.              *)
(*                                                                         *)
(* Abstractions.  Portals are there or not, texts are members of Texts,    *)
(* a reply has one size.  Encryption is in KeyRing, locks are in Quota.    *)
(***************************************************************************)
EXTENDS Naturals, Sequences, FiniteSets, Functions

CONSTANTS
    Tenants,        \* organisations
    Principals,     \* their people
    OrgOf,          \* the organisation of each
    Admins,         \* organisation administrators
    Defaults,       \* handlers of the solution queue unless configured
    Reporters,      \* who submits tickets (a bound)
    Configurations, \* what each scope is configured to be (a bound)
    Clients,        \* calls under way at the same time
    Calls,          \* what each of them may ask for (a bound)
    Keys, Texts,    \* idempotency keys and what is submitted
    Size,           \* bytes of each text
    ReplySize,      \* bytes of a reply
    MaxOpen, MaxTickets, MaxReplies, MaxBytes,
    None            \* nobody, nothing

Solution == "solution-support"
Scopes == Tenants \cup {Solution}
Configs == [portal : BOOLEAN, team : SUBSET Principals]

ASSUME SupportAssumption ==
    /\ IsFiniteSet(Principals) /\ OrgOf \in [Principals -> Tenants]
    /\ Admins \subseteq Principals /\ Defaults \subseteq Principals
    /\ Configurations \in [Scopes -> SUBSET Configs]
    /\ Size \in [Texts -> Nat] /\ ReplySize \in Nat
    /\ MaxOpen \in Nat /\ MaxTickets \in Nat /\ MaxReplies \in Nat
    /\ MaxBytes \in Nat
    /\ Solution \notin Tenants
    /\ None \notin Principals

VARIABLES
    active,     \* people who are not revoked
    config,     \* config[scope]: portal and handlers, None if never saved
    tickets,    \* in the order of their creation
    call        \* what each client has asked for, or was answered

vars == <<active, config, tickets, call>>

Statuses == {"open", "closed"}
Queues == {"organisation", "solution"}

\* A new ticket.
Ticket(p, queue, key, text) ==
    [reporter |-> p, queue |-> queue, key |-> key, text |-> text,
     status |-> "open", assigned |-> None, replies |-> <<>>]
TicketSet ==
    [reporter : Principals, queue : Queues, key : Keys, text : Texts,
     status : Statuses, assigned : Principals \cup {None},
     replies : Seq(Principals)]

Home(t) == OrgOf[t.reporter]
Ids == DOMAIN tickets

\* Nothing is configured: no portal, and Defaults for the solution queue.
Stored(s) == IF config[s] = None
             THEN [portal |-> FALSE, team |-> IF s = Solution THEN Defaults ELSE {}]
             ELSE config[s]

-----------------------------------------------------------------------------
(* What the application checks.                                            *)

Members(o) == {p \in active : OrgOf[p] = o}

SolutionSupport == Stored(Solution).team \cap active

OrgSupport(o) ==
    LET chosen == Stored(o).team \cap Members(o) IN
    IF chosen = {} THEN Admins \cap Members(o) ELSE chosen

CanHandle(p, t) ==
    IF t.queue = "solution" THEN p \in SolutionSupport
    ELSE OrgOf[p] = Home(t) /\ p \in Admins \cup OrgSupport(Home(t))

Visible(p, t) == p = t.reporter \/ CanHandle(p, t)
Listed(p) == {i \in Ids : Visible(p, tickets[i])}

Queue(p) == IF p \in Admins THEN "solution" ELSE "organisation"
External(p) == Stored(IF p \in Admins THEN Solution ELSE OrgOf[p]).portal

(* What the transactions check.                                            *)

Handler(p, t) ==
    IF t.queue = "solution" THEN p \in Stored(Solution).team
    ELSE OrgOf[p] = Home(t) /\ p \in Admins \cup Stored(Home(t)).team

\* Mutation of Authorized: the application has looked the caller up already.
AuthorizedUnlocked(p, t) == p = t.reporter \/ Handler(p, t)

Authorized(p, t) == p \in active /\ (p = t.reporter \/ Handler(p, t))

Of(o) == {i \in Ids : Home(tickets[i]) = o}
Open(o) == {i \in Of(o) : tickets[i].status = "open"}
Bytes(t) == Size[t.text] + ReplySize * Len(t.replies)
Held == [i \in Ids |-> Bytes(tickets[i])]
Fits(o, n) == SumFunctionOnSet(Held, Of(o)) + n <= MaxBytes

-----------------------------------------------------------------------------
Idle == [op |-> "none"]
Answer(p, i) == [op |-> "answered", by |-> p, ticket |-> i]

Init ==
    /\ active = Principals
    /\ config = [s \in Scopes |-> None]
    /\ tickets = <<>>
    /\ call = [c \in Clients |-> Idle]

Ask(c, request) ==
    /\ call[c] = Idle
    /\ request.op \in Calls[c]
    /\ call' = [call EXCEPT ![c] = request]
    /\ UNCHANGED <<active, config, tickets>>

AskCreate(c, p, key, text) ==
    /\ p \in active
    /\ ~External(p)
    /\ Ask(c, [op |-> "create", by |-> p, key |-> key, text |-> text])

\* support_get and support_ai_context; support_list reads what it lists.
AskRead(c, p, S) ==
    /\ p \in active
    /\ S # {} /\ S \subseteq Listed(p)
    /\ Ask(c, [op |-> "read", by |-> p, left |-> S])

AskReply(c, p, i, status) ==
    /\ p \in active
    /\ Visible(p, tickets[i])
    /\ Ask(c, [op |-> "reply", by |-> p, ticket |-> i, status |-> status])

AskAssign(c, p, i, q) ==
    /\ p \in active
    /\ CanHandle(p, tickets[i])
    /\ q \in active /\ CanHandle(q, tickets[i])
    /\ Ask(c, [op |-> "assign", by |-> p, ticket |-> i, to |-> q])

Asked(c, op) == call[c].op = op
Answers(c, i) == call' = [call EXCEPT ![c] = Answer(call[c].by, i)]

-----------------------------------------------------------------------------
(* The transactions.  What they refuse ends in GiveUp.                     *)

\* Mutation of Prior: a closed ticket is done with.
PriorOpen(p, key) == {i \in Ids : /\ tickets[i].reporter = p /\ tickets[i].key = key
                                  /\ tickets[i].status = "open"}

Prior(p, key) == {i \in Ids : tickets[i].reporter = p /\ tickets[i].key = key}
Same(t, q, queue) == t.text = q.text /\ t.queue = queue

Room(o, n) ==
    /\ Cardinality(Of(o)) < MaxTickets
    /\ Cardinality(Open(o)) < MaxOpen
    /\ Fits(o, n)

Create(c) ==
    LET q == call[c] IN
    /\ Asked(c, "create")
    /\ q.by \in active
    /\ Prior(q.by, q.key) = {}
    /\ Room(OrgOf[q.by], Size[q.text])
    /\ tickets' = Append(tickets, Ticket(q.by, Queue(q.by), q.key, q.text))
    /\ Answers(c, Len(tickets) + 1)
    /\ UNCHANGED <<active, config>>

\* A repeated call is answered with the ticket that exists.
Duplicate(c) ==
    LET q == call[c] IN
    /\ Asked(c, "create")
    /\ q.by \in active
    /\ \E i \in Prior(q.by, q.key) :
          /\ Same(tickets[i], q, Queue(q.by))
          /\ Answers(c, i)
    /\ UNCHANGED <<active, config, tickets>>

Read(c) ==
    LET q == call[c] IN
    /\ Asked(c, "read")
    /\ \E i \in q.left :
          /\ Authorized(q.by, tickets[i])
          /\ call' = [call EXCEPT ![c] =
                        IF q.left = {i} THEN Answer(q.by, i)
                        ELSE [q EXCEPT !.left = @ \ {i}]]
    /\ UNCHANGED <<active, config, tickets>>

\* Mutation of Reopens: only new tickets count against the open ones.
ReopensNot(t, status) == FALSE

Reopens(t, status) == t.status = "closed" /\ status = "open"
\* Mutation of Replied: the status that was not given is stored as well.
RepliedAlways(t, p, status) ==
    [t EXCEPT !.replies = Append(@, p), !.status = status]

Replied(t, p, status) ==
    LET u == [t EXCEPT !.replies = Append(@, p)]
    IN  IF status = None THEN u ELSE [u EXCEPT !.status = status]

Reply(c) ==
    LET q == call[c]
        t == tickets[q.ticket] IN
    /\ Asked(c, "reply")
    /\ Authorized(q.by, t)
    /\ Len(t.replies) < MaxReplies
    /\ Reopens(t, q.status) => Cardinality(Open(Home(t))) < MaxOpen
    /\ Fits(Home(t), ReplySize)
    /\ tickets' = [tickets EXCEPT ![q.ticket] = Replied(t, q.by, q.status)]
    /\ Answers(c, q.ticket)
    /\ UNCHANGED <<active, config>>

MayAssign(p, q, t) == {p, q} \subseteq active /\ Handler(p, t) /\ Handler(q, t)

Assign(c) ==
    LET q == call[c]
        t == tickets[q.ticket] IN
    /\ Asked(c, "assign")
    /\ MayAssign(q.by, q.to, t)
    /\ tickets' = [tickets EXCEPT ![q.ticket] = [t EXCEPT !.assigned = q.to]]
    /\ Answers(c, q.ticket)
    /\ UNCHANGED <<active, config>>

\* support_configure is for an administrator and takes active people of the
\* organisation; the platform administrator answers for the solution queue.
OrgTeam(o, team) == Admins \cap Members(o) # {} /\ team \subseteq Members(o)
SolutionTeam(team) == team \subseteq active

\* The transaction repeats every check of the call, so they are one step.
Configure(s, new) ==
    /\ IF s = Solution THEN SolutionTeam(new.team) ELSE OrgTeam(s, new.team)
    /\ config' = [config EXCEPT ![s] = new]
    /\ UNCHANGED <<active, tickets, call>>

\* An answer is taken note of or lost, a call is refused, or its process stops.
GiveUp(c) ==
    /\ call[c] # Idle
    /\ call' = [call EXCEPT ![c] = Idle]
    /\ UNCHANGED <<active, config, tickets>>

\* principal_revoke leaves an organisation one administrator.
Revoke(p) ==
    /\ p \in active
    /\ p \in Admins => \E q \in Admins \cap Members(OrgOf[p]) : q # p
    /\ active' = active \ {p}
    /\ UNCHANGED <<config, tickets, call>>

Transaction(c) == Create(c) \/ Duplicate(c) \/ Read(c) \/ Reply(c) \/ Assign(c)

Next ==
    \/ \E c \in Clients, p \in Principals :
          \/ \E key \in Keys, text \in Texts :
                p \in Reporters /\ AskCreate(c, p, key, text)
          \/ \E i \in Ids : AskRead(c, p, {i})
          \/ AskRead(c, p, Listed(p))
          \/ \E i \in Ids, status \in Statuses \cup {None} :
                AskReply(c, p, i, status)
          \/ \E i \in Ids, q \in Principals : AskAssign(c, p, i, q)
    \/ \E s \in Scopes : \E new \in Configurations[s] : Configure(s, new)
    \/ \E c \in Clients : Transaction(c) \/ GiveUp(c)
    \/ \E p \in Principals : Revoke(p)

Spec == Init /\ [][Next]_vars

-----------------------------------------------------------------------------
(* Properties.                                                             *)

Requests ==
    {Idle}
    \cup [op : {"create"}, by : Principals, key : Keys, text : Texts]
    \cup [op : {"read"}, by : Principals, left : SUBSET Ids]
    \cup [op : {"reply"}, by : Principals, ticket : Ids,
          status : Statuses \cup {None}]
    \cup [op : {"assign"}, by : Principals, ticket : Ids, to : Principals]
    \cup [op : {"answered"}, by : Principals, ticket : Ids]

\* The variables have their types: a ticket that is asked for exists, and what
\* is stored of it is what the tables of support.py hold.
TypeOK ==
    /\ active \subseteq Principals
    /\ config \in [Scopes -> Configs \cup {None}]
    /\ tickets \in Seq(TicketSet)
    /\ call \in [Clients -> Requests]

\* Whatever calls overlap, and however often tickets are closed and reopened,
\* an organisation has no more tickets, open tickets and bytes, and a ticket
\* no more replies, than the limits `create` and `reply` count against.
CountsWithin ==
    /\ \A o \in Tenants : /\ Cardinality(Of(o)) <= MaxTickets
                          /\ Cardinality(Open(o)) <= MaxOpen
    /\ \A i \in Ids : Len(tickets[i].replies) <= MaxReplies

WithinLimits == CountsWithin /\ \A o \in Tenants : Fits(o, 0)

\* Who changed a ticket or got an answer about it was entitled to, by the rule
\* the application checks, at that very moment - not only when it was checked:
\* neither revoked since nor, unless it is the reporter, taken off the team.
\* Whoever a ticket is assigned to may handle it then, teams consist of active
\* people of the organisation, and an administrator's ticket is never in the
\* organisation's own queue.
MayRead(p, t) == p \in active /\ Visible(p, t)

Entitled(t, u) ==
    /\ u.replies # t.replies => MayRead(u.replies[Len(u.replies)], t)
    /\ u.assigned # t.assigned => u.assigned \in active /\ CanHandle(u.assigned, t)

OnlyEligibleStep ==
    /\ \A i \in Ids : Entitled(tickets[i], tickets'[i])
    /\ \A i \in DOMAIN tickets' \ Ids :
          /\ tickets'[i].reporter \in active
          /\ tickets'[i].queue = Queue(tickets'[i].reporter)
    /\ \A c \in Clients :
          call'[c] # call[c] /\ call'[c].op = "answered" /\ call'[c].ticket \in Ids
             => MayRead(call'[c].by, tickets[call'[c].ticket])
    /\ \A o \in Tenants :
          config'[o] # config[o] => config'[o].team \subseteq Members(o)

OnlyEligible == [][OnlyEligibleStep]_vars

\* A client that repeats a call, because it lost the answer or while the first
\* is still under way, gets the one ticket its key stands for, with the content
\* it submitted; no later step removes a ticket or alters what was submitted.
Submitted(t) == <<t.reporter, t.queue, t.key, t.text>>

SubmittedOnceStep ==
    /\ \A i \in Ids : i \in DOMAIN tickets' /\ Submitted(tickets'[i]) = Submitted(tickets[i])
    /\ \A i \in Ids, j \in DOMAIN tickets' \ Ids :
          \/ tickets'[j].reporter # tickets[i].reporter
          \/ tickets'[j].key # tickets[i].key
    /\ \A c \in Clients : Asked(c, "create") /\ call'[c].op = "answered" =>
          LET q == call[c] IN
          Submitted(tickets'[call'[c].ticket]) = <<q.by, Queue(q.by), q.key, q.text>>

SubmittedOnce == [][SubmittedOnceStep]_vars
=============================================================================
