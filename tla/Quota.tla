------------------------------- MODULE Quota -------------------------------
(***************************************************************************)
(* What a plan limits in one organisation - users, instances, connections  *)
(* and bytes - and the row locks under which calls are admitted and        *)
(* charged: distributedai/persistence/billing.py and the operations of     *)
(* workspace.py that call it, on PostgreSQL.                               *)
(*                                                                         *)
(* A call is a transaction that takes its row locks one by one.  All       *)
(* operations take them in one order (Order); the row of the organisation  *)
(* comes first where `dispatch` locks it, and last, as a key share, where  *)
(* only the rows inserted at the end refer to it - so calls can deadlock.  *)
(* A key share is taken together with the commit: nothing waits between.   *)
(*                                                                         *)
(* Abstractions.  `payload` stands for the bytes of all stored rows, one   *)
(* job and one principal for those two calls can contend for.  `plan` is   *)
(* what `limits_for` answers (Accounts).  Roles, statuses and what else    *)
(* may refuse a call before it is charged are in Memory, Jobs and Access.  *)
(***************************************************************************)
EXTENDS Integers, FiniteSets

CONSTANTS
    Replicas,   \* calls under way at the same time
    Rows,       \* principals, instances and connections: numbers that are in
                \* the order of (created_at, id)
    Kind,       \* what each row is
    OrgAdmin,   \* the row of the organisation's administrator
    Owner,      \* the principal each connection belongs to
    Instance,   \* the instance each connection is bound to
    Plans,      \* configured plans
    Limits,     \* the limits of each plan, None where it has none
    Amounts,    \* bytes of what is stored at a time (a bound)
    MaxPayload, \* nothing is stored or charged from there on (a bound)
    Calls,      \* operations that are called (a bound)
    None        \* no row, no limit

Kinds == {"user", "instance", "connection"}
Connections == {i \in Rows : Kind[i] = "connection"}

ASSUME QuotaAssumption ==
    /\ IsFiniteSet(Replicas)
    /\ Rows \subseteq Nat /\ IsFiniteSet(Rows)
    /\ Kind \in [Rows -> Kinds]
    /\ OrgAdmin \in Rows
    /\ Owner \in [Connections -> {i \in Rows : Kind[i] = "user"}]
    /\ Instance \in [Connections -> {i \in Rows : Kind[i] = "instance"}]
    /\ Limits \in [Plans -> [Kinds \cup {"bytes"} -> Nat \cup {None}]]
    /\ Amounts \subseteq Nat \ {0}
    /\ MaxPayload \in Nat
    /\ None \notin Int \cup Plans

VARIABLES
    plan,       \* the plan in force
    enabled,    \* BILLING_ENABLED of the deployment
    state,      \* rows: "absent", "active" or "revoked"
    payload,    \* bytes of the stored rows, as _storage_size counts them
    used,       \* org_usage.storage_bytes, None without a row
    tx          \* the transaction of each replica

vars == <<plan, enabled, state, payload, used, tx>>

ActiveIn(st, k) == {i \in Rows : Kind[i] = k /\ st[i] = "active"}
Active(k) == ActiveIn(state, k)

\* A limit of NULL limits nothing.
Within(x, limit) == limit # None => x <= limit

-----------------------------------------------------------------------------
(* The transactions and their locks.                                       *)

\* memory_propose, memory_review, message_send and job_create; job_submit.
Charging == {"write", "submit"}

\* scope_delete with its contents and memory_delete; recalculate_storage.
Deleting == {"purge", "forget"}
Recounting == Deleting \cup {"recalculate"}

\* job_claim, job_renew, job_review and job_cancel are "work"; personal_scope,
\* scope_merge and the tickets of persistence/support.py have their own name.
Operations == Charging \cup Recounting \cup
              {"admit", "work", "personal", "merge", "ticket"}

Locks == {"org", "job", "principal", "usage", "share"}
Order == <<"org", "job", "principal", "usage", "share">>
Earlier == [l \in Locks |-> {m \in Locks : \E i, j \in 1 .. 5 :
                               i < j /\ m = Order[i] /\ l = Order[j]}]

\* Without billing there is nothing to check or charge, and deletions do not
\* recount.
Needs == [op \in Operations \cup {"none"} |-> [metered \in BOOLEAN |->
    {l \in Locks :
        \/ l = "org" /\ op \in {"write", "forget", "purge", "merge", "ticket"}
        \/ l = "job" /\ op \in {"purge", "merge", "submit", "work"}
        \/ l = "principal" /\ op \in {"ticket", "personal"}
        \/ l = "usage" /\ op \in Charging \cup Deleting \cup {"admit"} /\ metered
        \/ l = "usage" /\ op = "recalculate"
        \/ l = "share" /\ op \in {"submit", "work", "admit", "personal"}}]]

\* `n` bytes are stored or deleted, or `row` is inserted; `seen` is the count
\* made for a new usage row, `next` the counter to be committed, `plan` the
\* plan that was read under the lock.
Begun(op, n, row) == [op |-> op, held |-> {}, n |-> n, row |-> row,
                      seen |-> None, next |-> None, plan |-> None]
Idle == Begun("none", 0, None)

Missing(r) == Needs[tx[r].op][enabled] \ tx[r].held
Waits(r, l) == l \in Missing(r) /\ Missing(r) \cap Earlier[l] = {}

\* A key share waits for whoever holds the row of the organisation.
Row(l) == IF l = "share" THEN "org" ELSE l
Blocks(q, r) == q # r /\ \E l \in Locks : Waits(r, l) /\ Row(l) \in tx[q].held
Blocked(r) == \E q \in Replicas : Blocks(q, r)

\* A cycle of transactions that wait for one another.
Deadlocked(r) ==
    \E S \in SUBSET Replicas :
        /\ r \in S
        /\ \A s \in S : (\E q \in S : Blocks(q, s)) /\ (\E q \in S : Blocks(s, q))

Init ==
    /\ plan \in Plans
    /\ enabled \in BOOLEAN
    /\ state = [i \in Rows |-> IF i = OrgAdmin THEN "active" ELSE "absent"]
    /\ payload \in {0, MaxPayload}
    /\ used = None
    /\ tx = [r \in Replicas |-> Idle]

Start(r, op, n, row) ==
    /\ tx[r] = Idle
    /\ op \in Calls
    /\ tx' = [tx EXCEPT ![r] = Begun(op, n, row)]
    /\ UNCHANGED <<plan, enabled, state, payload, used>>

Write(r, op, n) ==
    /\ payload < MaxPayload
    /\ used # None => used < MaxPayload
    /\ Start(r, op, n, None)

\* Rows are new: nobody else inserts the same.
Admit(r, i) ==
    /\ state[i] = "absent"
    /\ \A q \in Replicas : tx[q].row # i
    /\ Start(r, "admit", 0, i)

PrincipalCreate(r, i) == Kind[i] = "user" /\ Admit(r, i)

InstanceCreate(r, i) == Kind[i] = "instance" /\ Admit(r, i)

\* The owner and the instance are looked at, unlocked, before the admission.
ConnectionIssue(r, i) ==
    /\ Kind[i] = "connection"
    /\ state[Owner[i]] = "active" /\ state[Instance[i]] = "active"
    /\ Admit(r, i)

Call(r, op) ==
    /\ op \notin Charging \cup {"admit"}
    /\ Start(r, op, 0, None)

\* What is deleted is known with the last lock before the usage row.
Deletes(op, l) == <<op, l>> \in {<<"forget", "org">>, <<"purge", "job">>}

\* Mutation of TakeLock: the row is read without FOR UPDATE.
TakeLockAnyway(r, l, n) ==
    /\ l \in {"org", "job", "principal"}
    /\ Waits(r, l)
    /\ n \in IF Deletes(tx[r].op, l) THEN 0 .. payload ELSE {tx[r].n}
    /\ tx' = [tx EXCEPT ![r].held = @ \cup {l}, ![r].n = n]
    /\ UNCHANGED <<plan, enabled, state, payload, used>>

TakeLock(r, l, n) ==
    /\ l \in {"org", "job", "principal"}
    /\ Waits(r, l)
    /\ ~Blocked(r)
    /\ n \in IF Deletes(tx[r].op, l) THEN 0 .. payload ELSE {tx[r].n}
    /\ tx' = [tx EXCEPT ![r].held = @ \cup {l}, ![r].n = n]
    /\ UNCHANGED <<plan, enabled, state, payload, used>>

\* `_storage_size` in the transaction of r, which sees its own deletions.
StorageSize(r) == payload - IF tx[r].op \in Deleting THEN tx[r].n ELSE 0

\* `_lock_usage` finds no row and counts what there is for a new one.
Measure(r) ==
    /\ Waits(r, "usage")
    /\ used = None /\ tx[r].seen = None
    /\ tx' = [tx EXCEPT ![r].seen = StorageSize(r)]
    /\ UNCHANGED <<plan, enabled, state, payload, used>>

\* Mutation of UsageFree: the row is read without FOR UPDATE.
UsageAtHand(r) == Waits(r, "usage") /\ (used # None \/ tx[r].seen # None)

\* The insertion of the row waits for one that is not committed, as the lock
\* does for one that is; it fails when another row was committed meanwhile,
\* and that one is locked.
UsageFree(r) ==
    /\ Waits(r, "usage")
    /\ used # None \/ tx[r].seen # None
    /\ ~Blocked(r)

\* Mutation of Counter: what is deleted is taken off, or put on, the counter
\* that is there.
CounterOf(r) == (IF used # None THEN used ELSE tx[r].seen) + tx[r].n

\* charge_storage adds, recompute_usage counts again, the checks leave it.
Counter(r) ==
    IF tx[r].op \in Recounting THEN StorageSize(r)
    ELSE (IF used # None THEN used ELSE tx[r].seen) + tx[r].n

\* Mutation of Fits: one too many.
FitsBarely(r) ==
    LET limit(k) == Limits[plan][k]
    IN  /\ tx[r].op \in Charging => Within(Counter(r), limit("bytes"))
        /\ tx[r].op = "admit" =>
              Within(Cardinality(Active(Kind[tx[r].row])), limit(Kind[tx[r].row]))

\* Mutation of Fits: what is stored already is compared, not what will be.
FitsBefore(r) ==
    LET limit(k) == Limits[plan][k]
    IN  /\ tx[r].op \in Charging => Within(Counter(r) - tx[r].n, limit("bytes"))
        /\ tx[r].op = "admit" =>
              Within(Cardinality(Active(Kind[tx[r].row])) + 1, limit(Kind[tx[r].row]))

\* The checks and charge_storage, under the lock on the usage row.
Fits(r) ==
    LET limit(k) == Limits[plan][k]
    IN  /\ tx[r].op \in Charging => Within(Counter(r), limit("bytes"))
        /\ tx[r].op = "admit" =>
              Within(Cardinality(Active(Kind[tx[r].row])) + 1, limit(Kind[tx[r].row]))

LockUsage(r) ==
    /\ UsageFree(r)
    /\ Fits(r)
    /\ tx' = [tx EXCEPT ![r].held = @ \cup {"usage"},
                        ![r].next = Counter(r), ![r].plan = plan]
    /\ UNCHANGED <<plan, enabled, state, payload, used>>

\* Mutation of RollBack: the error is answered and the session kept open.
RollBackLater(r) ==
    /\ tx' = [tx EXCEPT ![r] = [Idle EXCEPT !.held = tx[r].held]]
    /\ UNCHANGED <<plan, enabled, state, payload, used>>

\* The end of a transaction that is rolled back: its locks and a usage row it
\* inserted are gone.
RollBack(r) ==
    /\ tx' = [tx EXCEPT ![r] = Idle]
    /\ UNCHANGED <<plan, enabled, state, payload, used>>

\* quota_exceeded
Refuse(r) == UsageFree(r) /\ ~Fits(r) /\ RollBack(r)

\* PostgreSQL ends a deadlock (40P01), which dispatch reports as a conflict.
Conflict(r) == Deadlocked(r) /\ RollBack(r)

\* The replica stops, or its connection breaks, before the commit.
Crash(r) == tx[r] # Idle /\ RollBack(r)

Commit(r) ==
    /\ tx[r].op # "none"
    /\ Missing(r) \subseteq {"share"}
    /\ ~Blocked(r)
    /\ state' = IF tx[r].op = "admit"
                THEN [state EXCEPT ![tx[r].row] = "active"] ELSE state
    /\ payload' = payload + (IF tx[r].op \in Charging THEN tx[r].n
                             ELSE IF tx[r].op \in Deleting THEN -tx[r].n ELSE 0)
    /\ used' = IF "usage" \in tx[r].held THEN tx[r].next ELSE used
    /\ tx' = [tx EXCEPT ![r] = Idle]
    /\ UNCHANGED <<plan, enabled>>

\* The audit row refers to the organisation.  Nothing revokes an instance.
Revoke(i) ==
    /\ state[i] = "active"
    /\ \A r \in Replicas : "org" \notin tx[r].held
    /\ state' = [state EXCEPT ![i] = "revoked"]
    /\ UNCHANGED <<plan, enabled, payload, used, tx>>

\* The last administrator stays.
PrincipalRevoke(i) == Kind[i] = "user" /\ i # OrgAdmin /\ Revoke(i)

ConnectionRevoke(i) == Kind[i] = "connection" /\ Revoke(i)

\* An event of the provider or the operator changes the account.
ChangePlan ==
    /\ plan' \in Plans \ {plan}
    /\ UNCHANGED <<enabled, state, payload, used, tx>>

\* The service is stopped and started with the other BILLING_ENABLED.
Redeploy ==
    /\ \A r \in Replicas : tx[r] = Idle
    /\ enabled' = ~enabled
    /\ UNCHANGED <<plan, state, payload, used, tx>>

Proceed(r) ==
    \/ \E l \in Locks, n \in 0 .. payload \cup {tx[r].n} : TakeLock(r, l, n)
    \/ Measure(r)
    \/ LockUsage(r)
    \/ Refuse(r)
    \/ Commit(r)

Next ==
    \/ \E r \in Replicas :
        \/ \E op \in Charging, n \in Amounts : Write(r, op, n)
        \/ \E i \in Rows : PrincipalCreate(r, i)
        \/ \E i \in Rows : InstanceCreate(r, i)
        \/ \E i \in Rows : ConnectionIssue(r, i)
        \/ \E op \in Operations : Call(r, op)
        \/ Proceed(r)
        \/ Conflict(r)
        \/ Crash(r)
    \/ \E i \in Rows : PrincipalRevoke(i)
    \/ \E i \in Rows : ConnectionRevoke(i)
    \/ ChangePlan
    \/ Redeploy

Spec == Init /\ [][Next]_vars

\* PostgreSQL serves those who wait for a row in turn and detects deadlocks;
\* nobody has to call, and no replica has to stop.
FairSpec ==
    /\ Spec
    /\ \A r \in Replicas : SF_vars(Proceed(r)) /\ WF_vars(Conflict(r))

-----------------------------------------------------------------------------
(* Connections that authenticate.                                          *)

\* Among the oldest active rows of its kind that the plan has room for.
Eligible(i) ==
    LET limit == Limits[plan][Kind[i]]
    IN  limit = None \/ Cardinality({j \in Active(Kind[i]) : j < i}) < limit

\* `resolve_connection`.
Resolves(c) ==
    /\ \A i \in {c, Owner[c], Instance[c]} :
          state[i] = "active" /\ (enabled => Eligible(i))

-----------------------------------------------------------------------------
(* Properties.                                                             *)

\* Every variable stays in its range, and no lock is held twice.
TypeOK ==
    /\ plan \in Plans /\ enabled \in BOOLEAN
    /\ state \in [Rows -> {"absent", "active", "revoked"}]
    /\ payload \in Nat /\ used \in Nat \cup {None}
    /\ tx \in [Replicas ->
          [op : Operations \cup {"none"}, held : SUBSET Locks, n : Nat,
           row : Rows \cup {None}, seen : Nat \cup {None},
           next : Nat \cup {None}, plan : Plans \cup {None}]]
    /\ \A q, r \in Replicas : q # r => tx[q].held \cap tx[r].held = {}

Admitted(r) == tx[r].op = "admit" /\ state[tx[r].row] = "absent"
               /\ state'[tx[r].row] = "active"

\* Replicas that admit users, instances and connections at the same time do
\* not share the last free place: whatever is admitted while billing is
\* enabled fits, together with all that is active by then, the plan that was
\* in force when the check was made (check_user_quota and the two like it).
NoOverAdmissionStep ==
    \A r \in Replicas : enabled /\ Admitted(r) =>
        Within(Cardinality(ActiveIn(state', Kind[tx[r].row])),
               Limits[tx[r].plan][Kind[tx[r].row]])
NoOverAdmission == [][NoOverAdmissionStep]_vars

\* While billing is enabled the counter follows what is stored: there is a
\* usage row as soon as something was stored or deleted, and a commit leaves
\* it exact or, after it was deployed without billing, no further off
\* (_lock_usage, charge_storage, recompute_usage).
CounterFollowsStep ==
    enabled =>
        /\ payload' # payload => used' # None
        /\ used' # None =>
              \/ used' = payload'
              \/ used # None /\ used' - payload' = used - payload
CounterFollows == [][CounterFollowsStep]_vars

\* Writes of several replicas at the same time do not exceed the storage of
\* the plan: where the counter is exact, what is stored after a charge is
\* within the plan that was read under the lock (charge_storage).
StorageWithinPlanStep ==
    \A r \in Replicas :
        /\ enabled /\ used \in {None, payload}
        /\ tx[r].op \in Charging /\ payload' > payload /\ tx'[r] = Idle
        => Within(payload', Limits[tx[r].plan]["bytes"])
StorageWithinPlan == [][StorageWithinPlanStep]_vars

\* While the plan stays what it is, nobody loses access by what others do: a
\* connection that resolves goes on resolving until it, or the user it
\* belongs to, is revoked - unless a call is committed that was admitted
\* under the plan before (resolve_connection).
NobodyDisplacedStep ==
    plan' = plan /\ enabled' = enabled
    /\ (\A r \in Replicas : Admitted(r) => tx[r].plan = plan) =>
        \A c \in Connections : Resolves(c) =>
            \/ Resolves(c)'
            \/ \E i \in {c, Owner[c]} : state'[i] = "revoked"
NobodyDisplaced == [][NobodyDisplacedStep]_vars

\* The lock order leaves one way to deadlock.  Among transactions that wait for
\* one another in a circle, whatever their operations, one has inserted rows
\* and wants the key share on the organisation, and another holds that row
\* and waits for what the first one has locked before.
Circle(S) == S # {} /\ \A s \in S : \E q \in S : Blocks(q, s)

OnlySharesDeadlock ==
    \A S \in SUBSET Replicas : Circle(S) =>
        \E s, q \in S : Waits(s, "share") /\ "org" \in tx[q].held

\* The next lock that r needs, or its commit, is to be had.
Ready(r) ==
    /\ tx[r].op # "none" /\ ~Blocked(r)
    /\ Missing(r) \subseteq {"share"} \/ \E l \in Locks \ {"share"} : Waits(r, l)

\* Calls never wait for one another with nobody to go on: while any is under
\* way, one of them can proceed or is in a deadlock that PostgreSQL ends.
SomebodyMoves ==
    (\E r \in Replicas : tx[r].op # "none") =>
        \E r \in Replicas : Ready(r) \/ Deadlocked(r)

\* The plan that was read by the transaction with the usage row.
Offer ==
    LET charging == {r \in Replicas : "usage" \in tx[r].held}
    IN  IF charging = {} THEN None ELSE tx[CHOOSE r \in charging : TRUE].plan

\* Transactions are atomic: what racing replicas do to users, instances,
\* connections and bytes, with checks, charges and commits lock by lock, could
\* as well be done by one call at a time (Allowance).
Atomic == INSTANCE Allowance WITH offer <- Offer
ImplementsAllowance == Atomic!Spec

\* Every call returns, whatever it has to wait for: calls that take the row
\* of the organisation first deadlock with those that refer to it last, and
\* end as conflicts (dispatch).
CallsReturn == \A r \in Replicas : tx[r].op # "none" ~> tx[r].op = "none"
=============================================================================
