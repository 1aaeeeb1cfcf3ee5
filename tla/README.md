# A verification project for DistributedAI

DistributedAI is a multi-tenant service where people and agents of an
organisation share reviewed memory, leased jobs and messages. This directory
holds TLA+ models of its core, translated from the source under
`src/distributedai/`, the TLC configurations that check them on small instances,
and proofs, checked by TLAPS, of what matters most for instances of any size.

The source is layered: `presentation/` (HTTP and MCP adapters), `application/`
(use cases over ports), `persistence/` (SQLAlchemy; PostgreSQL is the deployment
authority, SQLite serves tests), and `composition.py`/`runtime.py` that wire them.
All state that survives a request is in the database. Every operation of the
workspace is one transaction of `Store.dispatch`, so concurrency is
between transactions of several replicas, between the two transactions of a
use case that talks to the payment provider in between, and between clocks.

## Inventory

| Component | State | Operations | What is hard | What makes it correct |
|---|---|---|---|---|
| Reviewed memory (`workspace.py`) | `memory_records`, `memory_versions`, `memory_proposals`, `memory_locks` | propose, review, search, history, delete; scope deletion and merging | proposals against the same version; deletion restarts version numbers; merges rewrite four tables | history complete and append-only; independent reviewer; no lost update; a verdict is final |
| Jobs (`workspace.py`) | `jobs`: status, assignee, claim token, lease, attempts | create, claim, renew, submit, review, cancel | expired leases, late and repeated calls, replicas whose clocks differ, roles that change meanwhile | only the latest claim delivers; terminal is terminal; the assignee never judges itself; idempotent creation; jobs settle |
| Accounts and checkout (`persistence/billing.py`, `checkout.py`, `application/billing.py`) | `billing_accounts`, `billing_events`, `billing_checkouts` | process_event, register_subscription, assign_plan, reserve, set_session, apply_event, complete | webhooks late, repeated, out of order, with dates of whole seconds; a retrieval before the transaction that uses it; lost provider replies | a paid plan is somebody's decision; older never undoes newer; an event counts once; one subscription, one organisation; one session |
| Scopes, grants, policies (`workspace.py`) | the scope tree, grants, ownerships, permission rows | scope_create/move/merge/delete, grant, grant_revoke, owner_set, policy_set | restrictions that must survive moves and merges; cycles; inherited roles | a withheld permission stays withheld; the tree stays a tree |
| Principals | principals, token hashes, bootstrap row | create, revoke, bootstrap, authenticate, suspension | revocation racing operations under way (docs/ARCHITECTURE.md:21 allows those to finish) | a revoked identity starts nothing |
| Messages | `messages` | send, inbox | the inbox filters a window of the newest rows | no readable mail is lost behind unreadable mail |
| Quotas, instances, connections (`persistence/billing.py`) | `org_usage`, `logical_instances`, `connections` | issue, revoke, charge_storage, recompute_usage, limits_for, resolve_connection | replicas admitting against one limit; a usage row that is created on first use; billing switched off and on; eligibility among the oldest rows | limits hold; the counter follows what is stored; nobody loses access by what others do |
| Transaction plumbing (`dispatch`) | row locks | the order of locks in each operation, the key share an insertion takes | deadlocks between operations that lock the organisation first and those that refer to it last | a conflict, never a wait for ever, and no lock that is left behind |
| Tenant encryption (`encryption.py`, `storage_encryption.py`) | key ring, wrapped keys, the key an operation looked up | provision, rotate, flush, commit, migrate_existing | provisioning and rotation by racing replicas; keys kept by operations; a conversion that stops half way | rows open, and mean what was written, whatever happens to keys; a rotation takes effect |
| Browser sessions (`sessions.py`, `session_crypto.py`) | revocation ledger | revoke, is_revoked, decrypt | life time of the ledger entry against that of the cookie | a session that was logged out stays out |
| Request limits (`presentation/mcp.py`) | in-memory windows per key | call, eviction | the table at its limit | a key that is limited stays limited for its window |
| Support tickets (`application/support.py`, `persistence/support.py`) | tickets, replies, configuration of the queues | create, list, get, reply, assign, configure | a check by the application and a transaction of the repository, with rules of their own; retries; counted limits and reopening | nobody acts on an entitlement that is gone; a retry files nothing twice; limits hold |
| Platform administration | suspension, plans | assign_plan, set_suspended | wrappers around authenticate and dispatch | a suspended organisation does nothing |
| Adapters, OIDC, scanner, scripts, console, infrastructure | none that other parts share | parse, validate, render, deploy | (pure computation or I/O) | |

How they interact: the adapters authenticate a caller and call `dispatch`;
`dispatch` opens the transaction, takes the organisation's row lock for most
operations that change memory or structure, runs the operation and writes the
audit row. Memory, jobs and messages ask `_role_for` for roles, and call into
`BillingEngine` (`charge_storage`, `check_*_quota`) within the same transaction.
Scope deletion and merging reach into the tables of memory, jobs and messages.
Every row with content is encrypted on flush under a key of its organisation.
Support tickets have transactions of their own, which lock the organisation and
the actor's row. The provider's webhooks come in through `application/billing.py`, which calls
the provider back for a completed checkout before it opens its transaction.

## Modules

| Module | Models | Checked by | Proved in |
|---|---|---|---|
| `Roles` | the order of roles and `_require_role` | (part of the ones below) | |
| `Organisation` | scopes, roles and deletion rights as memory and job operations see them | `memory`, `jobs` | `AccessProofs` (stands for `Access`) |
| `Memory` | the memory operations | `memory`, `memory_reuse` | `MemoryProofs` |
| `VersionedStore` | abstract: a log of accepted entries per place | refined by `Memory` in `memory` | `MemoryProofs` |
| `Jobs` | the job operations | `jobs`, `jobs_merge` | `JobsProofs` |
| `Accounts` | one row of `billing_accounts`: what each operation makes of it | (part of `Billing`) | `BillingProofs` |
| `Billing` | accounts, the event ledger, checkouts and the provider | `billing`, `checkout`, `checkout_lapsed`, `checkout_stale` | `BillingProofs` |
| `Access` | the scope tree, grants, owners, policies, personal scopes, exports and backups | `access` | `AccessProofs` |
| `Quota` | admission, charges and deletions of racing replicas, lock by lock | `quota` | `QuotaProofs` |
| `Allowance` | abstract: admissions, charges and deletions under a plan, one at a time | refined by `Quota` in `quota` | `QuotaProofs` |
| `Support` | support tickets: checks, transactions, retries, teams | `support` | `SupportProofs` |
| `KeyRing` | tenant keys, the rows encrypted under them, rotation and conversion | `keyring` | `KeyRingProofs` |
| `TextStore` | abstract: rows with texts, operations that commit as a whole, no keys | refined by `KeyRing` in `keyring` | `KeyRingProofs` |
| `SetTheorems` | lemmas: least subsets, and the sum of a function over a finite set | | `SetTheorems` |
| `MCMemory`, `MCJobs`, `MCBilling`, `MCAccess`, `MCQuota`, `MCSupport`, `MCKeyRing` | constants of the instances | | |

### Organisation and Roles

The grants, ownerships and ancestor chains behind a role are abstracted to the
role they amount to: `granted[p][s]`, which `ChangeRole` turns into any other at
any time. That is what memory and job operations can see of the tree, and it is
more than the tree can do at once. Personal scopes belong to their owner and the
organisation's administrator is admin everywhere else, as `_role_for` has it.
Whether a policy withholds `can_delete` is the constant `Deletable`. `live` is
the set of scopes that exist; scopes are only deleted or merged away here, since
a new one has a new identifier and no rows. `Access` models what is left out here,
and `Seen`, in that module, is the mapping: the role that `RoleOf` of the tree gives
is `granted`, and the owner of a personal scope is its principal. `OrganisationFollows`
says what `Access` does in terms of the actions of `Memory` and `Jobs`: when a scope
goes, the very actor in the audit row passes `MayDeleteScope` or `MayMergeScopes` with
the role the tree gives at that moment; one scope goes at a time; a deletion
changes nobody's role on any other scope, as in `ScopeDelete` of both modules; and
roles change only where `Regrant` may change them, which excludes personal scopes and
the organisation's administrator. One grant, move or merge of the tree is then several
`Regrant` steps, since it changes the roles on everything beneath a scope.

### Access

`parent`, `live` and `owner` are the columns of `scopes` and `scope_ownerships`,
`granted` is `grants`, `withheld` is `scope_permissions` (the flags that are false;
a row of which no flag is false says nothing), `status` is `principals`. What a
scope identifier stands for - its kind, its name, whose personal scope it is - is
fixed in advance by constants, and an identifier may be used again after its scope
is gone, for no row of it is left (part of `TypeOK`).

- `Chain`, `RoleOf`, `Withheld` are `_scope_chain`, `_role_for` and
  `_permission_flags`: the chain is the least set with the scope that contains the
  parents of its members, so that it is defined for a tree that went wrong too;
  `Walkable` is the bound of the walk, beyond which the code reports an error.
- `ScopeCreate`, `ScopeMove`, `ScopeDelete`, `ScopeMerge`, `OwnerSet`, `PolicySet`,
  `GrantRole`, `GrantRevoke`, `PrincipalCreate`, `PrincipalRevoke`, `PersonalScope`,
  `PrincipalList` are the operations of `dispatch` by these names. `Retain` is
  `_retain_scope_restrictions`, `Forget` is `_delete_empty_scope`,
  `EnsurePersonal` is `_ensure_personal`.
- `MemoryExport`, `ScopeBackup` and `OrganisationBackup` are the exports: who may take
  one depends on roles and on what policies withhold (`MayExport`), and all they
  change is the audit log (`Report`).
- `audit` is the newest row of the audit log: who did what. The action properties
  read it in the step that writes it; nothing else does.

Only the principal that `_create_org` makes is an organisation admin, and no
operation makes another: the checks for the final admin become `p # OrgAdmin`.
What a scope contains can keep it from being deleted or merged; that refusal
belongs to `Memory` and `Jobs`, and leaving it out here only adds behaviours.

### Memory

A row of each table becomes an entry of a variable: `record` is
`memory_records`, `versions` is `memory_versions`, `proposal` is
`memory_proposals`. A content is identified with the proposal that carried it.
`memory_locks` rows only serialise, and the organisation's row lock already
does: every operation that changes memory takes it first, so each is one step.

- `Search` stands for `memory_search`, `Propose` for `memory_propose` with the
  version the proposer last saw; the scanner's verdict is nondeterministic.
- `Reject`, `Conflict` and `Accept` are the outcomes of `memory_review`, with
  `Reviewable` as its common guards.
- `MemoryDelete`, `ScopeDelete`, `ScopeMerge` are `memory_delete`,
  `scope_delete` and `scope_merge`, on every memory table at once.
- `seen`, and the field `basis` of a proposal, are history: what its proposer had
  read, which is what "no lost update" is about.

`Memory` implements `VersionedStore`: the log of a slot is the sequence of the
proposals its history names, an entry is spent once its proposal has a verdict.
An accepted review is a write, a merge relocates logs, a deletion forgets them,
everything else stutters.

### Jobs

A row of `jobs` is a record; the token of a claim is the number of that claim,
`held` is the set of tokens that reached the assignee's processes, which may
present any of them at any time. A reply that is lost is a claim whose token is
not `delivered`. Each operation runs on a replica whose clock is `offset` ahead
of true time; a deadline is stored as the time left until it, so that `Tick`
makes a finite system. The field `term` is history: the true time left of the
lease that was last granted. `Claim`, `Renew`, `Submit`, `Review`, `Cancel`,
`Create` are the operations; `Expired`, `Fenced`, `Judge` their shared checks.

### Accounts and Billing

`Accounts` has the pure part: `NoteOf` and `AfterEvent` are `process_event`'s
branches in their order, `Bound` is `register_subscription`, `Assigned` is
`assign_plan`, `PlanInForce` is `limits_for`. `Billing` puts it into
transactions: `Apply` and `Ignore` are `apply_event`, `Ask`, `Reserve`,
`OpenSession` and `LoseRequest` are the steps of `_create_checkout` with the
provider's reply stored or lost, `Retrieve` and `Complete` the two halves of
`complete_checkout`, `Abandon` every way for the second half not to happen.
`Sellable` is the check that a price is configured and unambiguous, `Found` that an
event's checkout is the one on record.
The provider (`Change`, `Pay`, `Tick`) is external: it changes the state of a
subscription and announces it in an event, and since an event stays where it is,
every delivery late, repeated, reordered or lost is covered. `byOperator` and
`asOf` are history: who decided the plan in force and how fresh the decision's
facts were.

### Quota

Here, and only here, a transaction is not one step: it takes its row locks one by
one. `Needs` says which locks an operation takes, `Order` in which order -
organisation, job, principal, usage row, and last the key share on the
organisation that PostgreSQL takes when an inserted row refers to it. `Waits`,
`Blocked` and `Deadlocked` are the lock manager; a key share is taken together with
the commit, since nothing waits in between.

- `Write`, `PrincipalCreate`, `InstanceCreate`, `ConnectionIssue` and `Call` begin a
  transaction, `TakeLock` takes one lock.
- `Measure` and `LockUsage` are `_lock_usage` with the check that follows: a usage row
  that does not exist is created from a count, which another replica may do first.
- `Counter` and `Fits` are `charge_storage`, `recompute_usage` and the three
  `check_*_quota`; `Refuse` is `quota_exceeded`, `Commit` the commit.
- `Conflict` is PostgreSQL ending a deadlock, `Crash` a replica that stops.
- `ChangePlan` is what `Accounts` and the operator do to `limits_for`, `Redeploy`
  switches `BILLING_ENABLED`, with no call under way.
- `Resolves` is `resolve_connection`, with the window of the oldest active rows.

Rows are numbers in the order of `(created_at, id)`; the bytes of all rows are one
number, `payload`; what is deleted is any part of it. The fields `plan` and `next` of
a transaction are what it read and will write.

`Quota` implements `Allowance`, where an admission, a charge, a deletion or a recount is
one step, and exact at that step. The variables are the same but for the transactions;
of these only `offer` is left, the plan read by the one that has the usage row, since
the plan may change between reading it and the commit. A commit is the step;
`LockUsage` reads a plan (`Look`), a roll-back or a crash forgets it (`Drop`), all
other steps of a transaction stutter. `OnlySharesDeadlock` says where deadlocks come
from: in every circle of waiting calls (`Circle`) somebody wants the key share of an
organisation row that somebody else has locked. `SomebodyMoves` says that while any call
is under way, one can take its next lock or commit (`Ready`), or is in a deadlock that
`Conflict` ends.

### Support

A call is two steps. The `Ask` actions are the checks of `SupportApplication.dispatch`,
which take no lock; `Create`, `Duplicate`, `Read`, `Reply` and `Assign` are the
transactions of `SQLSupportRepository`, which check again by a rule of their own
(`Authorized`, against `Visible` and `CanHandle` of the application). Between the two,
`Revoke`, `Configure` and the calls of others come in. What a transaction refuses, an
answer that is lost and a process that stops are all `GiveUp`. A listing reads its
tickets one by one, as the code does. A transaction is one step because it locks
the organisation (`create`, `reply`) or the rows it decides on. `Configure` is one
step with its check: its transaction repeats every check of the application.

### KeyRing

`ring` and `keys` are `tenant_keyrings` and `tenant_key_versions`, `rows` are the
encrypted rows with the version and the key they were encrypted under, `call` is an
operation under way with the key it looked up (the request's key cache) and the
rows it has flushed.

- `Dispatch` and `AskRotate` begin a call, which provisions the key ring first where
  there is none (`Provision`, with the unique constraint in `Insert`).
- `Write` is `_before_flush` on a row, plain or encrypted; `Commit` and `GiveUp` end it.
- `Rotate` is `CryptoBox.rotate` under the lock on the key ring.
- `Stop`, `Prepare`, `Convert` and `Start` are the offline conversion; a start without
  a conversion is possible, and plain rows then do not open.
- `since` is history: the active version when the call began.

`KeyRing` implements `TextStore`: the text of a row is the text that was encrypted,
unless its key is not the stored one of its version, in which case it is `Lost`, which
`TextStore` has no step for. Provisioning, rotation and conversion are stutters.

## Runs and bounds

| Run | Instance | Shows |
|---|---|---|
| `memory` | an administrator and a member, two departments and a personal scope, one key, three proposals | type correctness, `HistoryComplete`, `Provenance`, `NoLostUpdate`, `DecisionsFinal` with the entitlement of the reviewer, and that `Memory` implements `VersionedStore` |
| `memory_reuse` | the same | finding: `NeverOverwritesUnseen` is violated (below) |
| `jobs` | an administrator and two members, a department and a personal scope, one job with three attempts, lease lengths 1 and 2, clocks 0 and 1 ahead | type correctness, `ResultFromLatestClaim`, `IndependentVerdict`, `OutcomeFinal`, `LeaseHonoured`, and under fairness `EventuallySettled` |
| `jobs_merge` | two departments, two jobs, two idempotency keys | `OneJobPerKey` across merges |
| `billing` | one organisation, two subscriptions the operator may bind, three events, two prices of which one is unknown, two seconds | `PaidByDecision`, `OlderNeverUndoes`, `EventsCountOnce` |
| `checkout` | two organisations, two subscriptions of which one is also bound by hand, two events, two requests at a time, two seconds | type correctness, `OneOrgEach`, `CompletionIsWhole`, `OneSession`, and `EventsCountOnce` for completions among other events |
| `access` | an administrator and a user from before personal scopes, two departments, a project that bears the name of one of them, two personal scopes, one grant and one policy at a time, chains of three scopes walked | type correctness, `TreeOK`, `PersonalApart`, `PersonalForAll`, `RestrictionsSurvive`, `RolesRiseFromAbove`, `MergeOpensOnlyMoved` |
| `quota` | two replicas, an administrator, a user, an instance and two connections, one of each person; a plan with room for one of each kind and one byte, another with room for two and no limit in bytes; `job_submit`, admissions and `scope_delete` | type correctness with mutual exclusion, `NoOverAdmission`, `CounterFollows`, `NobodyDisplaced`, that `Quota` implements `Allowance`, and under fairness `CallsReturn` |
| `support` | an administrator, a user, and a handler of the solution queue in another organisation; two clients, one key, two texts | type correctness, `WithinLimits`, `OnlyEligible`, `SubmittedOnce` |
| `keyring` | two organisations, one with two rows and one with a single row, two keys, two texts, two operations under way, one rotation each | that `KeyRing` implements `TextStore`, and `RotationHolds` |
| `checkout_lapsed` | one organisation, three events, three seconds, no operator | finding: `LapsedIsNotPaid` is violated |
| `checkout_stale` | the same | finding: `RetrievalStands` is violated |

Why these bounds are enough. Three proposals are a first version, one that
replaces it and one that competes; more would repeat one of the three. Two
departments are what a merge needs, one personal scope what its exceptions
need. Three attempts let an old token meet two newer claims; lease lengths 1 and
2 let a renewal shorten a lease; offsets 0 and 1 give two replicas that disagree
for a second. Two jobs are what a duplicate needs, three events what "older,
newer, of the same second" needs, two seconds are the least in which two dates
differ, and two organisations are what a binding can be stolen from. Two
departments and a project under the organisation can form a chain of four scopes,
one more than `MaxDepth` = 3 walks (100 in the code), so that errors at the bound
occur; they can be nested, moved into each other, merged with a child that clashes
in name, and deleted. One grant and one restriction at a time are followed through
all of that: a role or a restriction that goes wrong does so for one grant or
policy, since neither looks at the others but for the highest (a policy withholds
both export and deletion, or neither, in the run). The state of
`access` is viewed without the audit row, which no guard and no later step reads.
In `quota` two replicas are what a race needs, and one free place is what they
race for. `job_submit` (job, usage row, key share), admissions (usage row, key share)
and `scope_delete` (organisation, job, usage row) take every lock but the principal's
and are the pairs that can deadlock; personal scopes, tickets and the other calls
repeat these patterns, and the safety proofs cover them all. In `support` the limits
are one open ticket, two tickets, two replies and four bytes (100, 1000, 100 and 10 MiB
in the code): small enough that each of them binds, and that reopening meets a full
queue. The first client asks for everything, the second files tickets, which is
what counts against limits; each queue is configured once to
something else: the solution queue loses its handler, the organisation's gains one. In `keyring` the
second row of an organisation lets one operation write under two versions if it
could, and the second organisation shows that keys are not mixed.

The named bounds are `Grantees`, `MaxGrants`, `MaxPolicies`, `PolicyChoices` and
`MaxDepth` of `Access`, `GrantedRoles` (roles that grants give: TLC tries the least and the
one that matters), `Lengths`, `Offsets`, `MaxAttempts` (also the code's constant
`JOB_MAX_ATTEMPTS`), `AssignedPlans` and `BoundByHand` (what the operator does),
`MaxRequests` (checkout requests of one organisation under way) and `MaxTime`
(the provider's clock), `Amounts`, `MaxPayload` and `Calls` of `Quota`, `Reporters`,
`Configurations` and `Calls` of `Support`, `MaxVersion` of `KeyRing`; identifiers of
proposals, jobs and events are finite sets. Symmetry is used only where the instance treats the values alike, and
never in a run with a liveness property. The proofs hold without any of the
bounds.

Every property is accompanied by a mutant: a definition that models code,
changed the way a plausible bug would ("Mutation of ..." in the modules). With
it, TLC finds the property violated.

### Fairness

`jobs` assumes that true time passes (`WF_vars(Tick)`), and that an
assignee who can claim a job, and somebody who can review one, do so in the end.
Workers poll the service and every call is a finished transaction, so what is
assumed is that people and agents act, not that the scheduler favours anyone.
Nobody has to submit, renew or cancel: a worker may die after its claim.
`EventuallySettled` says that a job then comes to its end, unless its assignee
renews for ever or nothing but a cancellation is possible (`Stalled`): its last
lease has run out, its assignee lost the role, or nobody may review it.

`quota` assumes strong fairness of `Proceed`, for each replica: PostgreSQL serves those
who wait for a row in the order in which they came, so a transaction that could
go on again and again is served; and weak fairness of `Conflict`: the deadlock
detector runs after `deadlock_timeout`. No replica has to call, and any may crash.
`CallsReturn` then says that every call ends, with a result, a refusal or a
conflict, and that none leaves a lock behind that would keep the others waiting.

### Findings

- `memory_reuse`: `memory_review` compares version numbers, and `memory_delete`
  restarts them. A client reads version 1, the key is deleted and written anew,
  and its proposal "against version 1" is accepted over content it never saw.
  docs/ARCHITECTURE.md:25 says that "Review serialisation and version checks
  prevent silent overwrites." `NoLostUpdate` is what holds: nothing is overwritten
  unseen unless the key was deleted in between.
- `checkout_lapsed`: the retrieval of a completed checkout comes before the
  transaction that binds the subscription. A cancellation whose webhook arrives in
  between finds no account, is filed as an unregistered subscription for good,
  and the account becomes paid by the older state. docs/BILLING.md:44 promises
  that lapsed subscriptions fall back to the default plan.
- `checkout_stale`: what was retrieved is dated by the creation of the checkout's
  event, not by the retrieval, so an event older than the retrieval can undo it.
  docs/BILLING.md:52 promises that older events do not undo newer decisions.
  `OlderNeverUndoes`, which goes by the dates the account stores, does hold.

## Proofs

All theorems are for arbitrary constants under the named assumptions
`OrganisationAssumption`, `MemoryAssumption`, `JobsAssumption`,
`AccountsAssumption`, `BillingAssumption`, `AccessAssumption`, `QuotaAssumption`,
`SupportAssumption`, `KeyRingAssumption` and `NoRowAssumption`, which TLC evaluates on
every run of their modules. Sets are assumed to be finite where
they are counted or waited in: replicas and rows in `QuotaAssumption`, principals in
`SupportAssumption`.

- `MemoryProofs`: `Inductive` is `TypeOK`, `HistoryComplete`, `Provenance` and
  `SightsMatch`. The last is needed because "no lost update" relates a version to
  what its proposer once read: what was read and is still fresh is in the
  history. Each action has a lemma; merging is the hard one, since it moves rows
  of four tables and `NoCollision` is what keeps the two histories apart.
  From it follow `TypeOK`, `HistoryComplete`, `Provenance`, `NoLostUpdate`, and the
  action properties `DecisionsFinal` (verdicts stay, `DecidedStep`, and fall by a reviewer
  who is entitled in that step, `EntitledStep`) and `HistoryKept`. `ImplementsStore` is the
  refinement of `VersionedStore`: the log of a place is read off its history, whose
  numbers are 1 to the length (`HistoryComplete`), so that an accepted review appends
  to one log and leaves the others alone, a merge moves logs as a whole, and the spent
  entries are those with a verdict.
- `JobsProofs`: `Inductive` adds to `TypeOK` and `OneJobPerKey` what the columns of
  a row have to do with each other (`Consistent`: for instance a claimed row's
  token is its number of attempts), that a deadline is the granted term on the
  clock that granted it (`LeaseTold`), and that in a personal scope only the owner
  is assigned (`Private`). Proved: `TypeOK`, `ResultFromLatestClaim`,
  `IndependentVerdict`, `OneJobPerKey`, `OutcomeFinal`, `LeaseHonoured`, and
  `OnlyForward`, the part of `EventuallySettled` about single steps: a job never
  returns to an earlier stage, and a claim that replaces another uses up an attempt,
  so that only renewals could go on for ever.
- `BillingProofs`: lemmas first say what the operators of `Accounts` return in each
  case (`NoteCases`, `Outcomes`, `Bindings`, `OutcomeOrder`, `OutcomePaid`). `Inv` is
  the type invariant with prices (`Priced`: a reserved checkout has one), that
  events not sent are in no row (`Ledgered`), that a session needs its
  reservation (`Opened`), and the four safety properties. `QuietSteps` reduces every
  step that writes neither accounts nor ledger to one frame condition, so that
  the remaining cases are the five operations that do. `CompletionIsWhole` is what
  makes `PaidByDecision` inductive: a completion meets a ledger without its
  event, and the price of a checkout that decided a plan never changes.
  Proved: `TypeOK`, `PaidByDecision`, `OneOrgEach`, `CompletionIsWhole`,
  `OneSession`, `EventsCountOnce`, `OlderNeverUndoes`.

- `AccessProofs`: the first part is about forests in general. `Up(P, s)` is the least
  set from a scope upwards; what becomes of it when a scope moves (`MoveAway`,
  `MovedAlong`, `MoveKeeps`) or its children go to another (`MergeAway`,
  `MergedAlong`, `MergeKeeps`) is shown from closed sets alone, without induction
  over the tree: to show that something is above a scope afterwards, what is
  above it afterwards is completed to a set that is closed before. `Inductive` is
  `TypeOK`, `Well` (the tree, in terms of `Up`, and nothing outside `live` in it) and
  `PersonalRows`; each operation has a lemma. `TreeOK` and `PersonalApart` follow.
  `RestrictionsSurvive`: what is on the old chain is on the new one, or it was
  above the scope that moved, and then `Retained` has put it on that scope
  (`KeptAlong`). `RolesRiseFromAbove` and `MergeOpensOnlyMoved`: every operation
  leaves the roles alone on all scopes but those beneath one scope
  (`RolesKeptOff`), which its actor administers.
  Proved: `TypeOK`, `TreeOK`, `PersonalApart`, `RestrictionsSurvive`,
  `RolesRiseFromAbove`, `MergeOpensOnlyMoved`, and with `Provides` also
  `PersonalForAll`: that is every property of the run. `OrganisationFollows` justifies
  the abstraction of `Organisation`: the roles of the administrator and on personal
  scopes are fixed by `PersonalRows` in both states of a step (`FixedRoles`), what is
  deleted is on no chain but its own (`DeleteRoles`), and the guards of `ScopeDelete`
  and `ScopeMerge` become those of `Organisation` for the same actor.

- `QuotaProofs`: `Inductive` says what the locks of a transaction protect. From the
  lock on the usage row to the commit, the counter to be written follows the
  stored bytes (`Counted`) and what was checked holds (`Fitted`), because whoever could
  disturb either needs the same lock; before that, what was counted for a new
  usage row is what is stored, as long as nobody has committed one (`Sound`).
  `Exclusive` is mutual exclusion. Proved: `TypeOK`, `NoOverAdmission`,
  `CounterFollows`, `StorageWithinPlan`, `NobodyDisplaced`; and `ImplementsAllowance`,
  step by step: because the usage row is held from reading the plan to the commit, all
  that the commit decides on is still exact then, and `Offer` is the plan of one
  transaction at most. `OnlySharesDeadlock`: a call holds only locks that come before the
  one it waits for in `Order` (`LocksInOrder`), so that in a circle without a key share
  a lock that is held would have a later one that is held, without end.
  `SomebodyMoves`, the part of `CallsReturn` about single states: if nobody could go on,
  all calls under way would be a circle, and a smallest circle in it is a deadlock
  (`LeastSubset`).
- `SupportProofs`: `TypeOK` is inductive as it stands. `OnlyEligible` rests on the rule
  of the repository implying that of the application for active people, so that no
  step between check and transaction matters. `SubmittedOnce` follows from every
  transaction leaving alone what was submitted. `WithinLimits` has two parts: the
  tickets and replies that are counted (`CountsWithin`), and the sum of bytes of a
  tenant, where a ticket that is filed or answered adds its bytes to the sum over the
  others (`SumAdd`, `SumChange` of `SetTheorems`).
- `SetTheorems`: what a fold computes would be an induction over the set, but the
  induction theorems of the library take an operator. Instead, every non-empty set of
  finite sets has a member of which no proper subset is in it (`LeastSubset`, from the
  well-foundedness of cardinalities); the least set where a law of `SumFunctionOnSet`
  failed would be one for which the law follows from a smaller set.
- `KeyRingProofs`: `IInv` says that exactly the versions up to the active one are stored
  (`RingExact`), that every envelope was encrypted under the stored key of its version
  (`Openable`), and that what a call looked up still stands and is what it writes
  under (`Looked`, `Wrote`). Keys being added and never replaced (`Grown`) is what
  carries it from step to step. Proved: `RotationHolds`, and `ImplementsStore`: every
  step of `KeyRing` maps to a step of `TextStore` or to a stutter.

Every invariant and every action property of the runs has a theorem, and so have the
three refinements. Only model-checked: `EventuallySettled` and `CallsReturn`, since
liveness under fairness and ENABLED are beyond the prover; `OnlyForward` and
`SomebodyMoves` are what is proved towards them. The findings are counterexamples.

Only proved, and in no run: `OnlyForward`, `OnlySharesDeadlock`, `SomebodyMoves`,
`OrganisationFollows`, `StorageWithinPlan` (which `ImplementsAllowance` covers in the
run) and `HistoryKept` (which `ImplementsStore` covers). All of them can be added to the configuration of their component.

## Not modelled, and why

- Statements within a transaction, except for the locks of `Quota`. Each other
  operation is one step because it decides under a row lock: the organisation's
  for memory, structure and new tickets, the job's row for jobs, the account's row
  for events, the key ring's for keys. What this leaves out is listed as hazards:
  the principal row, and the snapshot of an export, that `dispatch` reads before it
  waits for the organisation, and the account row that `complete` reads before
  `register_subscription` locks it. For what `Quota` models, that transactions taking
  lock after lock amount to single steps is proved (`ImplementsAllowance`); that the
  other modules may have single steps is by inspection of the locks above. Three
  races are therefore not interleaved statement by statement: two registrations of one
  subscription (the check and the unique constraint behind it are one guard, `FreeFor`;
  what interleaves are registrations with the two halves of a completion), the statements
  of a completion, and counting tickets before one is inserted, under the
  organisation's lock (what interleaves are checks, transactions and reopening).
- Suspension of an organisation: a flag that a wrapper reads before it
  authenticates or dispatches. Operations under way go on.
- Browser sessions: one table of digests with an expiry. What is hard is whether the
  life time of a row covers that of the cookie, whose age only the cryptographic
  library checks.
- Request limits: a sequential algorithm in the memory of one process; nothing
  states what the eviction of windows must preserve.
- The inbox, listings and other reads that change no state, formatting and audit
  texts. `message_send` is a charged write of `Quota`.
- In `Support`: the version number of a configuration, page texts and the ceiling of
  a listing; the encryption of tickets, which calls the same functions as `KeyRing`
  outside of a flush. In `KeyRing`: the ciphers, the wrapping providers, and the
  encryption of backups.
- The content scanner, signatures, OIDC and HTTP: pure computation or I/O. Where a
  result matters it is nondeterministic (quarantined or not).
- Adapters, configuration, scripts, browser code, infrastructure.

## What could come next

A model of the statements of `complete_checkout` would settle the hazard of the
unlocked account row, and one of the window of the inbox that of hidden mail.
`Organisation` has no new personal scopes and keeps policies fixed (`Deletable`);
`Memory` and `Jobs` over the tree of `Access` itself would show what a policy set
between two operations means for contents.
