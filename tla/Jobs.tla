-------------------------------- MODULE Jobs --------------------------------
(***************************************************************************)
(* Leased jobs of one organisation: the operations of                      *)
(* distributedai/persistence/workspace.py on the jobs table.               *)
(*                                                                         *)
(* Every operation takes the job row (job_create: the organisation row)    *)
(* FOR UPDATE and decides under that lock, so each is one atomic step.     *)
(*                                                                         *)
(* Time.  Each replica reads its own clock, which is off from true time by *)
(* a constant.  A deadline is kept as the true time left until it, so that *)
(* it is finite state: a replica whose clock is `offset` ahead sees it in  *)
(* the past when less than `offset` is left.                               *)
(*                                                                         *)
(* Tokens are random: the token of a claim is named by the number of that  *)
(* claim.  The processes of the assignee share what they were handed, and  *)
(* may present any of it at any time; a reply can get lost.                *)
(***************************************************************************)
EXTENDS Organisation

CONSTANTS
    Jobs,           \* identifiers that jobs can be given
    IdemKeys,       \* idempotency keys clients use
    MaxAttempts,    \* JOB_MAX_ATTEMPTS
    Lengths,        \* lease lengths that can be asked for
    Offsets,        \* how far the replicas' clocks are ahead of true time
    InitialRoles    \* the roles granted at first

ASSUME JobsAssumption ==
    /\ None \notin Jobs \cup IdemKeys \cup Scopes
    /\ MaxAttempts \in Nat \ {0}
    /\ Lengths \subseteq Nat \ {0}
    /\ Offsets \subseteq Nat
    /\ InitialRoles \in [Principals -> [Scopes -> Role]]

VARIABLES
    active,     \* principals that are not revoked
    job,        \* the job rows, by identifier
    held        \* held[j]: the claim tokens of j that reached the assignee

vars == <<granted, live, active, job, held>>

Terminal == {"completed", "failed", "cancelled"}
Reviewing == {"awaiting_review", "quarantined"}
Status == {"unused", "queued", "claimed", "erased"} \cup Reviewing \cup Terminal

NoToken == 0
NoLease == 0

\* `term` is not in the program: the true time left of the lease the assignee
\* was last granted, whatever clock granted it.  `reviewer` is the principal
\* the audit log names, and `result` the claim under which it was submitted.
JobRow == [status : Status, scope : Scopes \cup {None},
           creator : Principals \cup {None}, assignee : Principals \cup {None},
           key : IdemKeys \cup {None}, quarantined : BOOLEAN,
           attempts : 0..MaxAttempts, token : 0..MaxAttempts,
           lease : Int, term : Int,
           result : 0..MaxAttempts, reviewer : Principals \cup {None}]

NoJob(status) ==
    [status |-> status, scope |-> None, creator |-> None, assignee |-> None,
     key |-> None, quarantined |-> FALSE, attempts |-> 0, token |-> NoToken,
     lease |-> NoLease, term |-> 0, result |-> 0, reviewer |-> None]

Exists(j) == job[j].status \notin {"unused", "erased"}

\* Every variable has its type, and a job refers to a scope that exists and to
\* principals of the organisation.
TypeOK ==
    /\ granted \in [Principals -> [Scopes -> Role]]
    /\ live \in SUBSET Scopes
    /\ active \in SUBSET Principals
    /\ job \in [Jobs -> JobRow]
    /\ held \in [Jobs -> SUBSET (1..MaxAttempts)]
    /\ \A j \in Jobs : Exists(j) =>
          /\ job[j].scope \in live
          /\ job[j].creator \in Principals
          /\ job[j].assignee \in Principals

-----------------------------------------------------------------------------
Init ==
    /\ granted = InitialRoles
    /\ live = Scopes
    /\ active = Principals
    /\ job = [j \in Jobs |-> NoJob("unused")]
    /\ held = [j \in Jobs |-> {}]

\* The role of a principal on a scope changes.
Regrant(p, s, role) ==
    /\ ChangeRole(p, s, role)
    /\ UNCHANGED <<active, job, held>>

\* principal_revoke; there is no way back.
Revoke(p) ==
    /\ p \in active \ {OrgAdmin}
    /\ active' = active \ {p}
    /\ UNCHANGED <<granted, live, job, held>>

\* job_create by p.  When (p, s, key) has a job already, the call is a replay
\* or an idempotency_conflict and changes nothing.
Create(p, s, a, key, j, quarantined) ==
    /\ p \in active /\ Allowed(p, s, "writer")
    /\ a \in active /\ Allowed(a, s, "writer")
    /\ \A x \in Jobs : Exists(x) =>
          <<job[x].creator, job[x].scope, job[x].key>> # <<p, s, key>>
    /\ job[j].status = "unused"
    /\ job' = [job EXCEPT ![j] =
                 [NoJob(IF quarantined THEN "quarantined" ELSE "queued")
                    EXCEPT !.scope = s, !.creator = p, !.assignee = a,
                           !.key = key, !.quarantined = quarantined]]
    /\ UNCHANGED <<granted, live, active, held>>

\* The deadline of j has passed on a replica's clock.
Expired(j, offset) == job[j].lease < offset

\* The caller is the assignee and may (still) write to the scope of the job.
Worker(p, j) ==
    /\ p \in active
    /\ Exists(j)
    /\ p = job[j].assignee
    /\ Allowed(p, job[j].scope, "writer")

\* Mutations of Claimable: a claim in force is no obstacle; an expired one is.
ClaimableAlways(j, offset) ==
    job[j].status \in {"queued", "claimed"} /\ job[j].attempts < MaxAttempts

ClaimableOnce(j, offset) ==
    job[j].status = "queued" /\ job[j].attempts < MaxAttempts

\* job_claim is open for unclaimed jobs and for those whose lease ran out.
Claimable(j, offset) ==
    /\ \/ job[j].status = "queued"
       \/ job[j].status = "claimed" /\ Expired(j, offset)
    /\ job[j].attempts < MaxAttempts

\* job_claim: a new lease and a new token, which may never arrive.
Claim(p, j, length, offset, delivered) ==
    /\ Worker(p, j)
    /\ Claimable(j, offset)
    /\ LET n == job[j].attempts + 1
       IN  /\ job' = [job EXCEPT ![j] =
                        [@ EXCEPT !.status = "claimed", !.token = n,
                                  !.lease = offset + length, !.term = length,
                                  !.attempts = n]]
           /\ held' = [held EXCEPT ![j] = IF delivered THEN @ \cup {n} ELSE @]
    /\ UNCHANGED <<granted, live, active>>

\* Mutation of Fenced: any token will do.
FencedByLease(p, j, token, offset) ==
    /\ Worker(p, j)
    /\ job[j].status = "claimed"
    /\ ~Expired(j, offset)

\* `_job_fenced`.
Fenced(p, j, token, offset) ==
    /\ Worker(p, j)
    /\ job[j].status = "claimed"
    /\ ~Expired(j, offset)
    /\ job[j].token = token

\* job_renew; the new lease may end before the old one would have.
Renew(p, j, token, length, offset) ==
    /\ token \in held[j]
    /\ Fenced(p, j, token, offset)
    /\ job' = [job EXCEPT ![j] =
                 [@ EXCEPT !.lease = offset + length, !.term = length]]
    /\ UNCHANGED <<granted, live, active, held>>

\* job_submit: the scan of the result decides the quarantine.  Token and lease
\* stay, but no operation looks at them in the new status.
Submit(p, j, token, offset, quarantined) ==
    /\ token \in held[j]
    /\ Fenced(p, j, token, offset)
    /\ job' = [job EXCEPT ![j] =
                 [@ EXCEPT !.result = token, !.quarantined = quarantined,
                           !.status = IF quarantined THEN "quarantined"
                                      ELSE "awaiting_review"]]
    /\ UNCHANGED <<granted, live, active, held>>

\* Mutation of Judge: the assignee may, when it created the job.
JudgeOwn(p, j) ==
    /\ p \in active
    /\ Exists(j)
    /\ \/ p = job[j].creator /\ Allowed(p, job[j].scope, "writer")
       \/ Allowed(p, job[j].scope, "reviewer")

\* Who may review: never the assignee; the creator while a writer, reviewers.
Judge(p, j) ==
    /\ p \in active
    /\ Exists(j)
    /\ p # job[j].assignee
    /\ \/ p = job[j].creator /\ Allowed(p, job[j].scope, "writer")
       \/ Allowed(p, job[j].scope, "reviewer")

\* Mutation of Reviewable: a reviewed job can be reviewed again.
ReviewableAgain(j) == job[j].status \in Reviewing \cup {"completed", "failed"}

Reviewable(j) == job[j].status \in Reviewing

\* A job ends: its lease is gone.
Close(j, status, p) ==
    job' = [job EXCEPT ![j] = [@ EXCEPT !.status = status, !.token = NoToken,
                                        !.lease = NoLease, !.reviewer = p]]

\* job_review.
Review(p, j, accept) ==
    /\ Judge(p, j)
    /\ Reviewable(j)
    /\ accept => ~job[j].quarantined
    /\ Close(j, IF accept THEN "completed" ELSE "failed", p)
    /\ UNCHANGED <<granted, live, active, held>>

\* job_cancel: the creator, whatever has become of its role, or a reviewer.
Cancel(p, j) ==
    /\ p \in active
    /\ Exists(j)
    /\ p = job[j].creator \/ Allowed(p, job[j].scope, "reviewer")
    /\ job[j].status \notin Terminal
    /\ Close(j, "cancelled", None)
    /\ UNCHANGED <<granted, live, active, held>>

\* Mutation of ScopeDelete: the jobs are left behind.
ScopeDeleteAlone(p, s) ==
    /\ p \in active
    /\ MayDeleteScope(p, s)
    /\ live' = live \ {s}
    /\ UNCHANGED <<granted, active, job, held>>

\* scope_delete(delete_contents = TRUE), or of a scope without data.
ScopeDelete(p, s) ==
    /\ p \in active
    /\ MayDeleteScope(p, s)
    /\ job' = [j \in Jobs |-> IF Exists(j) /\ job[j].scope = s
                              THEN NoJob("erased") ELSE job[j]]
    /\ live' = live \ {s}
    /\ UNCHANGED <<granted, active, held>>

\* Mutation of NoDuplicate: there is no such constraint.
DuplicateIgnored(source, target) == TRUE

\* The UNIQUE (creator, scope, key) of the jobs table survives the merge.
NoDuplicate(source, target) ==
    \A i, j \in Jobs :
        Exists(i) /\ Exists(j) /\ job[i].scope = source /\ job[j].scope = target
            => <<job[i].creator, job[i].key>> # <<job[j].creator, job[j].key>>

ScopeMerge(p, source, target) ==
    /\ p \in active
    /\ MayMergeScopes(p, source, target)
    /\ NoDuplicate(source, target)
    /\ job' = [j \in Jobs |-> IF Exists(j) /\ job[j].scope = source
                              THEN [job[j] EXCEPT !.scope = target] ELSE job[j]]
    /\ live' = live \ {source}
    /\ UNCHANGED <<granted, active, held>>

\* True time passes.  A deadline every clock has passed needs no more counting.
Past == -1
Tick ==
    /\ job' = [j \in Jobs |->
                 IF job[j].status = "claimed" /\ job[j].lease > Past
                 THEN [job[j] EXCEPT !.lease = @ - 1, !.term = @ - 1]
                 ELSE job[j]]
    /\ UNCHANGED <<granted, live, active, held>>

ClaimAny(j) ==
    \E p \in Principals, length \in Lengths, o \in Offsets, d \in BOOLEAN :
        Claim(p, j, length, o, d)
RenewAny(j) ==
    \E p \in Principals, t \in 1..MaxAttempts, length \in Lengths, o \in Offsets :
        Renew(p, j, t, length, o)
SubmitAny(j) ==
    \E p \in Principals, t \in 1..MaxAttempts, o \in Offsets, q \in BOOLEAN :
        Submit(p, j, t, o, q)
ReviewAny(j) == \E p \in Principals, accept \in BOOLEAN : Review(p, j, accept)

Next ==
    \/ \E p \in Principals \ {OrgAdmin}, s \in Scopes, role \in GrantedRoles :
          Regrant(p, s, role)
    \/ \E p \in Principals : Revoke(p)
    \/ \E p, a \in Principals, s \in Scopes, key \in IdemKeys, j \in Jobs,
          q \in BOOLEAN : Create(p, s, a, key, j, q)
    \/ \E j \in Jobs :
          \/ ClaimAny(j) \/ RenewAny(j) \/ SubmitAny(j) \/ ReviewAny(j)
          \/ \E p \in Principals : Cancel(p, j)
    \/ \E p \in Principals, s \in Scopes : ScopeDelete(p, s)
    \/ \E p \in Principals, s, t \in Scopes : ScopeMerge(p, s, t)
    \/ Tick

Spec == Init /\ [][Next]_vars

\* Time passes, an assignee whose job can be claimed claims it in the end, and
\* somebody who may review does.  Nobody has to submit, renew or cancel.
Fairness ==
    /\ WF_vars(Tick)
    /\ \A j \in Jobs : WF_vars(ClaimAny(j)) /\ WF_vars(ReviewAny(j))

FairSpec == Spec /\ Fairness

-----------------------------------------------------------------------------
(* What the jobs promise.                                                  *)

\* A result comes from the holder of the latest claim: whatever the clocks of
\* the replicas say and whichever old token is presented again, a claim that
\* another one replaced can not deliver; and what waits for a verdict or got
\* one has been submitted, or was quarantined when it was created and never
\* handed to anybody.
ResultFromLatestClaim ==
    \A j \in Jobs :
        /\ job[j].result # 0 => job[j].result = job[j].attempts
        /\ job[j].status \in Reviewing \cup {"completed", "failed"} =>
              \/ job[j].result # 0
              \/ job[j].quarantined /\ job[j].attempts = 0

\* A job completes only on the word of somebody other than its assignee, with
\* a result that was not quarantined.  In a personal scope there is nobody
\* else, so no job of one ever passes a review, whichever way.
IndependentVerdict ==
    \A j \in Jobs :
        /\ job[j].status \in {"completed", "failed"} =>
              /\ job[j].reviewer \in Principals \ {job[j].assignee}
              /\ Kind[job[j].scope] # "personal"
        /\ job[j].status = "completed" => ~job[j].quarantined

\* At most one job for one creator, scope and idempotency key, after merges too.
OneJobPerKey ==
    \A i, j \in Jobs :
        /\ Exists(i) /\ Exists(j)
        /\ job[i].creator = job[j].creator
        /\ job[i].scope = job[j].scope
        /\ job[i].key = job[j].key
        => i = j

\* A result stays what it was and a terminal job stays what it is, until its
\* scope is deleted; a merge moves the job and changes nothing else of it.
OutcomeFinal ==
    [][\A j \in Jobs :
          \/ job'[j].status = "erased"
          \/ /\ job[j].result # 0 =>
                  /\ job'[j].result = job[j].result
                  /\ job'[j].quarantined = job[j].quarantined
                  /\ job'[j].status # "claimed"
             /\ job[j].status \in Terminal =>
                  [job'[j] EXCEPT !.scope = job[j].scope] = job[j]]_vars

\* The largest difference between the clocks of two replicas.
Skews == {o1 - o2 : o1, o2 \in Offsets}

\* A claim is replaced only when its lease is over, and delivers only while it
\* is not, up to the difference between two clocks.
LeaseHonoured ==
    [][\A j \in Jobs :
          job[j].status = "claimed" =>
              /\ job'[j].attempts > job[j].attempts =>
                    \E skew \in Skews : job[j].term < skew
              /\ job'[j].result # job[j].result /\ job'[j].status # "erased" =>
                    \E skew \in Skews : job[j].term >= skew]_vars

\* Nothing can happen to the job any more but its cancellation, unless roles
\* change: no assignee to claim it, no claim left, or nobody to review it.
Stalled(j) ==
    \/ /\ job[j].status = "queued"
       /\ ~Worker(job[j].assignee, j)
    \/ /\ job[j].status = "claimed"
       /\ \A o \in Offsets : Expired(j, o)
       /\ ~Worker(job[j].assignee, j) \/ job[j].attempts = MaxAttempts
    \/ /\ Reviewable(j)
       /\ \A p \in Principals : ~Judge(p, j)

\* Unless its assignee renews for ever, a job gets to its end or to where only
\* a cancellation ends it: lost replies, dead workers and expired leases never
\* leave it waiting otherwise.
EventuallySettled ==
    \A j \in Jobs :
        \/ []<><<RenewAny(j)>>_vars
        \/ Exists(j) ~> ~Exists(j) \/ job[j].status \in Terminal \/ Stalled(j)

\* How far a job has come.
Stage(j) ==
    [unused |-> 0, queued |-> 1, claimed |-> 2, quarantined |-> 3, awaiting_review |-> 3,
     completed |-> 4, failed |-> 4, cancelled |-> 4, erased |-> 5][job[j].status]

\* A job gets on or stays where it is: no expiry, retry, renewal or merge takes it
\* back to an earlier stage, and each claim that replaces another one uses up one
\* of its attempts.  As there are MaxAttempts of them, only renewals can go on for
\* ever: the part of EventuallySettled that is about single steps.
OnlyForward ==
    [][\A j \in Jobs :
          \/ Stage(j)' > Stage(j)
          \/ /\ job'[j].status = job[j].status
             /\ \/ job'[j].attempts = job[j].attempts
                \/ job[j].status = "claimed" /\ job'[j].attempts = job[j].attempts + 1]_vars

-----------------------------------------------------------------------------
(* The inductive invariant of module JobsProofs.                           *)

\* What the columns of a row have to do with each other.
Consistent(row) ==
    /\ row.status \in {"unused", "erased", "queued", "claimed"} =>
          row.result = 0 /\ ~row.quarantined
    /\ row.status = "queued" => row.attempts = 0
    /\ row.status = "claimed" => row.token = row.attempts /\ row.attempts > 0
    /\ row.status = "awaiting_review" => ~row.quarantined
    /\ row.status \in Reviewing \cup {"completed", "failed"} =>
          row.result # 0 \/ (row.quarantined /\ row.attempts = 0)
    /\ row.result # 0 => row.result = row.attempts
    /\ row.status \in {"completed", "failed"} =>
          row.reviewer \in Principals \ {row.assignee}
    /\ row.status = "completed" => ~row.quarantined

\* A deadline is the granted term on the clock that granted it.
LeaseTold(row) ==
    row.status = "claimed" => \E o \in Offsets : row.lease = row.term + o

\* In a personal scope only its owner is ever assigned.
Private(row) ==
    row.scope # None /\ Kind[row.scope] = "personal" =>
        /\ row.assignee = Owner[row.scope]
        /\ row.status \notin {"completed", "failed"}

Inductive ==
    /\ TypeOK
    /\ \A j \in Jobs :
          Consistent(job[j]) /\ LeaseTold(job[j]) /\ Private(job[j])
    /\ OneJobPerKey
=============================================================================
