----------------------------- MODULE JobsProofs -----------------------------
(***************************************************************************)
(* Proofs about module Jobs, for any number of principals, scopes, jobs,   *)
(* attempts and replicas, whatever their clocks are off by.                *)
(*                                                                         *)
(* Inductive relates the columns of each row.  Operations on one job       *)
(* replace its row, and OneRow says what the new row must be; merges,      *)
(* deletions and the passing of time replace many rows and are done apart. *)
(***************************************************************************)
EXTENDS Jobs, TLAPS

USE DEF NoToken, NoLease, Terminal, Reviewing

LEMMA Statuses ==
  {"unused", "erased", "queued", "claimed", "quarantined", "awaiting_review",
   "completed", "failed", "cancelled"} = Status
  BY DEF Status

LEMMA Numbers == 0 \in 0..MaxAttempts /\ \A n \in 1..MaxAttempts : n \in 0..MaxAttempts
  BY JobsAssumption

LEMMA BlankRow == \A status \in Status : NoJob(status) \in JobRow
  BY Numbers DEF NoJob, JobRow

LEMMA InitInductive == Init => Inductive
<1> SUFFICES ASSUME Init PROVE Inductive
  OBVIOUS
<1>1. NoJob("unused") \in JobRow
  BY JobsAssumption DEF JobRow, NoJob, Status
<1>2. TypeOK
  BY <1>1, JobsAssumption DEF Init, TypeOK, Exists, NoJob
<1>3. \A j \in Jobs : Consistent(job[j]) /\ LeaseTold(job[j]) /\ Private(job[j])
  BY DEF Init, NoJob, Consistent, LeaseTold, Private
<1>4. OneJobPerKey
  BY DEF Init, OneJobPerKey, Exists, NoJob
<1> QED
  BY <1>2, <1>3, <1>4 DEF Inductive

\* A row that is rewritten keeps its identity: scope, people and key.
Rewritten(old, new) ==
    /\ new.scope = old.scope
    /\ new.creator = old.creator
    /\ new.assignee = old.assignee
    /\ new.key = old.key
    /\ new.status \notin {"unused", "erased"}

\* Replacing the row of an existing job by a sound one.
LEMMA OneRow ==
  ASSUME Inductive, NEW j \in Jobs, Exists(j), NEW row \in JobRow,
         Rewritten(job[j], row),
         Consistent(row), LeaseTold(row), Private(row),
         job' = [job EXCEPT ![j] = row],
         held' \in [Jobs -> SUBSET (1..MaxAttempts)],
         UNCHANGED <<granted, live, active>>
  PROVE  Inductive'
<1>1. /\ job'[j] = row
      /\ \A x \in Jobs : x # j => job'[x] = job[x]
  BY DEF Inductive, TypeOK
<1>2. \A x \in Jobs :
        /\ Exists(x)' <=> Exists(x)
        /\ job'[x].scope = job[x].scope
        /\ job'[x].creator = job[x].creator
        /\ job'[x].assignee = job[x].assignee
        /\ job'[x].key = job[x].key
  BY <1>1 DEF Exists, Rewritten
<1>3. TypeOK'
  BY <1>2 DEF Inductive, TypeOK
<1>4. \A x \in Jobs :
        Consistent(job'[x]) /\ LeaseTold(job'[x]) /\ Private(job'[x])
  BY <1>1 DEF Inductive
<1>5. OneJobPerKey'
  BY <1>2 DEF Inductive, OneJobPerKey
<1> QED
  BY <1>3, <1>4, <1>5 DEF Inductive, Consistent, LeaseTold, Private

LEMMA RegrantStep ==
  ASSUME Inductive, NEW p \in Principals, NEW s \in Scopes,
         NEW role \in GrantedRoles, Regrant(p, s, role)
  PROVE  Inductive'
<1>1. UNCHANGED <<live, active, job, held>>
  BY DEF Regrant, ChangeRole
<1>2. granted' \in [Principals -> [Scopes -> Role]]
  BY OrganisationAssumption DEF Regrant, ChangeRole, Inductive, TypeOK
<1>3. TypeOK'
  BY <1>1, <1>2 DEF Inductive, TypeOK, Exists
<1> QED
  BY <1>1, <1>3
     DEF Inductive, OneJobPerKey, Exists, Consistent, LeaseTold, Private

LEMMA RevokeStep ==
  ASSUME Inductive, NEW p \in Principals, Revoke(p)
  PROVE  Inductive'
<1>1. UNCHANGED <<granted, live, job, held>> /\ active' \in SUBSET Principals
  BY DEF Revoke, Inductive, TypeOK
<1>2. TypeOK'
  BY <1>1 DEF Inductive, TypeOK, Exists
<1> QED
  BY <1>1, <1>2
     DEF Inductive, OneJobPerKey, Exists, Consistent, LeaseTold, Private

LEMMA CreateStep ==
  ASSUME Inductive, NEW p \in Principals, NEW a \in Principals,
         NEW s \in Scopes, NEW key \in IdemKeys, NEW j \in Jobs,
         NEW q \in BOOLEAN, Create(p, s, a, key, j, q)
  PROVE  Inductive'
<1> DEFINE blank == NoJob(IF q THEN "quarantined" ELSE "queued")
           row == [blank EXCEPT !.scope = s, !.creator = p, !.assignee = a,
                                !.key = key, !.quarantined = q]
<1>1. job' = [job EXCEPT ![j] = row]
  BY DEF Create
<1>2. /\ row \in JobRow
      /\ row.status = (IF q THEN "quarantined" ELSE "queued")
      /\ row.scope = s /\ row.creator = p /\ row.assignee = a /\ row.key = key
      /\ row.quarantined = q /\ row.attempts = 0 /\ row.result = 0
  <2>1. /\ blank \in JobRow
        /\ blank.status = (IF q THEN "quarantined" ELSE "queued")
        /\ blank.attempts = 0 /\ blank.result = 0
    BY BlankRow, Statuses DEF NoJob
  <2> HIDE DEF blank
  <2> QED
    BY <2>1 DEF JobRow
<1> HIDE DEF row
<1>3. job'[j] = row /\ \A x \in Jobs : x # j => job'[x] = job[x]
  BY <1>1 DEF Inductive, TypeOK
<1>4. Consistent(row) /\ LeaseTold(row)
  BY <1>2 DEF Consistent, LeaseTold
<1>5. Private(row)
  BY <1>2 DEF Create, Allowed, RoleOf, AtLeast, Rank, Role, Private
<1>6. job' \in [Jobs -> JobRow]
  BY <1>1, <1>2 DEF Inductive, TypeOK
<1>7. s \in live
  BY DEF Create, Allowed
<1>8. TypeOK'
  BY <1>2, <1>3, <1>6, <1>7 DEF Inductive, TypeOK, Create, Exists
<1>9. OneJobPerKey'
  BY <1>2, <1>3 DEF Inductive, OneJobPerKey, Create, Exists
<1>10. \A x \in Jobs :
         Consistent(job'[x]) /\ LeaseTold(job'[x]) /\ Private(job'[x])
  BY <1>3, <1>4, <1>5 DEF Inductive
<1> QED
  BY <1>8, <1>9, <1>10 DEF Inductive, Consistent, LeaseTold, Private

LEMMA ClaimStep ==
  ASSUME Inductive, NEW p \in Principals, NEW j \in Jobs, NEW length \in Lengths,
         NEW o \in Offsets, NEW d \in BOOLEAN, Claim(p, j, length, o, d)
  PROVE  Inductive'
<1> DEFINE n == job[j].attempts + 1
           row == [job[j] EXCEPT !.status = "claimed", !.token = n,
                                 !.lease = o + length, !.term = length,
                                 !.attempts = n]
<1>1. job[j] \in JobRow /\ Exists(j) /\ job' = [job EXCEPT ![j] = row]
  BY DEF Claim, Worker, Inductive, TypeOK
<1>2. n \in 1..MaxAttempts
  BY <1>1, JobsAssumption DEF Claim, Claimable, JobRow
<1>3. o \in Int /\ length \in Int /\ o + length \in Int
  BY JobsAssumption
<1>4. row \in JobRow
  BY <1>1, <1>2, <1>3, Statuses, Numbers DEF JobRow
<1>5. job[j].status \in {"queued", "claimed"}
  BY DEF Claim, Claimable
<1>6. job[j].result = 0 /\ ~job[j].quarantined
  BY <1>5 DEF Inductive, Consistent
<1>7. Consistent(row)
  BY <1>1, <1>2, <1>6 DEF Consistent, JobRow
<1>8. LeaseTold(row)
  BY <1>1, <1>3 DEF LeaseTold, JobRow
<1>9. Private(row)
  BY <1>1 DEF Private, JobRow, Inductive
<1>10. Rewritten(job[j], row)
  BY <1>1 DEF Rewritten, JobRow
<1>11. held' \in [Jobs -> SUBSET (1..MaxAttempts)]
  BY <1>2 DEF Claim, Inductive, TypeOK
<1>12. UNCHANGED <<granted, live, active>>
  BY DEF Claim
<1> HIDE DEF row, n
<1> QED
  BY <1>1, <1>4, <1>7, <1>8, <1>9, <1>10, <1>11, <1>12, OneRow

LEMMA RenewStep ==
  ASSUME Inductive, NEW p \in Principals, NEW j \in Jobs, NEW t \in 1..MaxAttempts,
         NEW length \in Lengths, NEW o \in Offsets, Renew(p, j, t, length, o)
  PROVE  Inductive'
<1> DEFINE row == [job[j] EXCEPT !.lease = o + length, !.term = length]
<1>1. job[j] \in JobRow /\ Exists(j) /\ job' = [job EXCEPT ![j] = row]
  BY DEF Renew, Fenced, Worker, Inductive, TypeOK
<1>2. o \in Int /\ length \in Int /\ o + length \in Int
  BY JobsAssumption
<1>3. row \in JobRow
  BY <1>1, <1>2 DEF JobRow
<1>4. Consistent(row) /\ Private(row)
  BY <1>1 DEF Consistent, Private, JobRow, Inductive
<1>5. LeaseTold(row)
  BY <1>1, <1>2 DEF LeaseTold, JobRow
<1>6. Rewritten(job[j], row)
  BY <1>1 DEF Rewritten, JobRow, Exists
<1>7. held' \in [Jobs -> SUBSET (1..MaxAttempts)]
  BY DEF Renew, Inductive, TypeOK
<1>12. UNCHANGED <<granted, live, active>>
  BY DEF Renew
<1> HIDE DEF row
<1> QED
  BY <1>1, <1>3, <1>4, <1>5, <1>6, <1>7, <1>12, OneRow

LEMMA SubmitStep ==
  ASSUME Inductive, NEW p \in Principals, NEW j \in Jobs, NEW t \in 1..MaxAttempts,
         NEW o \in Offsets, NEW q \in BOOLEAN, Submit(p, j, t, o, q)
  PROVE  Inductive'
<1> DEFINE row == [job[j] EXCEPT !.result = t, !.quarantined = q,
                                 !.status = IF q THEN "quarantined"
                                            ELSE "awaiting_review"]
<1>1. job[j] \in JobRow /\ Exists(j) /\ job' = [job EXCEPT ![j] = row]
  BY DEF Submit, Fenced, Worker, Inductive, TypeOK
<1>2. row \in JobRow
  BY <1>1, Statuses, Numbers DEF JobRow
<1>3. t = job[j].attempts /\ t > 0
  BY DEF Submit, Fenced, Inductive, Consistent
<1>4. Consistent(row)
  BY <1>1, <1>3 DEF Consistent, JobRow
<1>5. LeaseTold(row) /\ Rewritten(job[j], row)
  BY <1>1 DEF LeaseTold, Rewritten, JobRow
<1>6. Private(row)
  BY <1>1 DEF Private, JobRow, Inductive
<1>7. held' \in [Jobs -> SUBSET (1..MaxAttempts)]
  BY DEF Submit, Inductive, TypeOK
<1>12. UNCHANGED <<granted, live, active>>
  BY DEF Submit
<1> HIDE DEF row
<1> QED
  BY <1>1, <1>2, <1>4, <1>5, <1>6, <1>7, <1>12, OneRow

LEMMA ReviewStep ==
  ASSUME Inductive, NEW p \in Principals, NEW j \in Jobs, NEW accept \in BOOLEAN,
         Review(p, j, accept)
  PROVE  Inductive'
<1> DEFINE verdict == IF accept THEN "completed" ELSE "failed"
           row == [job[j] EXCEPT !.status = verdict, !.token = 0, !.lease = 0,
                                 !.reviewer = p]
<1>1. job[j] \in JobRow /\ Exists(j) /\ job' = [job EXCEPT ![j] = row]
  BY DEF Review, Judge, Close, Inductive, TypeOK
<1>2. row \in JobRow
  <2>1. verdict \in Status /\ 0 \in 0..MaxAttempts
    BY Statuses, Numbers
  <2>2. 0 \in Int /\ p \in Principals \cup {None}
    OBVIOUS
  <2> HIDE DEF verdict
  <2> QED
    BY <1>1, <2>1, <2>2 DEF JobRow
<1>3. job[j].status \in {"awaiting_review", "quarantined"}
      /\ p # job[j].assignee
      /\ (accept => ~job[j].quarantined)
  BY DEF Review, Judge, Reviewable
<1>4. Consistent(row)
  BY <1>1, <1>3 DEF Consistent, JobRow, Inductive
<1>5. LeaseTold(row) /\ Rewritten(job[j], row)
  BY <1>1 DEF LeaseTold, Rewritten, JobRow
<1>6. Kind[job[j].scope] = "personal" => p = Owner[job[j].scope]
  BY DEF Review, Judge, Allowed, RoleOf, AtLeast, Rank, Role
<1>7. job[j].scope \in Scopes /\ job[j].scope # None
  BY <1>1, JobsAssumption DEF Inductive, TypeOK
<1>8. Private(row)
  <2>1. Kind[job[j].scope] # "personal"
    BY <1>3, <1>6, <1>7 DEF Inductive, Private
  <2> QED
    BY <1>1, <2>1 DEF Private, JobRow
<1>9. held' \in [Jobs -> SUBSET (1..MaxAttempts)]
  BY DEF Review, Inductive, TypeOK
<1>12. UNCHANGED <<granted, live, active>>
  BY DEF Review
<1> HIDE DEF row
<1> QED
  BY <1>1, <1>2, <1>4, <1>5, <1>8, <1>9, <1>12, OneRow

LEMMA CancelStep ==
  ASSUME Inductive, NEW p \in Principals, NEW j \in Jobs, Cancel(p, j)
  PROVE  Inductive'
<1> DEFINE row == [job[j] EXCEPT !.status = "cancelled", !.token = 0,
                                 !.lease = 0, !.reviewer = None]
<1>1. job[j] \in JobRow /\ Exists(j) /\ job' = [job EXCEPT ![j] = row]
  BY DEF Cancel, Close, Inductive, TypeOK
<1>2. row \in JobRow
  <2>1. "cancelled" \in Status /\ 0 \in 0..MaxAttempts
    BY Statuses, Numbers
  <2>2. 0 \in Int /\ None \in Principals \cup {None}
    OBVIOUS
  <2> QED
    BY <1>1, <2>1, <2>2 DEF JobRow
<1>3. Consistent(row) /\ Private(row)
  BY <1>1 DEF Consistent, Private, JobRow, Inductive
<1>4. LeaseTold(row) /\ Rewritten(job[j], row)
  BY <1>1 DEF LeaseTold, Rewritten, JobRow
<1>5. held' \in [Jobs -> SUBSET (1..MaxAttempts)]
  BY DEF Cancel, Inductive, TypeOK
<1>12. UNCHANGED <<granted, live, active>>
  BY DEF Cancel
<1> HIDE DEF row
<1> QED
  BY <1>1, <1>2, <1>3, <1>4, <1>5, <1>12, OneRow

LEMMA ScopeDeleteStep ==
  ASSUME Inductive, NEW p \in Principals, NEW s \in Scopes, ScopeDelete(p, s)
  PROVE  Inductive'
<1> DEFINE Gone(j) == Exists(j) /\ job[j].scope = s
<1>1. /\ \A j \in Jobs : job'[j] = IF Gone(j) THEN NoJob("erased") ELSE job[j]
      /\ DOMAIN job' = Jobs
      /\ job' = [j \in Jobs |-> job'[j]]
  BY DEF ScopeDelete
<1>2. live' = live \ {s} /\ UNCHANGED <<granted, active, held>>
  BY DEF ScopeDelete
<1>3. NoJob("erased") \in JobRow
  <2>1. "erased" \in Status /\ 0 \in 0..MaxAttempts /\ 0 \in Int
    BY Statuses, Numbers
  <2> QED
    BY <2>1 DEF JobRow, NoJob
<1>4. \A j \in Jobs : Exists(j)' => Exists(j) /\ job'[j] = job[j] /\ job[j].scope # s
  BY <1>1 DEF Exists, NoJob
<1>5. job' \in [Jobs -> JobRow]
  BY <1>1, <1>3 DEF Inductive, TypeOK
<1>6. TypeOK'
  BY <1>2, <1>4, <1>5 DEF Inductive, TypeOK
<1>7. Consistent(NoJob("erased")) /\ LeaseTold(NoJob("erased"))
      /\ Private(NoJob("erased"))
  BY DEF NoJob, Consistent, LeaseTold, Private
<1>8. \A j \in Jobs :
        Consistent(job'[j]) /\ LeaseTold(job'[j]) /\ Private(job'[j])
  BY <1>1, <1>7 DEF Inductive
<1>9. OneJobPerKey'
  BY <1>4 DEF Inductive, OneJobPerKey
<1> QED
  BY <1>6, <1>8, <1>9 DEF Inductive, Consistent, LeaseTold, Private

LEMMA ScopeMergeStep ==
  ASSUME Inductive, NEW p \in Principals, NEW s \in Scopes, NEW t \in Scopes,
         ScopeMerge(p, s, t)
  PROVE  Inductive'
<1> DEFINE Moves(j) == Exists(j) /\ job[j].scope = s
<1>1. /\ \A j \in Jobs : job'[j] = IF Moves(j) THEN [job[j] EXCEPT !.scope = t]
                                   ELSE job[j]
      /\ job' = [j \in Jobs |-> job'[j]]
  BY DEF ScopeMerge
<1>2. /\ live' = live \ {s} /\ UNCHANGED <<granted, active, held>>
      /\ t \in live /\ s # t /\ Kind[s] # "personal" /\ Kind[t] # "personal"
  BY DEF ScopeMerge, MayMergeScopes
<1>3. \A j \in Jobs : job[j] \in JobRow
  BY DEF Inductive, TypeOK
<1>4. ASSUME NEW j \in Jobs
      PROVE  /\ job'[j] \in JobRow
             /\ job'[j].status = job[j].status
             /\ job'[j].creator = job[j].creator
             /\ job'[j].assignee = job[j].assignee
             /\ job'[j].key = job[j].key
             /\ job'[j].scope = IF Moves(j) THEN t ELSE job[j].scope
             /\ Consistent(job'[j]) /\ LeaseTold(job'[j])
  <2>1. CASE Moves(j)
    <3>1. job'[j] = [job[j] EXCEPT !.scope = t]
      BY <1>1, <2>1
    <3>2. Consistent(job[j]) /\ LeaseTold(job[j])
      BY DEF Inductive
    <3> QED
      BY <1>3, <2>1, <3>1, <3>2 DEF JobRow, Consistent, LeaseTold
  <2>2. CASE ~Moves(j)
    <3>1. job'[j] = job[j]
      BY <1>1, <2>2
    <3> QED
      BY <1>3, <2>2, <3>1 DEF Inductive
  <2> QED
    BY <2>1, <2>2
<1>5. \A j \in Jobs : Exists(j)' <=> Exists(j)
  BY <1>4 DEF Exists
<1>6. TypeOK'
  BY <1>1, <1>2, <1>4, <1>5 DEF Inductive, TypeOK
<1>7. \A j \in Jobs : Private(job'[j])
  <2> TAKE j \in Jobs
  <2>1. CASE Moves(j)
    BY <1>2, <1>4, <2>1 DEF Private
  <2>2. CASE ~Moves(j)
    BY <1>1, <2>2 DEF Inductive
  <2> QED
    BY <2>1, <2>2
<1>8. OneJobPerKey'
  <2> SUFFICES ASSUME NEW i \in Jobs, NEW j \in Jobs, Exists(i), Exists(j),
                      job[i].creator = job[j].creator, job[i].key = job[j].key,
                      job'[i].scope = job'[j].scope
               PROVE  i = j
    BY <1>4, <1>5 DEF OneJobPerKey
  <2>1. CASE job[i].scope = job[j].scope
    BY <2>1 DEF Inductive, OneJobPerKey
  <2>2. CASE job[i].scope # job[j].scope
    BY <1>4, <2>2 DEF ScopeMerge, NoDuplicate
  <2> QED
    BY <2>1, <2>2
<1> QED
  BY <1>4, <1>6, <1>7, <1>8 DEF Inductive, Consistent, LeaseTold, Private

LEMMA TickStep == Inductive /\ Tick => Inductive'
<1> SUFFICES ASSUME Inductive, Tick PROVE Inductive'
  OBVIOUS
<1> DEFINE Counts(j) == job[j].status = "claimed" /\ job[j].lease > Past
           Older(j) == [job[j] EXCEPT !.lease = job[j].lease - 1,
                                      !.term = job[j].term - 1]
<1>1. /\ \A j \in Jobs : job'[j] = IF Counts(j) THEN Older(j) ELSE job[j]
      /\ job' = [j \in Jobs |-> job'[j]]
      /\ UNCHANGED <<granted, live, active, held>>
  BY DEF Tick
<1>2. ASSUME NEW j \in Jobs
      PROVE  /\ job'[j] \in JobRow
             /\ job'[j].status = job[j].status
             /\ job'[j].scope = job[j].scope
             /\ job'[j].creator = job[j].creator
             /\ job'[j].assignee = job[j].assignee
             /\ job'[j].key = job[j].key
             /\ Consistent(job'[j]) /\ LeaseTold(job'[j]) /\ Private(job'[j])
  <2>1. job[j] \in JobRow /\ job[j].lease \in Int /\ job[j].term \in Int
    BY DEF Inductive, TypeOK, JobRow
  <2>2. Consistent(job[j]) /\ LeaseTold(job[j]) /\ Private(job[j])
    BY DEF Inductive
  <2>3. CASE Counts(j)
    <3>1. job'[j] = Older(j)
      BY <1>1, <2>3
    <3>2. Older(j) \in JobRow
      <4>1. job[j].lease - 1 \in Int /\ job[j].term - 1 \in Int
        BY <2>1
      <4> QED
        BY <2>1, <4>1 DEF JobRow
    <3>3. Consistent(Older(j))
      BY <2>1, <2>2 DEF JobRow, Consistent
    <3>4. Private(Older(j))
      BY <2>1, <2>2 DEF JobRow, Private
    <3>5. LeaseTold(Older(j))
      <4>1. PICK o \in Offsets : job[j].lease = job[j].term + o
        BY <2>2, <2>3 DEF LeaseTold
      <4>2. /\ Older(j).lease = job[j].lease - 1
            /\ Older(j).term = job[j].term - 1
        BY <2>1 DEF JobRow
      <4>3. Older(j).lease = Older(j).term + o
        BY <2>1, <4>1, <4>2, JobsAssumption
      <4> QED
        BY <4>3 DEF LeaseTold
    <3> QED
      BY <2>1, <3>1, <3>2, <3>3, <3>4, <3>5 DEF JobRow
  <2>4. CASE ~Counts(j)
    BY <1>1, <2>1, <2>2, <2>4
  <2> QED
    BY <2>3, <2>4
<1>3. \A j \in Jobs : Exists(j)' <=> Exists(j)
  BY <1>2 DEF Exists
<1>4. TypeOK'
  BY <1>1, <1>2, <1>3 DEF Inductive, TypeOK
<1>5. OneJobPerKey'
  BY <1>2, <1>3 DEF Inductive, OneJobPerKey
<1> QED
  BY <1>2, <1>4, <1>5 DEF Inductive, Consistent, LeaseTold, Private

LEMMA NextInductive == Inductive /\ [Next]_vars => Inductive'
<1> SUFFICES ASSUME Inductive, [Next]_vars PROVE Inductive'
  OBVIOUS
<1>1. CASE UNCHANGED vars
  BY <1>1 DEF vars, Inductive, TypeOK, OneJobPerKey, Exists, Consistent,
     LeaseTold, Private
<1>2. ASSUME NEW j \in Jobs,
             ClaimAny(j) \/ RenewAny(j) \/ SubmitAny(j) \/ ReviewAny(j)
      PROVE  Inductive'
  BY <1>2, ClaimStep, RenewStep, SubmitStep, ReviewStep
     DEF ClaimAny, RenewAny, SubmitAny, ReviewAny
<1>3. CASE Next
  BY <1>2, <1>3, RegrantStep, RevokeStep, CreateStep, CancelStep,
     ScopeDeleteStep, ScopeMergeStep, TickStep DEF Next
<1> QED
  BY <1>1, <1>3

THEOREM InvariantHolds == Spec => []Inductive
  BY InitInductive, NextInductive, PTL DEF Spec

\* Every variable of the jobs has its type, and jobs refer to live scopes.
THEOREM TypeCorrect == Spec => []TypeOK
<1>1. Inductive => TypeOK
  BY DEF Inductive
<1> QED
  BY <1>1, InvariantHolds, PTL

\* Only the holder of the latest claim ever delivers a result.
THEOREM LatestClaimDelivers == Spec => []ResultFromLatestClaim
<1>1. Inductive => ResultFromLatestClaim
  BY DEF Inductive, Consistent, ResultFromLatestClaim
<1> QED
  BY <1>1, InvariantHolds, PTL

\* No assignee passes its own job, and no quarantined result is completed.
THEOREM VerdictsAreIndependent == Spec => []IndependentVerdict
<1>1. Inductive => IndependentVerdict
  <2> SUFFICES ASSUME Inductive, NEW j \in Jobs,
                      job[j].status \in {"completed", "failed"}
               PROVE  /\ job[j].reviewer \in Principals \ {job[j].assignee}
                      /\ Kind[job[j].scope] # "personal"
                      /\ job[j].status = "completed" => ~job[j].quarantined
    BY DEF IndependentVerdict
  <2>1. job[j].scope \in Scopes /\ job[j].scope # None
    BY JobsAssumption DEF Inductive, TypeOK, Exists
  <2> QED
    BY <2>1 DEF Inductive, Consistent, Private
<1> QED
  BY <1>1, InvariantHolds, PTL

\* Idempotency keys name at most one job, whatever was merged or retried.
THEOREM KeysAreUnique == Spec => []OneJobPerKey
<1>1. Inductive => OneJobPerKey
  BY DEF Inductive
<1> QED
  BY <1>1, InvariantHolds, PTL

\* What a step may do to the row of one job.
LEMMA RowStep ==
  ASSUME Inductive, Next, NEW j \in Jobs
  PROVE  \/ job'[j] = NoJob("erased")
         \/ \E s \in Scopes : job'[j] = [job[j] EXCEPT !.scope = s]
         \/ ~Exists(j)
         \/ Tick /\ job[j].status = "claimed"
         \/ ClaimAny(j) \/ RenewAny(j) \/ SubmitAny(j) \/ ReviewAny(j)
         \/ \E p \in Principals : Cancel(p, j)
<1>1. job[j] = [job[j] EXCEPT !.scope = job[j].scope]
      /\ (Exists(j) => job[j].scope \in Scopes)
  BY DEF Inductive, TypeOK, JobRow
<1>2. ASSUME NEW x \in Jobs, x # j,
             ClaimAny(x) \/ RenewAny(x) \/ SubmitAny(x) \/ ReviewAny(x)
      PROVE  job'[j] = job[j]
  BY <1>2 DEF ClaimAny, RenewAny, SubmitAny, ReviewAny, Claim, Renew, Submit,
     Review, Close, Inductive, TypeOK
<1>3. ASSUME NEW x \in Jobs, x # j, NEW p \in Principals, Cancel(p, x)
      PROVE  job'[j] = job[j]
  BY <1>3 DEF Cancel, Close, Inductive, TypeOK
<1>4. ASSUME NEW x \in Jobs, NEW p \in Principals, NEW a \in Principals,
             NEW s \in Scopes, NEW key \in IdemKeys, NEW q \in BOOLEAN,
             Create(p, s, a, key, x, q)
      PROVE  ~Exists(j) \/ job'[j] = job[j]
  BY <1>4 DEF Create, Exists, Inductive, TypeOK
<1>5. ASSUME NEW p \in Principals, NEW s \in Scopes, ScopeDelete(p, s)
      PROVE  job'[j] = NoJob("erased") \/ job'[j] = job[j]
  BY <1>5 DEF ScopeDelete
<1>6. ASSUME NEW p \in Principals, NEW s \in Scopes, NEW t \in Scopes,
             ScopeMerge(p, s, t)
      PROVE  (\E scope \in Scopes : job'[j] = [job[j] EXCEPT !.scope = scope])
             \/ job'[j] = job[j]
  BY <1>6 DEF ScopeMerge
<1>7. ASSUME Tick
      PROVE  job[j].status = "claimed" \/ job'[j] = job[j]
  BY <1>7 DEF Tick
<1>8. ASSUME NEW p \in Principals, NEW s \in Scopes, NEW role \in GrantedRoles,
              Regrant(p, s, role)
       PROVE  UNCHANGED job
  BY <1>8 DEF Regrant
<1>9. ASSUME NEW x \in Jobs,
              ClaimAny(x) \/ RenewAny(x) \/ SubmitAny(x) \/ ReviewAny(x)
       PROVE  \/ job'[j] = job[j]
              \/ ClaimAny(j) \/ RenewAny(j) \/ SubmitAny(j) \/ ReviewAny(j)
  BY <1>2, <1>9
<1>10. ASSUME NEW p \in Principals, Revoke(p)
       PROVE  UNCHANGED job
  BY <1>10 DEF Revoke
<1>11. ASSUME ~Exists(j) \/ job'[j] = job[j]
       PROVE  ~Exists(j) \/ \E s \in Scopes : job'[j] = [job[j] EXCEPT !.scope = s]
  BY <1>1, <1>11
<1> QED
  BY <1>3, <1>4, <1>5, <1>6, <1>7, <1>8, <1>9, <1>10, <1>11 DEF Next

LEMMA OutcomeStep ==
  ASSUME Inductive, [Next]_vars, NEW j \in Jobs, job'[j].status # "erased"
  PROVE  /\ job[j].result # 0 =>
              /\ job'[j].result = job[j].result
              /\ job'[j].quarantined = job[j].quarantined
              /\ job'[j].status # "claimed"
         /\ job[j].status \in Terminal =>
              [job'[j] EXCEPT !.scope = job[j].scope] = job[j]
<1>1. job[j] \in JobRow /\ Consistent(job[j])
  BY DEF Inductive, TypeOK
<1>2. CASE job[j].status \in {"unused", "erased", "queued", "claimed"}
  BY <1>1, <1>2 DEF Consistent
<1>3. CASE \E s \in Scopes : job'[j] = [job[j] EXCEPT !.scope = s]
  <2>1. job[j].result # 0 => job[j].status # "claimed"
    BY <1>1 DEF Consistent
  <2> QED
    BY <1>1, <1>3, <2>1 DEF JobRow
<1>4. ASSUME NEW p \in Principals, NEW accept \in BOOLEAN, Review(p, j, accept)
      PROVE  /\ job[j].status \notin Terminal
             /\ job'[j].result = job[j].result
             /\ job'[j].quarantined = job[j].quarantined
             /\ job'[j].status # "claimed"
  BY <1>1, <1>4 DEF Review, Reviewable, Close, Inductive, TypeOK, JobRow
<1>5. ASSUME NEW p \in Principals, Cancel(p, j)
      PROVE  /\ job[j].status \notin Terminal
             /\ job'[j].result = job[j].result
             /\ job'[j].quarantined = job[j].quarantined
             /\ job'[j].status # "claimed"
  BY <1>1, <1>5 DEF Cancel, Close, Inductive, TypeOK, JobRow
<1>6. ClaimAny(j) \/ RenewAny(j) \/ SubmitAny(j) =>
        job[j].status \in {"queued", "claimed"}
  BY DEF ClaimAny, RenewAny, SubmitAny, Claim, Claimable, Renew, Submit, Fenced
<1>7. CASE UNCHANGED vars
  <2>1. job[j] = [job[j] EXCEPT !.scope = job[j].scope]
    BY <1>1 DEF JobRow
  <2>2. job[j].result # 0 => job[j].status # "claimed"
    BY <1>1 DEF Consistent
  <2> QED
    BY <1>7, <2>1, <2>2 DEF vars
<1>8. CASE Next
  BY <1>2, <1>3, <1>4, <1>5, <1>6, <1>8, RowStep DEF Exists, ReviewAny, NoJob
<1> QED
  BY <1>7, <1>8

\* Results and terminal jobs are never touched again, by whatever late,
\* repeated or concurrent call.
THEOREM OutcomesAreFinal == Spec => OutcomeFinal
<1>1. Inductive /\ [Next]_vars =>
        [\A j \in Jobs :
           \/ job'[j].status = "erased"
           \/ /\ job[j].result # 0 =>
                   /\ job'[j].result = job[j].result
                   /\ job'[j].quarantined = job[j].quarantined
                   /\ job'[j].status # "claimed"
              /\ job[j].status \in Terminal =>
                   [job'[j] EXCEPT !.scope = job[j].scope] = job[j]]_vars
  BY OutcomeStep
<1> QED
  BY <1>1, InvariantHolds, PTL DEF Spec, OutcomeFinal

LEMMA LeaseStep ==
  ASSUME Inductive, [Next]_vars, NEW j \in Jobs, job[j].status = "claimed"
  PROVE  /\ job'[j].attempts > job[j].attempts =>
              \E skew \in Skews : job[j].term < skew
         /\ job'[j].result # job[j].result /\ job'[j].status # "erased" =>
              \E skew \in Skews : job[j].term >= skew
<1>1. job[j] \in JobRow /\ job[j].attempts \in Nat /\ job[j].term \in Int
  BY JobsAssumption DEF Inductive, TypeOK, JobRow
<1>2. PICK told \in Offsets : job[j].lease = job[j].term + told
  BY DEF Inductive, LeaseTold
<1>3. \A o \in Offsets : o - told \in Skews /\ o \in Int /\ told \in Int
  BY JobsAssumption DEF Skews
<1>4. ASSUME ClaimAny(j)
      PROVE  /\ job'[j].result = job[j].result
             /\ \E skew \in Skews : job[j].term < skew
  <2>1. PICK p \in Principals, length \in Lengths, o \in Offsets, d \in BOOLEAN :
               Claim(p, j, length, o, d)
    BY <1>4 DEF ClaimAny
  <2>2. job'[j].result = job[j].result
    BY <1>1, <2>1 DEF Claim, Inductive, TypeOK, JobRow
  <2>3. job[j].lease < o
    BY <2>1 DEF Claim, Claimable, Expired
  <2>4. job[j].term < o - told
    BY <1>1, <1>2, <1>3, <2>3
  <2> QED
    BY <1>3, <2>2, <2>4
<1>5. ASSUME SubmitAny(j)
      PROVE  /\ job'[j].attempts = job[j].attempts
             /\ \E skew \in Skews : job[j].term >= skew
  <2>1. PICK p \in Principals, t \in 1..MaxAttempts, o \in Offsets, q \in BOOLEAN :
               Submit(p, j, t, o, q)
    BY <1>5 DEF SubmitAny
  <2>2. job'[j].attempts = job[j].attempts
    BY <1>1, <2>1 DEF Submit, Inductive, TypeOK, JobRow
  <2>3. ~(job[j].lease < o)
    BY <2>1 DEF Submit, Fenced, Expired
  <2>4. job[j].term >= o - told
    BY <1>1, <1>2, <1>3, <2>3
  <2> QED
    BY <1>3, <2>2, <2>4
<1>6. ASSUME \/ UNCHANGED vars
             \/ \E s \in Scopes : job'[j] = [job[j] EXCEPT !.scope = s]
             \/ Tick \/ RenewAny(j) \/ ReviewAny(j)
             \/ \E p \in Principals : Cancel(p, j)
      PROVE  job'[j].attempts = job[j].attempts /\ job'[j].result = job[j].result
  <2>1. CASE UNCHANGED vars
    BY <2>1 DEF vars
  <2>2. CASE \E s \in Scopes : job'[j] = [job[j] EXCEPT !.scope = s]
    BY <1>1, <2>2 DEF JobRow
  <2>3. CASE Tick
    BY <1>1, <2>3 DEF Tick, JobRow
  <2>4. CASE RenewAny(j)
    BY <1>1, <2>4 DEF RenewAny, Renew, Inductive, TypeOK, JobRow
  <2>5. CASE ReviewAny(j)
    BY <1>1, <2>5 DEF ReviewAny, Review, Close, Inductive, TypeOK, JobRow
  <2>6. CASE \E p \in Principals : Cancel(p, j)
    BY <1>1, <2>6 DEF Cancel, Close, Inductive, TypeOK, JobRow
  <2> QED
    BY <1>6, <2>1, <2>2, <2>3, <2>4, <2>5, <2>6
<1>7. CASE job'[j] = NoJob("erased")
  BY <1>1, <1>7 DEF NoJob
<1>8. CASE Next
  BY <1>1, <1>4, <1>5, <1>6, <1>7, <1>8, RowStep DEF Exists
<1>9. CASE UNCHANGED vars
  BY <1>1, <1>6, <1>9
<1> QED
  BY <1>7, <1>8, <1>9

\* Nobody loses a claim before the lease it was granted is over, and nobody
\* delivers after it, by more than two clocks differ.
THEOREM LeasesAreHonoured == Spec => LeaseHonoured
<1>1. Inductive /\ [Next]_vars =>
        [\A j \in Jobs :
           job[j].status = "claimed" =>
              /\ job'[j].attempts > job[j].attempts =>
                    \E skew \in Skews : job[j].term < skew
              /\ job'[j].result # job[j].result /\ job'[j].status # "erased" =>
                    \E skew \in Skews : job[j].term >= skew]_vars
  BY LeaseStep
<1> QED
  BY <1>1, InvariantHolds, PTL DEF Spec, LeaseHonoured

\* A row without a job stays what it is until a job is created in it.
LEMMA BlankStep ==
  ASSUME Inductive, Next, NEW j \in Jobs, ~Exists(j)
  PROVE  \/ job'[j] = job[j]
         \/ job[j].status = "unused" /\ job'[j].status \in {"queued", "quarantined"}
<1>1. job \in [Jobs -> JobRow]
  BY DEF Inductive, TypeOK
<1>2. ASSUME NEW x \in Jobs, Exists(x), NEW row, job' = [job EXCEPT ![x] = row]
      PROVE  job'[j] = job[j]
  BY <1>1, <1>2
<1>3. ASSUME NEW x \in Jobs, ClaimAny(x) \/ RenewAny(x) \/ SubmitAny(x) \/ ReviewAny(x)
      PROVE  job'[j] = job[j]
  BY <1>2, <1>3 DEF ClaimAny, RenewAny, SubmitAny, ReviewAny, Claim, Renew, Submit,
     Review, Close, Worker, Fenced, Judge
<1>4. ASSUME NEW x \in Jobs, NEW p \in Principals, Cancel(p, x)
      PROVE  job'[j] = job[j]
  BY <1>2, <1>4 DEF Cancel, Close
<1>5. ASSUME NEW x \in Jobs, NEW p \in Principals, NEW a \in Principals,
             NEW s \in Scopes, NEW key \in IdemKeys, NEW q \in BOOLEAN,
             Create(p, s, a, key, x, q)
      PROVE  \/ job'[j] = job[j]
             \/ job[j].status = "unused" /\ job'[j].status \in {"queued", "quarantined"}
  <2> DEFINE blank == NoJob(IF q THEN "quarantined" ELSE "queued")
             row == [blank EXCEPT !.scope = s, !.creator = p, !.assignee = a,
                                  !.key = key, !.quarantined = q]
  <2>1. job' = [job EXCEPT ![x] = row] /\ job[x].status = "unused"
    BY <1>5 DEF Create
  <2>2. row.status \in {"queued", "quarantined"}
    BY DEF NoJob
  <2> HIDE DEF row
  <2>3. CASE x = j
    BY <1>1, <2>1, <2>2, <2>3
  <2>4. CASE x # j
    BY <1>1, <2>1, <2>4
  <2> QED
    BY <2>3, <2>4
<1>6. ASSUME NEW p \in Principals, NEW s \in Scopes, ScopeDelete(p, s)
      PROVE  job'[j] = job[j]
  BY <1>6 DEF ScopeDelete
<1>7. ASSUME NEW p \in Principals, NEW s \in Scopes, NEW t \in Scopes, ScopeMerge(p, s, t)
      PROVE  job'[j] = job[j]
  BY <1>7 DEF ScopeMerge
<1>8. ASSUME Tick
      PROVE  job'[j] = job[j]
  BY <1>8 DEF Tick, Exists
<1>9. ASSUME NEW p \in Principals, NEW s \in Scopes, NEW role \in GrantedRoles,
             Regrant(p, s, role)
      PROVE  UNCHANGED job
  BY <1>9 DEF Regrant
<1>10. ASSUME NEW p \in Principals, Revoke(p)
       PROVE  UNCHANGED job
  BY <1>10 DEF Revoke
<1> QED
  BY <1>3, <1>4, <1>5, <1>6, <1>7, <1>8, <1>9, <1>10 DEF Next

Order == [unused |-> 0, queued |-> 1, claimed |-> 2, quarantined |-> 3, awaiting_review |-> 3,
          completed |-> 4, failed |-> 4, cancelled |-> 4, erased |-> 5]

LEMMA Orders ==
  /\ Order["unused"] = 0 /\ Order["queued"] = 1 /\ Order["claimed"] = 2
  /\ Order["quarantined"] = 3 /\ Order["awaiting_review"] = 3
  /\ Order["completed"] = 4 /\ Order["failed"] = 4 /\ Order["cancelled"] = 4
  /\ Order["erased"] = 5
  BY DEF Order

\* An operation that ends a job, or takes it to its review, takes it forward.
LEMMA Advances ==
  ASSUME NEW j \in Jobs,
         \/ /\ job[j].status \in {"unused", "queued", "claimed"} \cup Reviewing
            /\ job'[j].status \in Terminal
         \/ /\ job[j].status \in {"unused", "queued", "claimed"}
            /\ job'[j].status \in Reviewing
         \/ job[j].status = "unused" /\ job'[j].status = "queued"
         \/ job[j].status = "queued" /\ job'[j].status = "claimed"
         \/ job[j].status \in Status \ {"erased"} /\ job'[j].status = "erased"
  PROVE  Stage(j)' > Stage(j)
<1>1. Stage(j) = Order[job[j].status] /\ Stage(j)' = Order[job'[j].status]
  BY DEF Stage, Order
<1> QED
  BY <1>1, Orders DEF Status

Forward(j) ==
    \/ Stage(j)' > Stage(j)
    \/ /\ job'[j].status = job[j].status
       /\ \/ job'[j].attempts = job[j].attempts
          \/ job[j].status = "claimed" /\ job'[j].attempts = job[j].attempts + 1

LEMMA ForwardStep ==
  ASSUME Inductive, [Next]_vars, NEW j \in Jobs
  PROVE  Forward(j)
<1>1. job \in [Jobs -> JobRow] /\ job[j] \in JobRow /\ job[j].status \in Status
  BY DEF Inductive, TypeOK, JobRow
<1>2. ASSUME job'[j] = job[j]
      PROVE  Forward(j)
  BY <1>2 DEF Forward
<1>3. CASE UNCHANGED vars
  BY <1>2, <1>3 DEF vars
<1>4. CASE Next /\ ~Exists(j)
  <2>1. \/ job'[j] = job[j]
        \/ job[j].status = "unused" /\ job'[j].status \in {"queued", "quarantined"}
    BY <1>4, BlankStep
  <2> QED
    BY <1>2, <2>1, Advances DEF Forward
<1>5. CASE Next /\ Exists(j)
  <2>1. ASSUME job'[j] = NoJob("erased")
        PROVE  Forward(j)
    <3>1. job'[j].status = "erased"
      BY <2>1 DEF NoJob
    <3>2. job[j].status \in Status \ {"erased"}
      BY <1>1, <1>5 DEF Exists
    <3> QED
      BY <3>1, <3>2, Advances DEF Forward
  <2>2. ASSUME NEW s \in Scopes, job'[j] = [job[j] EXCEPT !.scope = s]
        PROVE  Forward(j)
    BY <1>1, <2>2 DEF Forward, JobRow
  <2>3. ASSUME Tick
        PROVE  Forward(j)
    BY <1>1, <2>3 DEF Tick, Forward, JobRow
  <2>4. ASSUME ClaimAny(j)
        PROVE  Forward(j)
    <3>1. /\ job[j].status \in {"queued", "claimed"}
          /\ job'[j].status = "claimed" /\ job'[j].attempts = job[j].attempts + 1
      BY <1>1, <2>4 DEF ClaimAny, Claim, Claimable, JobRow
    <3> QED
      BY <3>1, Advances DEF Forward
  <2>5. ASSUME RenewAny(j)
        PROVE  Forward(j)
    BY <1>1, <2>5 DEF RenewAny, Renew, Forward, JobRow
  <2>6. ASSUME SubmitAny(j)
        PROVE  Forward(j)
    <3>1. job[j].status = "claimed" /\ job'[j].status \in Reviewing
      BY <1>1, <2>6 DEF SubmitAny, Submit, Fenced, JobRow
    <3> QED
      BY <3>1, Advances DEF Forward
  <2>7. ASSUME ReviewAny(j)
        PROVE  Forward(j)
    <3>1. job[j].status \in Reviewing /\ job'[j].status \in Terminal
      BY <1>1, <2>7 DEF ReviewAny, Review, Reviewable, Close, JobRow
    <3> QED
      BY <3>1, Advances DEF Forward
  <2>8. ASSUME NEW p \in Principals, Cancel(p, j)
        PROVE  Forward(j)
    <3>1. /\ job[j].status \in {"queued", "claimed"} \cup Reviewing
          /\ job'[j].status \in Terminal
      BY <1>1, <2>8 DEF Cancel, Close, Exists, JobRow, Status
    <3> QED
      BY <3>1, Advances DEF Forward
  <2> QED
    BY <1>5, <2>1, <2>2, <2>3, <2>4, <2>5, <2>6, <2>7, <2>8, RowStep
<1> QED
  BY <1>3, <1>4, <1>5

\* Jobs move forward only, and what keeps one where it is - a claim that replaces
\* an expired one - uses up its attempts.
THEOREM JobsMoveForward == Spec => OnlyForward
<1>1. Inductive /\ [Next]_vars =>
        [\A j \in Jobs :
           \/ Stage(j)' > Stage(j)
           \/ /\ job'[j].status = job[j].status
              /\ \/ job'[j].attempts = job[j].attempts
                 \/ job[j].status = "claimed" /\ job'[j].attempts = job[j].attempts + 1]_vars
  BY ForwardStep DEF Forward
<1> QED
  BY <1>1, InvariantHolds, PTL DEF Spec, OnlyForward
=============================================================================
