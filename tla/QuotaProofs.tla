---------------------------- MODULE QuotaProofs ----------------------------
(***************************************************************************)
(* Theorems about Quota.  The inductive invariant says of each transaction *)
(* what its locks protect: from the lock on the usage row to the commit,   *)
(* the counter to be written follows the stored bytes and what was checked *)
(* still holds; before, what was counted for a new usage row is still what *)
(* is stored, as long as nobody has committed one.                         *)
(***************************************************************************)
EXTENDS Quota, FiniteSetTheorems, SetTheorems, TLAPS

Transaction ==
    [op : Operations \cup {"none"}, held : SUBSET Locks, n : Nat,
     row : Rows \cup {None}, seen : Nat \cup {None},
     next : Nat \cup {None}, plan : Plans \cup {None}]

Stored == IF used = None THEN payload ELSE used

\* The counter that t writes belongs to what is stored when it commits.
Counted(t) ==
    /\ t.op \in Deleting => t.next = payload - t.n
    /\ t.op = "recalculate" => t.next = payload
    /\ t.op \in Charging => t.next = Stored + t.n
    /\ t.op = "admit" => t.next = Stored

\* What was checked for t holds as long as it has the lock.
Fitted(t) ==
    /\ t.op \in Charging => Within(t.next, Limits[t.plan]["bytes"])
    /\ t.op = "admit" => Within(Cardinality(Active(Kind[t.row])) + 1,
                                Limits[t.plan][Kind[t.row]])

\* Holding the usage row, which comes last but for the key share.
Charged(t) ==
    /\ t.next \in Nat /\ t.plan \in Plans
    /\ t.op \in Charging \cup Recounting \cup {"admit"}
    /\ Needs[t.op][enabled] \ t.held \subseteq {"share"}
    /\ enabled \/ t.op = "recalculate"
    /\ enabled => Counted(t) /\ Fitted(t)

Sound(t) ==
    /\ t \in Transaction
    /\ t.op = "admit" => t.row \in Rows /\ state[t.row] = "absent" /\ t.n = 0
    /\ t.op # "admit" => t.row = None
    /\ t.op \in Deleting => t.n <= payload /\ (t.n # 0 => "org" \in t.held)
    /\ enabled /\ used = None /\ t.seen # None /\ t.op \notin Deleting =>
          t.seen = payload
    /\ "usage" \in t.held => Charged(t)

Typed ==
    /\ plan \in Plans /\ enabled \in BOOLEAN
    /\ state \in [Rows -> {"absent", "active", "revoked"}]
    /\ payload \in Nat /\ used \in Nat \cup {None}
    /\ tx \in [Replicas -> Transaction]

Apart(t, u) == t.held \cap u.held = {} /\ (t.row = u.row => t.row = None)

Exclusive == \A q, r \in Replicas : q # r => Apart(tx[q], tx[r])

Inductive == Typed /\ Exclusive /\ \A r \in Replicas : Sound(tx[r])

-----------------------------------------------------------------------------
(* Facts about the constants.                                              *)

LEMMA NoneApart == \A x \in Nat \cup Rows : x # None
  <1>1. None \notin Int /\ Rows \subseteq Nat  BY QuotaAssumption
  <1>2. \A x \in Nat : x \in Int  OBVIOUS
  <1> QED  BY <1>1, <1>2, Zenon

LEMMA IdleIsSound == ASSUME payload \in Nat PROVE Sound(Idle)
  BY QuotaAssumption DEF Sound, Idle, Begun, Transaction, Deleting

LEMMA LocksNeeded ==
  ASSUME NEW op \in Operations \cup {"none"}, NEW e \in BOOLEAN
  PROVE  /\ Needs[op][e] \subseteq Locks
         /\ "usage" \in Needs[op][e] <=>
               \/ e /\ op \in Charging \cup Deleting \cup {"admit"}
               \/ op = "recalculate"
         /\ op \in Deleting => "org" \in Needs[op][e]
  BY DEF Needs, Locks, Deleting, Charging

LEMMA EarlierLocks ==
  {"org", "job", "principal"} \subseteq Earlier["usage"]
  <1>1. /\ Order[1] = "org" /\ Order[2] = "job" /\ Order[3] = "principal"
        /\ Order[4] = "usage"
    BY DEF Order
  <1>2. Earlier["usage"] = {m \in Locks : \E i, j \in 1 .. 5 :
                               i < j /\ m = Order[i] /\ "usage" = Order[j]}
    BY DEF Earlier, Locks
  <1>3. \A i \in {1, 2, 3} : Order[i] \in Earlier["usage"]
    BY <1>1, <1>2 DEF Locks
  <1> QED  BY <1>1, <1>3

LEMMA ActiveFinite ==
  \A k : Active(k) \subseteq Rows /\ IsFiniteSet(Active(k))
               /\ Cardinality(Active(k)) \in Nat
  <1>1. TAKE k
  <1>2. Active(k) \subseteq Rows  BY DEF Active, ActiveIn
  <1>3. IsFiniteSet(Active(k))  BY <1>2, FS_Subset, QuotaAssumption
  <1> QED  BY <1>2, <1>3, FS_CardinalityType

\* Whoever waits for the usage row has every lock but the key share.
LEMMA UsageLast ==
  ASSUME Typed, NEW r \in Replicas, Waits(r, "usage")
  PROVE  /\ Missing(r) \subseteq {"usage", "share"}
         /\ tx[r].op \in Charging \cup Recounting \cup {"admit"}
         /\ enabled \/ tx[r].op = "recalculate"
  <1>1. tx[r].op \in Operations \cup {"none"} /\ enabled \in BOOLEAN
    BY DEF Typed, Transaction
  <1>2. Missing(r) \subseteq Locks /\ "usage" \in Needs[tx[r].op][enabled]
    BY <1>1, LocksNeeded DEF Missing, Waits
  <1>3. Missing(r) \subseteq {"usage", "share"}
    BY <1>2, EarlierLocks DEF Waits, Locks
  <1> QED  BY <1>1, <1>2, <1>3, LocksNeeded DEF Recounting

\* Nobody else holds a lock that is taken.
LEMMA TakenAlone ==
  ASSUME NEW r \in Replicas, NEW l \in Locks \ {"share"}, Waits(r, l), ~Blocked(r),
         NEW q \in Replicas, q # r
  PROVE  l \notin tx[q].held
  BY DEF Blocked, Blocks, Row

\* Whoever may commit holds what it needs.
LEMMA CommitHolds ==
  ASSUME Inductive, NEW r \in Replicas, Commit(r)
  PROVE  /\ enabled /\ tx[r].op \in Charging \cup Recounting \cup {"admit"} =>
               "usage" \in tx[r].held
         /\ tx[r].op \in Deleting => "org" \in tx[r].held
  <1>1. tx[r].op \in Operations \cup {"none"} /\ enabled \in BOOLEAN
    BY DEF Inductive, Typed, Transaction
  <1>2. \A l \in Needs[tx[r].op][enabled] : l # "share" => l \in tx[r].held
    BY DEF Commit, Missing
  <1> QED  BY <1>1, <1>2, LocksNeeded DEF Recounting

-----------------------------------------------------------------------------
(* The invariant is kept.                                                  *)

LEMMA InitInductive == ASSUME Init PROVE Inductive
  <1>1. payload \in Nat  BY QuotaAssumption DEF Init
  <1>2. Sound(Idle)  BY <1>1, IdleIsSound
  <1>3. Idle \in Transaction  BY <1>2 DEF Sound
  <1>4. Typed  BY <1>1, <1>3, QuotaAssumption DEF Init, Typed
  <1>5. Apart(Idle, Idle)  BY DEF Apart, Idle, Begun
  <1> QED  BY <1>2, <1>4, <1>5 DEF Init, Inductive, Exclusive

\* A step of one transaction that leaves everything else alone.
LEMMA Local ==
  ASSUME Inductive, NEW r \in Replicas, NEW t, Sound(t),
         \A q \in Replicas : q # r => Apart(t, tx[q]),
         tx' = [tx EXCEPT ![r] = t],
         UNCHANGED <<plan, enabled, state, payload, used>>
  PROVE  Inductive'
  <1>1. t \in Transaction  BY DEF Sound
  <1>2. tx'[r] = t /\ \A q \in Replicas : q # r => tx'[q] = tx[q]
    BY DEF Inductive, Typed
  <1>3. Typed'  BY <1>1 DEF Inductive, Typed
  <1>4. Exclusive'
    <2>1. \A q, s : Apart(q, s) => Apart(s, q)  BY DEF Apart
    <2>2. \A q, s \in Replicas : q # s => Apart(tx'[q], tx'[s])
      BY <1>2, <2>1 DEF Inductive, Exclusive
    <2>3. Exclusive' <=> \A q, s \in Replicas : q # s => Apart(tx'[q], tx'[s])
      BY DEF Exclusive, Apart
    <2> QED  BY <2>2, <2>3
  <1>5. \A q \in Replicas : Sound(tx'[q])
    BY <1>2 DEF Inductive
  <1>6. \A q \in Replicas : Sound(tx[q])' <=> Sound(tx'[q])
    BY DEF Sound, Charged, Counted, Fitted, Stored, Needs, Active, ActiveIn
  <1> QED  BY <1>3, <1>4, <1>5, <1>6 DEF Inductive

LEMMA StartStep ==
  ASSUME Inductive, NEW r \in Replicas, NEW op \in Operations,
         NEW n \in Nat, NEW i \in Rows \cup {None},
         op \in Deleting \cup {"admit"} => n = 0,
         op = "admit" => i \in Rows /\ state[i] = "absent",
         op # "admit" => i = None,
         i # None => \A q \in Replicas : tx[q].row # i,
         Start(r, op, n, i)
  PROVE  Inductive'
  <1> DEFINE t == Begun(op, n, i)
  <1>1. t \in Transaction  BY DEF Begun, Transaction
  <1>2. t.op = op /\ t.held = {} /\ t.n = n /\ t.row = i /\ t.seen = None
    BY DEF Begun
  <1>3. payload \in Nat  BY DEF Inductive, Typed
  <1> HIDE DEF t
  <1>4. Sound(t)  BY <1>1, <1>2, <1>3 DEF Sound
  <1>5. \A q \in Replicas : q # r => Apart(t, tx[q])
    BY <1>2 DEF Apart
  <1> QED  BY <1>4, <1>5, Local DEF Start, t

LEMMA RollBackStep ==
  ASSUME Inductive, NEW r \in Replicas, RollBack(r)
  PROVE  Inductive'
  <1>1. Sound(Idle)  BY IdleIsSound DEF Inductive, Typed
  <1>2. \A q \in Replicas : Apart(Idle, tx[q])  BY DEF Apart, Idle, Begun
  <1> QED  BY <1>1, <1>2, Local DEF RollBack

\* Updates of one field of a transaction.
LEMMA SetHeld ==
  ASSUME NEW t \in Transaction, NEW v \in SUBSET Locks
  PROVE  LET u == [t EXCEPT !.held = v]
         IN  /\ u \in Transaction /\ u.held = v
             /\ u.op = t.op /\ u.n = t.n /\ u.row = t.row /\ u.seen = t.seen /\ u.next = t.next /\ u.plan = t.plan
  BY Zenon DEF Transaction

LEMMA SetN ==
  ASSUME NEW t \in Transaction, NEW v \in Nat
  PROVE  LET u == [t EXCEPT !.n = v]
         IN  /\ u \in Transaction /\ u.n = v
             /\ u.op = t.op /\ u.held = t.held /\ u.row = t.row /\ u.seen = t.seen /\ u.next = t.next /\ u.plan = t.plan
  BY Zenon DEF Transaction

LEMMA SetSeen ==
  ASSUME NEW t \in Transaction, NEW v \in Nat \cup {None}
  PROVE  LET u == [t EXCEPT !.seen = v]
         IN  /\ u \in Transaction /\ u.seen = v
             /\ u.op = t.op /\ u.held = t.held /\ u.n = t.n /\ u.row = t.row /\ u.next = t.next /\ u.plan = t.plan
  BY Zenon DEF Transaction

LEMMA SetNext ==
  ASSUME NEW t \in Transaction, NEW v \in Nat \cup {None}
  PROVE  LET u == [t EXCEPT !.next = v]
         IN  /\ u \in Transaction /\ u.next = v
             /\ u.op = t.op /\ u.held = t.held /\ u.n = t.n /\ u.row = t.row /\ u.seen = t.seen /\ u.plan = t.plan
  BY Zenon DEF Transaction

LEMMA SetPlan ==
  ASSUME NEW t \in Transaction, NEW v \in Plans \cup {None}
  PROVE  LET u == [t EXCEPT !.plan = v]
         IN  /\ u \in Transaction /\ u.plan = v
             /\ u.op = t.op /\ u.held = t.held /\ u.n = t.n /\ u.row = t.row /\ u.seen = t.seen /\ u.next = t.next
  BY Zenon DEF Transaction

\* What the steps of a transaction make of its record.
LEMMA TakeLockEffect ==
  ASSUME Typed, NEW r \in Replicas, NEW l, NEW n, TakeLock(r, l, n)
  PROVE  \E t \in Transaction :
            /\ tx' = [tx EXCEPT ![r] = t]
            /\ t.held = tx[r].held \cup {l} /\ t.n = n
            /\ t.op = tx[r].op /\ t.row = tx[r].row /\ t.seen = tx[r].seen
  <1> DEFINE h == tx[r].held \cup {l}
             u == [tx[r] EXCEPT !.held = h]
             t == [u EXCEPT !.n = n]
  <1>1. /\ l \in {"org", "job", "principal"} /\ Waits(r, l)
        /\ n \in IF Deletes(tx[r].op, l) THEN 0 .. payload ELSE {tx[r].n}
    BY DEF TakeLock
  <1>2. n \in Nat /\ h \in SUBSET Locks /\ tx[r] \in Transaction
    BY <1>1 DEF Typed, Transaction, Locks
  <1>3. tx' = [tx EXCEPT ![r] = t]  BY DEF TakeLock, Typed
  <1>4. /\ u \in Transaction /\ u.held = h
        /\ u.op = tx[r].op /\ u.row = tx[r].row /\ u.seen = tx[r].seen
    BY <1>2, SetHeld, Zenon
  <1>5. /\ t \in Transaction /\ t.n = n /\ t.op = u.op /\ t.held = u.held
        /\ t.row = u.row /\ t.seen = u.seen
    BY <1>2, <1>4, SetN, Zenon
  <1> HIDE DEF t, u
  <1> QED  BY <1>3, <1>4, <1>5

LEMMA MeasureEffect ==
  ASSUME Inductive, NEW r \in Replicas, Measure(r)
  PROVE  \E t \in Transaction :
            /\ tx' = [tx EXCEPT ![r] = t]
            /\ t.seen = StorageSize(r) /\ t.held = tx[r].held
            /\ t.op = tx[r].op /\ t.row = tx[r].row /\ t.n = tx[r].n
  <1> DEFINE v == StorageSize(r)
             t == [tx[r] EXCEPT !.seen = v]
  <1>1. /\ Sound(tx[r]) /\ tx[r] \in Transaction /\ payload \in Nat
        /\ tx[r].n \in Nat
    BY DEF Inductive, Typed, Transaction
  <1>2. v \in Nat  BY <1>1 DEF StorageSize, Sound
  <1>3. tx' = [tx EXCEPT ![r] = t]  BY DEF Measure, Inductive, Typed
  <1> HIDE DEF v
  <1>4. /\ t \in Transaction /\ t.seen = v /\ t.op = tx[r].op
        /\ t.held = tx[r].held /\ t.row = tx[r].row /\ t.n = tx[r].n
    BY <1>1, <1>2, SetSeen, Zenon
  <1> HIDE DEF t
  <1> QED  BY <1>3, <1>4 DEF v

LEMMA LockUsageEffect ==
  ASSUME Inductive, NEW r \in Replicas, LockUsage(r)
  PROVE  \E t \in Transaction :
            /\ tx' = [tx EXCEPT ![r] = t]
            /\ t.held = tx[r].held \cup {"usage"}
            /\ t.next = Counter(r) /\ t.next \in Nat /\ t.plan = plan
            /\ t.op = tx[r].op /\ t.row = tx[r].row /\ t.n = tx[r].n
            /\ t.seen = tx[r].seen
  <1> DEFINE h == tx[r].held \cup {"usage"}
             c == Counter(r)
             u == [tx[r] EXCEPT !.held = h]
             w == [u EXCEPT !.next = c]
             t == [w EXCEPT !.plan = plan]
  <1>1. /\ Sound(tx[r]) /\ Waits(r, "usage")
        /\ used # None \/ tx[r].seen # None
        /\ plan \in Plans /\ payload \in Nat /\ used \in Nat \cup {None}
        /\ tx[r] \in Transaction /\ tx[r].n \in Nat
        /\ tx[r].seen \in Nat \cup {None}
    BY DEF LockUsage, UsageFree, Inductive, Typed, Transaction
  <1>2. c \in Nat  BY <1>1 DEF Counter, StorageSize, Sound
  <1>3. h \in SUBSET Locks  BY <1>1 DEF Transaction, Locks
  <1>4. tx' = [tx EXCEPT ![r] = t]  BY DEF LockUsage, Inductive, Typed
  <1> HIDE DEF h, c
  <1>5. /\ u \in Transaction /\ u.held = h /\ u.op = tx[r].op /\ u.n = tx[r].n
        /\ u.row = tx[r].row /\ u.seen = tx[r].seen
    BY <1>1, <1>3, SetHeld, Zenon
  <1>6. /\ w \in Transaction /\ w.next = c /\ w.held = u.held /\ w.op = u.op
        /\ w.n = u.n /\ w.row = u.row /\ w.seen = u.seen
    BY <1>2, <1>5, SetNext, Zenon
  <1>7. /\ t \in Transaction /\ t.plan = plan /\ t.next = w.next
        /\ t.held = w.held /\ t.op = w.op
        /\ t.n = w.n /\ t.row = w.row /\ t.seen = w.seen
    BY <1>1, <1>6, SetPlan, Zenon
  <1> HIDE DEF t, w, u
  <1> QED  BY <1>2, <1>4, <1>5, <1>6, <1>7 DEF h, c

LEMMA TakeLockStep ==
  ASSUME Inductive, NEW r \in Replicas, NEW l, NEW n, TakeLock(r, l, n)
  PROVE  Inductive'
  <1>1. /\ Typed /\ Sound(tx[r]) /\ l \in {"org", "job", "principal"}
        /\ Waits(r, l) /\ ~Blocked(r)
        /\ n \in IF Deletes(tx[r].op, l) THEN 0 .. payload ELSE {tx[r].n}
    BY DEF TakeLock, Inductive
  <1>2. n \in Nat /\ tx[r].op \in Operations \cup {"none"} /\ enabled \in BOOLEAN
    BY <1>1 DEF Typed, Transaction
  <1>3. PICK t \in Transaction :
            /\ tx' = [tx EXCEPT ![r] = t]
            /\ t.held = tx[r].held \cup {l} /\ t.n = n
            /\ t.op = tx[r].op /\ t.row = tx[r].row /\ t.seen = tx[r].seen
    BY <1>1, TakeLockEffect
  <1>4. "usage" \notin t.held
    <2>1. l \in Missing(r)  BY <1>1 DEF Waits
    <2>2. ~("usage" \in tx[r].held)  BY <1>1, <2>1 DEF Sound, Charged, Missing
    <2> QED  BY <1>1, <1>3, <2>2
  <1>5. t.op \in Deleting => t.n <= payload /\ (t.n # 0 => "org" \in t.held)
    <2>1. ASSUME tx[r].op = "purge", l = "job" PROVE "org" \in tx[r].held
      <3>1. "org" \in Earlier["job"]
        <4>1. Order[1] = "org" /\ Order[2] = "job"  BY DEF Order
        <4> QED  BY <4>1 DEF Earlier, Locks
      <3>2. "org" \in Needs[tx[r].op][enabled]
        BY <1>2, <2>1, LocksNeeded DEF Deleting
      <3> QED  BY <1>1, <2>1, <3>1, <3>2 DEF Waits, Missing
    <2>2. CASE Deletes(tx[r].op, l)
      BY <1>1, <1>2, <1>3, <2>1, <2>2 DEF Deletes, Typed
    <2>3. CASE ~Deletes(tx[r].op, l)
      BY <1>1, <1>3, <2>3 DEF Sound
    <2> QED  BY <2>2, <2>3
  <1>6. tx[r].op = "admit" => n = 0
    BY <1>1 DEF Sound, Deletes
  <1>7. Sound(t)  BY <1>1, <1>3, <1>4, <1>5, <1>6 DEF Sound
  <1>8. ASSUME NEW q \in Replicas, q # r PROVE Apart(t, tx[q])
    <2>1. l \notin tx[q].held  BY <1>1, <1>8, TakenAlone DEF Locks
    <2>2. Apart(tx[r], tx[q])  BY <1>8 DEF Inductive, Exclusive
    <2> QED  BY <1>3, <2>1, <2>2 DEF Apart
  <1> QED  BY <1>3, <1>7, <1>8, Local DEF TakeLock

LEMMA MeasureStep ==
  ASSUME Inductive, NEW r \in Replicas, Measure(r)
  PROVE  Inductive'
  <1>1. Sound(tx[r]) /\ used = None /\ Waits(r, "usage")
    BY DEF Measure, Inductive
  <1>2. tx[r].op \notin Deleting => StorageSize(r) = payload
    BY DEF StorageSize, Inductive, Typed
  <1>3. PICK t \in Transaction :
            /\ tx' = [tx EXCEPT ![r] = t]
            /\ t.seen = StorageSize(r) /\ t.held = tx[r].held
            /\ t.op = tx[r].op /\ t.row = tx[r].row /\ t.n = tx[r].n
    BY MeasureEffect
  <1>4. "usage" \notin t.held  BY <1>1, <1>3 DEF Waits, Missing
  <1>5. Sound(t)  BY <1>1, <1>2, <1>3, <1>4 DEF Sound
  <1>6. \A q \in Replicas : q # r => Apart(t, tx[q])
    BY <1>3 DEF Inductive, Exclusive, Apart
  <1> QED  BY <1>3, <1>5, <1>6, Local DEF Measure

LEMMA LockUsageStep ==
  ASSUME Inductive, NEW r \in Replicas, LockUsage(r)
  PROVE  Inductive'
  <1>1. /\ Typed /\ Sound(tx[r]) /\ Waits(r, "usage") /\ ~Blocked(r)
        /\ used # None \/ tx[r].seen # None
        /\ plan \in Plans /\ payload \in Nat /\ used \in Nat \cup {None}
        /\ tx[r] \in Transaction /\ tx[r].n \in Nat
        /\ tx[r].seen \in Nat \cup {None}
    BY DEF LockUsage, UsageFree, Inductive, Typed, Transaction
  <1>2. /\ Missing(r) \subseteq {"usage", "share"}
        /\ tx[r].op \in Charging \cup Recounting \cup {"admit"}
        /\ enabled \/ tx[r].op = "recalculate"
    BY <1>1, UsageLast
  <1>3. PICK t \in Transaction :
            /\ tx' = [tx EXCEPT ![r] = t]
            /\ t.held = tx[r].held \cup {"usage"}
            /\ t.next = Counter(r) /\ t.next \in Nat /\ t.plan = plan
            /\ t.op = tx[r].op /\ t.row = tx[r].row /\ t.n = tx[r].n
            /\ t.seen = tx[r].seen
    BY LockUsageEffect
  <1>4. enabled => Counted(t)
    <2> SUFFICES ASSUME enabled PROVE Counted(t)  OBVIOUS
    <2>1. t.op = tx[r].op /\ t.n = tx[r].n /\ t.next = Counter(r)
      BY <1>3
    <2>2. used = None /\ tx[r].op \notin Deleting => tx[r].seen = payload
      BY <1>1 DEF Sound
    <2>3. CASE tx[r].op \in Recounting
      BY <1>1, <2>1, <2>3 DEF Counter, StorageSize, Counted, Charging, Recounting,
                       Deleting
    <2>4. CASE tx[r].op \in Charging
      BY <1>1, <2>1, <2>2, <2>4 DEF Counter, Counted, Stored, Charging,
                                   Recounting, Deleting
    <2>5. CASE tx[r].op = "admit"
      <3>1. tx[r].n = 0  BY <1>1, <2>5 DEF Sound
      <3> QED  BY <1>1, <2>1, <2>2, <2>5, <3>1
               DEF Counter, Counted, Stored, Charging, Recounting, Deleting
    <2> QED  BY <1>2, <2>3, <2>4, <2>5
  <1>5. Fitted(t)
    BY <1>3 DEF LockUsage, Fits, Fitted, Charging
  <1>6. Needs[t.op][enabled] \ t.held \subseteq {"share"}
    BY <1>2, <1>3 DEF Missing
  <1>7. Charged(t)
    BY <1>1, <1>2, <1>3, <1>4, <1>5, <1>6 DEF Charged
  <1>8. Sound(t)
    BY <1>1, <1>3, <1>7 DEF Sound
  <1>9. ASSUME NEW q \in Replicas, q # r PROVE Apart(t, tx[q])
    <2>1. "usage" \notin tx[q].held  BY <1>1, <1>9, TakenAlone DEF Locks
    <2>2. Apart(tx[r], tx[q])  BY <1>9 DEF Inductive, Exclusive
    <2> QED  BY <1>3, <2>1, <2>2 DEF Apart
  <1> QED  BY <1>3, <1>8, <1>9, Local DEF LockUsage

\* What the commit of r does to the transaction of another replica.
LEMMA CommitStep ==
  ASSUME Inductive, NEW r \in Replicas, Commit(r)
  PROVE  Inductive'
  <1>1. /\ Typed /\ Sound(tx[r]) /\ tx[r] \in Transaction
        /\ payload \in Nat /\ used \in Nat \cup {None} /\ tx[r].n \in Nat
        /\ state \in [Rows -> {"absent", "active", "revoked"}]
    BY DEF Inductive, Typed, Transaction
  <1>2. /\ enabled /\ tx[r].op \in Charging \cup Recounting \cup {"admit"} =>
               "usage" \in tx[r].held
        /\ tx[r].op \in Deleting => "org" \in tx[r].held
    BY CommitHolds
  <1>3. /\ plan' = plan /\ enabled' = enabled
        /\ tx'[r] = Idle /\ \A q \in Replicas : q # r => tx'[q] = tx[q]
        /\ used' = IF "usage" \in tx[r].held THEN tx[r].next ELSE used
    BY <1>1 DEF Commit, Typed
  <1>4. /\ payload' \in Nat
        /\ tx[r].op \notin Deleting => payload' >= payload
        /\ tx[r].op \notin Charging \cup Deleting => payload' = payload
    BY <1>1 DEF Commit, Sound, Charging, Deleting
  <1>5. used' \in Nat \cup {None}  BY <1>1, <1>3 DEF Sound, Charged
  <1>6. /\ state' \in [Rows -> {"absent", "active", "revoked"}]
        /\ \A i \in Rows : i # tx[r].row => state'[i] = state[i]
        /\ tx[r].op # "admit" => state' = state
    BY <1>1 DEF Commit
  <1>7. Sound(Idle)' /\ Idle \in Transaction
    <2>1. Sound(Idle)  BY <1>1, IdleIsSound
    <2>2. /\ Idle.op = "none" /\ Idle.held = {} /\ Idle.row = None
          /\ Idle.seen = None /\ Idle \in Transaction
      BY <2>1 DEF Idle, Begun, Sound
    <2> HIDE DEF Idle
    <2> QED  BY <2>2 DEF Sound, Deleting
  <1>8. Typed'
    <2>1. tx' \in [Replicas -> Transaction]  BY <1>1, <1>7 DEF Commit, Typed
    <2> QED  BY <1>1, <1>3, <1>4, <1>5, <1>6, <2>1 DEF Typed
  <1>9. Exclusive'
    <2>1. \A t : Apart(Idle, t) /\ Apart(t, Idle)  BY DEF Apart, Idle, Begun
    <2>2. \A q, s \in Replicas : q # s => Apart(tx'[q], tx'[s])
      BY <1>3, <2>1 DEF Inductive, Exclusive
    <2>3. Exclusive' <=> \A q, s \in Replicas : q # s => Apart(tx'[q], tx'[s])
      BY DEF Exclusive, Apart
    <2> QED  BY <2>2, <2>3
  <1>10. ASSUME NEW q \in Replicas, q # r PROVE Sound(tx[q])'
    <2> DEFINE t == tx[q]
    <2>1. tx'[q] = t  BY <1>3, <1>10
    <2>2. Sound(t) /\ Apart(t, tx[r])
      BY <1>10 DEF Inductive, Exclusive
    <2> HIDE DEF t
    <2>3. t.op = "admit" => t.row \in Rows /\ state'[t.row] = "absent" /\ t.n = 0
      <3>1. SUFFICES ASSUME t.op = "admit"
                     PROVE  t.row \in Rows /\ state'[t.row] = "absent" /\ t.n = 0
        OBVIOUS
      <3>2. t.row \in Rows /\ t.row # None  BY <2>2, <3>1, NoneApart DEF Sound
      <3> QED  BY <1>6, <2>2, <3>1, <3>2 DEF Sound, Apart
    <2>4. t.op \in Deleting => t.n <= payload' /\ (t.n # 0 => "org" \in t.held)
      <3>1. SUFFICES ASSUME t.op \in Deleting PROVE t.n <= payload'
        BY <2>2 DEF Sound
      <3>2. t.n <= payload /\ (t.n # 0 => "org" \in t.held) /\ t.n \in Nat
        BY <2>2, <3>1 DEF Sound, Transaction
      <3>3. CASE tx[r].op \in Deleting
        BY <1>2, <1>4, <2>2, <3>2, <3>3 DEF Apart
      <3>4. CASE tx[r].op \notin Deleting
        BY <1>1, <1>4, <3>2, <3>4
      <3> QED  BY <3>3, <3>4
    <2>5. enabled /\ used' = None /\ t.seen # None /\ t.op \notin Deleting =>
             t.seen = payload'
      <3>1. SUFFICES ASSUME enabled, used' = None, t.seen # None,
                            t.op \notin Deleting
                     PROVE  t.seen = payload'
        OBVIOUS
      <3>2. "usage" \notin tx[r].held
        <4>1. "usage" \in tx[r].held => tx[r].next \in Nat /\ used' = tx[r].next
          BY <1>1, <1>3 DEF Sound, Charged
        <4> QED  BY <3>1, <4>1, NoneApart
      <3>3. payload' = payload /\ used = None
        BY <1>2, <1>3, <1>4, <3>1, <3>2 DEF Recounting
      <3> QED  BY <2>2, <3>1, <3>3 DEF Sound
    <2>6. ASSUME "usage" \in t.held PROVE Charged(t)'
      <3>1. Charged(t) /\ "usage" \notin tx[r].held
        BY <2>2, <2>6 DEF Sound, Apart
      <3>2. enabled => payload' = payload /\ state' = state /\ used' = used
        BY <1>2, <1>3, <1>4, <1>6, <3>1 DEF Recounting
      <3>3. enabled' => (Counted(t) /\ Fitted(t))'
        <4>1. SUFFICES ASSUME enabled PROVE (Counted(t) /\ Fitted(t))'
          BY <1>3
        <4>2. Counted(t) /\ Fitted(t)  BY <3>1, <4>1 DEF Charged
        <4>3. t' = t  BY <2>1 DEF t
        <4> QED  BY <3>2, <4>1, <4>2, <4>3
                 DEF Counted, Fitted, Stored, Active, ActiveIn
      <3>4. t' = t  BY <2>1 DEF t
      <3> QED  BY <1>3, <3>1, <3>3, <3>4 DEF Charged
    <2>7. t' = t  BY <2>1 DEF t
    <2>8. Sound(t)'
      BY <1>3, <2>2, <2>3, <2>4, <2>5, <2>6, <2>7 DEF Sound
    <2> QED  BY <2>8 DEF t
  <1>11. \A q \in Replicas : Sound(tx[q])'
    <2>1. Sound(tx[r])'
      BY <1>3, <1>7
    <2> QED  BY <1>10, <2>1
  <1> QED  BY <1>8, <1>9, <1>11 DEF Inductive

\* Fewer active rows fit as well.
LEMMA FewerFit ==
  ASSUME NEW k \in Kinds, NEW p \in Plans, NEW A, NEW B, IsFiniteSet(A), B \subseteq A,
         NEW m \in Nat, Within(Cardinality(A) + m, Limits[p][k])
  PROVE  Within(Cardinality(B) + m, Limits[p][k])
  <1>1. /\ Cardinality(B) \in Nat /\ Cardinality(A) \in Nat
        /\ Cardinality(B) <= Cardinality(A)
    BY FS_Subset, FS_CardinalityType
  <1>2. Limits[p][k] \in Nat \cup {None}  BY QuotaAssumption
  <1>3. CASE Limits[p][k] = None  BY <1>3 DEF Within
  <1>4. CASE Limits[p][k] \in Nat  BY <1>1, <1>4, NoneApart DEF Within
  <1> QED  BY <1>2, <1>3, <1>4

LEMMA RevokeStep ==
  ASSUME Inductive, NEW i \in Rows, Revoke(i)
  PROVE  Inductive'
  <1>1. /\ state \in [Rows -> {"absent", "active", "revoked"}]
        /\ state[i] = "active" /\ state' = [state EXCEPT ![i] = "revoked"]
        /\ UNCHANGED <<plan, enabled, payload, used, tx>>
    BY DEF Revoke, Inductive, Typed
  <1>2. /\ state' \in [Rows -> {"absent", "active", "revoked"}]
        /\ \A j \in Rows : state[j] = "absent" => state'[j] = "absent"
        /\ \A j \in Rows : state'[j] = "active" => state[j] = "active"
    BY <1>1
  <1>3. Typed' /\ Exclusive'
    BY <1>1, <1>2 DEF Inductive, Typed, Exclusive, Apart
  <1>4. ASSUME NEW q \in Replicas PROVE Sound(tx[q])'
    <2> DEFINE t == tx[q]
    <2>1. Sound(t)  BY DEF Inductive
    <2>2. t' = t  BY <1>1
    <2> HIDE DEF t
    <2>3. t.op = "admit" => t.row \in Rows /\ state'[t.row] = "absent" /\ t.n = 0
      BY <1>2, <2>1 DEF Sound
    <2>4. ASSUME "usage" \in t.held PROVE Charged(t)'
      <3>1. Charged(t)  BY <2>1, <2>4 DEF Sound
      <3>2. ASSUME enabled, t.op = "admit"
            PROVE  Within(Cardinality(Active(Kind[t.row])') + 1,
                          Limits[t.plan][Kind[t.row]])
        <4>1. /\ t.plan \in Plans /\ t.row \in Rows /\ Kind[t.row] \in Kinds
              /\ Within(Cardinality(Active(Kind[t.row])) + 1,
                        Limits[t.plan][Kind[t.row]])
          BY <2>1, <3>1, <3>2, QuotaAssumption DEF Sound, Charged, Fitted
        <4> DEFINE A == Active(Kind[t.row])
                   B == ActiveIn(state', Kind[t.row])
        <4>2. IsFiniteSet(A)  BY ActiveFinite
        <4>3. B \subseteq A  BY <1>2 DEF Active, ActiveIn
        <4> HIDE DEF A, B
        <4>4. Within(Cardinality(B) + 1, Limits[t.plan][Kind[t.row]])
          BY <4>1, <4>2, <4>3, FewerFit DEF A
        <4>5. Active(Kind[t.row])' = B  BY <2>2 DEF B, Active
        <4> QED  BY <4>4, <4>5
      <3>3. enabled => Fitted(t)'
        BY <1>1, <2>2, <3>1, <3>2 DEF Charged, Fitted
      <3>4. enabled => Counted(t)'
        BY <1>1, <2>2, <3>1 DEF Charged, Counted, Stored
      <3> QED  BY <1>1, <2>2, <3>1, <3>3, <3>4 DEF Charged
    <2>5. Sound(t)'
      BY <1>1, <2>1, <2>2, <2>3, <2>4 DEF Sound
    <2> QED  BY <2>5 DEF t
  <1> QED  BY <1>3, <1>4 DEF Inductive

LEMMA ChangePlanStep ==
  ASSUME Inductive, ChangePlan
  PROVE  Inductive'
  <1>1. Typed' /\ Exclusive'
    BY DEF ChangePlan, Inductive, Typed, Exclusive, Apart
  <1>2. \A q \in Replicas : Sound(tx[q])'
    BY DEF ChangePlan, Inductive, Sound, Charged, Counted, Fitted, Stored, Active,
           ActiveIn
  <1> QED  BY <1>1, <1>2 DEF Inductive

LEMMA RedeployStep ==
  ASSUME Inductive, Redeploy
  PROVE  Inductive'
  <1>1. /\ \A r \in Replicas : tx[r] = Idle /\ tx'[r] = Idle
        /\ payload' = payload /\ payload \in Nat /\ enabled' \in BOOLEAN
    BY DEF Redeploy, Inductive, Typed
  <1>2. Typed' /\ Exclusive'
    BY <1>1 DEF Redeploy, Inductive, Typed, Exclusive, Apart
  <1>3. Sound(Idle)'
    <2>1. Sound(Idle)  BY <1>1, IdleIsSound
    <2>2. /\ Idle.op = "none" /\ Idle.held = {} /\ Idle.row = None
          /\ Idle.seen = None /\ Idle \in Transaction
      BY <2>1 DEF Idle, Begun, Sound
    <2> HIDE DEF Idle
    <2> QED  BY <2>2 DEF Sound, Deleting
  <1>4. \A q \in Replicas : Sound(tx[q])'
    BY <1>1, <1>3
  <1> QED  BY <1>2, <1>4 DEF Inductive

\* What a step may be, for the proofs that go through the actions.
LEMMA Steps ==
  ASSUME Next
  PROVE  \/ \E r \in Replicas :
              \/ \E op \in Charging, n \in Amounts : Write(r, op, n)
              \/ \E i \in Rows : Admit(r, i)
              \/ \E op \in Operations : Call(r, op)
              \/ \E l \in Locks, n \in 0 .. payload \cup {tx[r].n} : TakeLock(r, l, n)
              \/ Measure(r)
              \/ LockUsage(r)
              \/ RollBack(r)
              \/ Commit(r)
         \/ \E i \in Rows : Revoke(i) /\ Kind[i] # "instance"
         \/ ChangePlan
         \/ Redeploy
  BY DEF Next, Proceed, PrincipalCreate, InstanceCreate, ConnectionIssue, Refuse,
         Conflict, Crash, PrincipalRevoke, ConnectionRevoke

LEMMA NextInductive ==
  ASSUME Inductive, [Next]_vars
  PROVE  Inductive'
  <1>1. ASSUME NEW r \in Replicas, NEW op \in Charging, NEW n \in Amounts,
               Write(r, op, n)
        PROVE  Inductive'
    <2>1. n \in Nat /\ op \in Operations /\ op \notin Deleting \cup {"admit"}
      BY QuotaAssumption DEF Operations, Charging, Deleting
    <2> QED  BY <1>1, <2>1, StartStep DEF Write
  <1>2. ASSUME NEW r \in Replicas, NEW i \in Rows, Admit(r, i) PROVE Inductive'
    <2>1. "admit" \in Operations  BY DEF Operations
    <2> QED  BY <1>2, <2>1, StartStep DEF Admit
  <1>3. ASSUME NEW r \in Replicas, NEW op \in Operations, Call(r, op)
        PROVE  Inductive'
    BY <1>3, StartStep DEF Call
  <1>4. ASSUME NEW r \in Replicas, NEW l, NEW n, TakeLock(r, l, n) PROVE Inductive'
    BY <1>4, TakeLockStep
  <1>5. ASSUME NEW r \in Replicas,
               Measure(r) \/ LockUsage(r) \/ RollBack(r) \/ Commit(r)
        PROVE  Inductive'
    BY <1>5, MeasureStep, LockUsageStep, RollBackStep, CommitStep
  <1>6. ASSUME (\E i \in Rows : Revoke(i)) \/ ChangePlan \/ Redeploy
        PROVE  Inductive'
    BY <1>6, RevokeStep, ChangePlanStep, RedeployStep
  <1>7. CASE UNCHANGED vars
    <2>1. Typed' /\ Exclusive'
      BY <1>7 DEF vars, Inductive, Typed, Exclusive, Apart
    <2>2. \A q \in Replicas : Sound(tx[q])'
      BY <1>7 DEF vars, Inductive, Sound, Charged, Counted, Fitted, Stored, Active,
                  ActiveIn
    <2> QED  BY <2>1, <2>2 DEF Inductive
  <1>8. CASE Next
    BY <1>8, Steps, <1>1, <1>2, <1>3, <1>4, <1>5, <1>6
  <1> QED  BY <1>7, <1>8

LEMMA Invariance == Spec => []Inductive
  <1>1. Init => Inductive  BY InitInductive
  <1>2. Inductive /\ [Next]_vars => Inductive'  BY NextInductive
  <1> QED  BY <1>1, <1>2, PTL DEF Spec

-----------------------------------------------------------------------------
(* The properties.                                                         *)

\* Only commits store, count and admit.
LEMMA OnlyCommits ==
  ASSUME Inductive, [Next]_vars
  PROVE  \/ \E r \in Replicas : Commit(r)
         \/ /\ payload' = payload /\ used' = used
            /\ \A i \in Rows : state'[i] = state[i] \/ state'[i] = "revoked"
            /\ \/ state' = state
               \/ \E i \in Rows : Revoke(i) /\ Kind[i] # "instance"
  <1>1. CASE UNCHANGED vars  BY <1>1 DEF vars
  <1>2. CASE Next
    <2>1. ASSUME NEW r \in Replicas,
                 \/ \E op \in Charging, n \in Amounts : Write(r, op, n)
                 \/ \E i \in Rows : Admit(r, i)
                 \/ \E op \in Operations : Call(r, op)
                 \/ \E l \in Locks, n \in 0 .. payload \cup {tx[r].n} : TakeLock(r, l, n)
                 \/ Measure(r)
                 \/ LockUsage(r)
                 \/ RollBack(r)
          PROVE  UNCHANGED <<payload, used, state>>
      BY <2>1 DEF Write, Admit, Call, Start, TakeLock, Measure, LockUsage, RollBack
    <2>2. ASSUME NEW i \in Rows, Revoke(i)
          PROVE  /\ payload' = payload /\ used' = used
                 /\ \A j \in Rows : state'[j] = state[j] \/ state'[j] = "revoked"
      BY <2>2 DEF Revoke, Inductive, Typed
    <2>3. ChangePlan \/ Redeploy => UNCHANGED <<payload, used, state>>
      BY DEF ChangePlan, Redeploy
    <2> QED  BY <1>2, <2>1, <2>2, <2>3, Steps
  <1> QED  BY <1>1, <1>2

\* The commit of an admission adds its row, and what then is active fits.
LEMMA Admission ==
  ASSUME Inductive, NEW r \in Replicas, Commit(r), tx[r].op = "admit"
  PROVE  /\ tx[r].row \in Rows /\ state[tx[r].row] = "absent"
         /\ state' = [state EXCEPT ![tx[r].row] = "active"]
         /\ enabled => Within(Cardinality(ActiveIn(state', Kind[tx[r].row])),
                              Limits[tx[r].plan][Kind[tx[r].row]])
  <1> DEFINE i == tx[r].row
             A == Active(Kind[i])
             B == ActiveIn(state', Kind[i])
  <1>1. /\ i \in Rows /\ state[i] = "absent" /\ Sound(tx[r])
        /\ state \in [Rows -> {"absent", "active", "revoked"}]
    BY DEF Inductive, Typed, Sound
  <1>2. state' = [state EXCEPT ![i] = "active"]  BY DEF Commit
  <1>3. ASSUME enabled PROVE Within(Cardinality(B), Limits[tx[r].plan][Kind[i]])
    <2>1. "usage" \in tx[r].held  BY <1>3, CommitHolds
    <2>2. /\ Within(Cardinality(A) + 1, Limits[tx[r].plan][Kind[i]])
          /\ tx[r].plan \in Plans /\ Kind[i] \in Kinds
      BY <1>1, <1>3, <2>1, QuotaAssumption DEF Sound, Charged, Fitted
    <2>3. B = A \cup {i} /\ i \notin A
      BY <1>1, <1>2 DEF Active, ActiveIn
    <2>4. IsFiniteSet(A)  BY ActiveFinite
    <2> HIDE DEF A, B, i
    <2>5. Cardinality(B) = Cardinality(A) + 1  BY <2>3, <2>4, FS_AddElement
    <2> QED  BY <2>2, <2>5
  <1> QED  BY <1>1, <1>2, <1>3

\* Who was admitted in a step has committed in it.
LEMMA AdmittedCommits ==
  ASSUME Inductive, [Next]_vars, NEW r \in Replicas, Admitted(r)
  PROVE  Commit(r) /\ tx[r].op = "admit"
  <1>1. /\ tx[r].op = "admit" /\ tx[r].row \in Rows
        /\ state[tx[r].row] = "absent" /\ state'[tx[r].row] = "active"
    BY DEF Admitted, Inductive, Sound
  <1>2. PICK q \in Replicas : Commit(q)  BY <1>1, OnlyCommits
  <1>3. tx[q].op = "admit" /\ tx[q].row = tx[r].row
    BY <1>1, <1>2 DEF Commit, Inductive, Typed
  <1>4. q = r
    BY <1>1, <1>3, NoneApart DEF Inductive, Exclusive, Apart
  <1> QED  BY <1>1, <1>2, <1>4

LEMMA NoOverAdmissionKept ==
  ASSUME Inductive, [Next]_vars
  PROVE  NoOverAdmissionStep
  BY AdmittedCommits, Admission DEF NoOverAdmissionStep

\* The arithmetic of the counter.
LEMMA CommitCounts ==
  ASSUME Inductive, enabled, NEW r \in Replicas, Commit(r)
  PROVE  /\ "usage" \in tx[r].held =>
              /\ used' = tx[r].next /\ used' \in Nat
              /\ \/ used' = payload'
                 \/ used # None /\ used' - payload' = used - payload
         /\ "usage" \notin tx[r].held => used' = used /\ payload' = payload
  <1>1. /\ Sound(tx[r]) /\ payload \in Nat /\ used \in Nat \cup {None}
        /\ tx[r].n \in Nat
    BY DEF Inductive, Typed, Transaction
  <1>2. payload' = payload + (IF tx[r].op \in Charging THEN tx[r].n
                              ELSE IF tx[r].op \in Deleting THEN -tx[r].n ELSE 0)
    BY DEF Commit
  <1>3. ASSUME "usage" \in tx[r].held
        PROVE  /\ used' = tx[r].next /\ used' \in Nat
               /\ \/ used' = payload'
                  \/ used # None /\ used' - payload' = used - payload
    <2>1. /\ used' = tx[r].next /\ tx[r].next \in Nat /\ Counted(tx[r])
          /\ tx[r].op \in Charging \cup Recounting \cup {"admit"}
      BY <1>1, <1>3 DEF Commit, Sound, Charged
    <2>2. CASE tx[r].op \in Recounting
      BY <1>1, <1>2, <2>1, <2>2 DEF Counted, Recounting, Deleting, Charging
    <2>3. CASE tx[r].op \in Charging
      BY <1>1, <1>2, <2>1, <2>3 DEF Counted, Stored, Recounting, Deleting, Charging
    <2>4. CASE tx[r].op = "admit"
      BY <1>1, <1>2, <2>1, <2>4 DEF Counted, Stored, Recounting, Deleting, Charging
    <2> QED  BY <2>1, <2>2, <2>3, <2>4
  <1>4. ASSUME "usage" \notin tx[r].held
        PROVE  used' = used /\ payload' = payload
    <2>1. tx[r].op \notin Charging /\ tx[r].op \notin Deleting
      BY <1>4, CommitHolds DEF Recounting
    <2>2. used' = used  BY <1>4 DEF Commit
    <2> QED  BY <1>1, <1>2, <2>1, <2>2
  <1> QED  BY <1>3, <1>4

LEMMA CounterFollowsKept ==
  ASSUME Inductive, [Next]_vars
  PROVE  CounterFollowsStep
  <1> SUFFICES ASSUME enabled
               PROVE  /\ payload' # payload => used' # None
                      /\ used' # None =>
                            \/ used' = payload'
                            \/ used # None /\ used' - payload' = used - payload
    BY DEF CounterFollowsStep
  <1>1. CASE \E r \in Replicas : Commit(r)
    BY <1>1, CommitCounts, NoneApart
  <1>2. CASE payload' = payload /\ used' = used
    BY <1>2
  <1> QED  BY <1>1, <1>2, OnlyCommits

LEMMA StorageWithinPlanKept ==
  ASSUME Inductive, [Next]_vars
  PROVE  StorageWithinPlanStep
  <1> SUFFICES ASSUME NEW r \in Replicas,
                      enabled, used \in {None, payload},
                      tx[r].op \in Charging, payload' > payload, tx'[r] = Idle
               PROVE  Within(payload', Limits[tx[r].plan]["bytes"])
    BY DEF StorageWithinPlanStep
  <1>1. Sound(tx[r]) /\ payload \in Nat /\ tx[r].n \in Nat
    BY DEF Inductive, Typed, Transaction
  <1>2. PICK q \in Replicas : Commit(q)  BY <1>1, OnlyCommits
  <1>3. q = r
    <2>1. q # r => tx'[r] = tx[r]  BY <1>2 DEF Commit, Inductive, Typed
    <2>2. Idle.op = "none"  BY DEF Idle, Begun
    <2> QED  BY <2>1, <2>2 DEF Charging
  <1>4. "usage" \in tx[r].held  BY <1>2, <1>3, CommitHolds
  <1>5. /\ tx[r].next = Stored + tx[r].n
        /\ Within(tx[r].next, Limits[tx[r].plan]["bytes"])
    BY <1>1, <1>4 DEF Sound, Charged, Counted, Fitted
  <1>6. payload' = payload + tx[r].n  BY <1>2, <1>3 DEF Commit
  <1>7. Stored = payload  BY DEF Stored
  <1> QED  BY <1>5, <1>6, <1>7

\* A row among so many of its kind that all fit has room.
LEMMA AllEligible ==
  ASSUME Typed', plan' = plan, plan \in Plans, NEW i \in Rows, state'[i] = "active",
         Within(Cardinality(ActiveIn(state', Kind[i])), Limits[plan][Kind[i]])
  PROVE  Eligible(i)'
  <1> DEFINE A == ActiveIn(state', Kind[i])
             B == {j \in A : j < i}
  <1>1. Limits[plan][Kind[i]] \in Nat \cup {None}
    BY QuotaAssumption
  <1>2. IsFiniteSet(A) /\ i \in A /\ i \in Nat
    BY FS_Subset, QuotaAssumption DEF ActiveIn
  <1>3. B \subseteq A \ {i}  BY <1>2
  <1> HIDE DEF A
  <1>4. /\ IsFiniteSet(A \ {i}) /\ Cardinality(A \ {i}) = Cardinality(A) - 1
        /\ Cardinality(A) \in Nat
    BY <1>2, FS_RemoveElement, FS_CardinalityType
  <1> HIDE DEF B
  <1>5. Cardinality(B) <= Cardinality(A \ {i}) /\ Cardinality(B) \in Nat
    BY <1>3, <1>4, FS_Subset, FS_CardinalityType
  <1>6. Limits[plan][Kind[i]] = None \/ Cardinality(B) < Limits[plan][Kind[i]]
    BY <1>1, <1>4, <1>5 DEF A, Within
  <1> QED  BY <1>6 DEF Eligible, Active, A, B

\* Who has room keeps it when nothing becomes active.
LEMMA StillEligible ==
  ASSUME Typed, NEW i \in Rows, Eligible(i), plan' = plan,
         ActiveIn(state', Kind[i]) \subseteq Active(Kind[i])
  PROVE  Eligible(i)'
  <1> DEFINE A == {j \in Active(Kind[i]) : j < i}
             B == {j \in ActiveIn(state', Kind[i]) : j < i}
  <1>1. Limits[plan][Kind[i]] \in Nat \cup {None}
    BY QuotaAssumption DEF Typed
  <1>2. IsFiniteSet(A) /\ B \subseteq A
    BY ActiveFinite, FS_Subset
  <1>3. Limits[plan][Kind[i]] = None \/ Cardinality(A) < Limits[plan][Kind[i]]
    BY DEF Eligible
  <1> HIDE DEF A, B
  <1>4. /\ Cardinality(B) <= Cardinality(A) /\ Cardinality(B) \in Nat
        /\ Cardinality(A) \in Nat
    BY <1>2, FS_Subset, FS_CardinalityType
  <1>5. Limits[plan][Kind[i]] = None \/ Cardinality(B) < Limits[plan][Kind[i]]
    BY <1>1, <1>3, <1>4
  <1> QED  BY <1>5 DEF Eligible, Active, B

\* What Eligible says of a row is kept by every step that the property is
\* about, as long as the row is active.
LEMMA EligibleKept ==
  ASSUME Inductive, [Next]_vars, enabled, plan' = plan,
         \A r \in Replicas : Admitted(r) => tx[r].plan = plan,
         NEW i \in Rows, Eligible(i), state'[i] = "active"
  PROVE  Eligible(i)'
  <1>1. Typed /\ Typed'  BY NextInductive DEF Inductive
  <1>2. ASSUME NEW r \in Replicas, Commit(r) PROVE Eligible(i)'
    <2>1. CASE tx[r].op = "admit" /\ Kind[tx[r].row] = Kind[i]
      <3>1. /\ tx[r].row \in Rows /\ state[tx[r].row] = "absent"
            /\ state' = [state EXCEPT ![tx[r].row] = "active"]
            /\ Within(Cardinality(ActiveIn(state', Kind[i])),
                      Limits[tx[r].plan][Kind[i]])
        BY <1>2, <2>1, Admission
      <3>2. Admitted(r)  BY <1>1, <2>1, <3>1 DEF Admitted, Typed
      <3>3. Within(Cardinality(ActiveIn(state', Kind[i])), Limits[plan][Kind[i]])
        BY <3>1, <3>2
      <3> QED  BY <1>1, <3>3, AllEligible DEF Typed
    <2>2. CASE tx[r].op = "admit" /\ Kind[tx[r].row] # Kind[i]
      <3>1. /\ tx[r].row \in Rows
            /\ state' = [state EXCEPT ![tx[r].row] = "active"]
        BY <1>2, <2>2, Admission
      <3>2. ActiveIn(state', Kind[i]) \subseteq Active(Kind[i])
        BY <1>1, <2>2, <3>1 DEF Active, ActiveIn, Typed
      <3> QED  BY <1>1, <3>2, StillEligible
    <2>3. CASE tx[r].op # "admit"
      <3>1. ActiveIn(state', Kind[i]) \subseteq Active(Kind[i])
        BY <1>2, <2>3 DEF Active, ActiveIn, Commit
      <3> QED  BY <1>1, <3>1, StillEligible
    <2> QED  BY <2>1, <2>2, <2>3
  <1>3. ASSUME \A j \in Rows : state'[j] = state[j] \/ state'[j] = "revoked"
        PROVE  Eligible(i)'
    <2>1. ActiveIn(state', Kind[i]) \subseteq Active(Kind[i])
      BY <1>3 DEF Active, ActiveIn
    <2> QED  BY <1>1, <2>1, StillEligible
  <1> QED  BY <1>2, <1>3, OnlyCommits

LEMMA NobodyDisplacedKept ==
  ASSUME Inductive, [Next]_vars
  PROVE  NobodyDisplacedStep
  <1> SUFFICES ASSUME plan' = plan, enabled' = enabled,
                      \A r \in Replicas : Admitted(r) => tx[r].plan = plan,
                      NEW c \in Connections, Resolves(c),
                      \A i \in {c, Owner[c]} : state'[i] # "revoked"
               PROVE  Resolves(c)'
    BY DEF NobodyDisplacedStep
  <1>1. /\ c \in Rows /\ Owner[c] \in Rows /\ Instance[c] \in Rows
        /\ Kind[Instance[c]] = "instance"
    BY QuotaAssumption DEF Connections
  <1>2. state \in [Rows -> {"absent", "active", "revoked"}]
    BY DEF Inductive, Typed
  <1>3. ASSUME NEW i \in {c, Owner[c], Instance[c]} PROVE state'[i] = "active"
    <2>1. i \in Rows /\ state[i] = "active"  BY <1>1 DEF Resolves
    <2>2. ASSUME NEW r \in Replicas, Commit(r) PROVE state'[i] = "active"
      BY <1>2, <2>1, <2>2 DEF Commit
    <2>3. state'[i] = state[i] \/ state'[i] = "revoked" \/ \E r \in Replicas : Commit(r)
      BY <2>1, OnlyCommits
    <2>4. CASE i = Instance[c]
      <3>1. ASSUME NEW j \in Rows, Revoke(j), Kind[j] # "instance"
            PROVE  state'[i] = state[i]
        BY <1>1, <1>2, <2>1, <2>4, <3>1 DEF Revoke
      <3> QED  BY <2>1, <2>2, <3>1, OnlyCommits
    <2>5. CASE i \in {c, Owner[c]}
      BY <2>1, <2>2, <2>3, <2>5
    <2> QED  BY <2>4, <2>5
  <1>4. ASSUME enabled, NEW i \in {c, Owner[c], Instance[c]} PROVE Eligible(i)'
    <2>1. i \in Rows /\ Eligible(i) /\ state'[i] = "active"
      BY <1>1, <1>3, <1>4 DEF Resolves
    <2> QED  BY <1>4, <2>1, EligibleKept
  <1> QED  BY <1>3, <1>4 DEF Resolves

\* Every variable stays in its range, and no two replicas hold the same row
\* lock: what the operations of billing.py assume of SELECT ... FOR UPDATE.
THEOREM TypeCorrect == Spec => []TypeOK
  <1>1. Inductive => TypeOK
    BY DEF Inductive, Typed, Exclusive, Apart, TypeOK, Transaction
  <1> QED  BY <1>1, Invariance, PTL

\* Replicas that check a limit at the same time do not share the last place.
THEOREM NobodyOverAdmitted == Spec => NoOverAdmission
  <1>1. Inductive /\ [Next]_vars => NoOverAdmissionStep
    BY NoOverAdmissionKept
  <1>2. Inductive /\ [Next]_vars => [NoOverAdmissionStep]_vars
    BY <1>1
  <1> QED  BY <1>2, Invariance, PTL DEF Spec, NoOverAdmission

\* The counter of the usage row follows the stored bytes.
THEOREM CounterExact == Spec => CounterFollows
  <1>1. Inductive /\ [Next]_vars => [CounterFollowsStep]_vars
    BY CounterFollowsKept
  <1> QED  BY <1>1, Invariance, PTL DEF Spec, CounterFollows

\* Charges of several replicas together stay within the plan.
THEOREM StorageBounded == Spec => StorageWithinPlan
  <1>1. Inductive /\ [Next]_vars => [StorageWithinPlanStep]_vars
    BY StorageWithinPlanKept
  <1> QED  BY <1>1, Invariance, PTL DEF Spec, StorageWithinPlan

\* Nobody's connection stops resolving by what others are admitted to.
THEOREM AccessKept == Spec => NobodyDisplaced
  <1>1. Inductive /\ [Next]_vars => [NobodyDisplacedStep]_vars
    BY NobodyDisplacedKept
  <1> QED  BY <1>1, Invariance, PTL DEF Spec, NobodyDisplaced

-----------------------------------------------------------------------------
(* The lock order.                                                         *)

\* All that is held is needed, and so is what comes before it and is needed.
Ordered(needed, held) ==
    held \subseteq needed /\ \A l \in held : needed \cap Earlier[l] \subseteq held

LocksInOrder == \A r \in Replicas : Ordered(Needs[tx[r].op][enabled], tx[r].held)

\* Of two locks one comes first; after all but the key share there is another.
LEMMA OrderIsTotal ==
  /\ \A l, m \in Locks : l = m \/ l \in Earlier[m] \/ m \in Earlier[l]
  /\ \A m \in Locks : /\ "usage" \in Earlier[m] => m = "share"
                      /\ "principal" \in Earlier[m] => m \in {"usage", "share"}
                      /\ "job" \in Earlier[m] => m \in {"principal", "usage", "share"}
                      /\ "org" \in Earlier[m] => m # "org"
                      /\ "share" \notin Earlier[m]
  <1>1. /\ Order[1] = "org" /\ Order[2] = "job" /\ Order[3] = "principal"
        /\ Order[4] = "usage" /\ Order[5] = "share"
    BY DEF Order
  <1>2. \A l, m \in Locks : m \in Earlier[l] <=>
            \E i, j \in 1 .. 5 : i < j /\ m = Order[i] /\ l = Order[j]
    BY DEF Earlier
  <1>3. /\ Earlier["org"] \cap Locks = {}
        /\ Earlier["job"] \cap Locks = {"org"}
        /\ Earlier["principal"] \cap Locks = {"org", "job"}
        /\ Earlier["usage"] \cap Locks = {"org", "job", "principal"}
        /\ Earlier["share"] \cap Locks = {"org", "job", "principal", "usage"}
    BY <1>1, <1>2 DEF Locks
  <1> QED  BY <1>3 DEF Locks

\* A lock that is waited for is taken after everything before it.
LEMMA OrderedTaken ==
  ASSUME NEW needed \in SUBSET Locks, NEW held, Ordered(needed, held),
         NEW l \in needed \ held, (needed \ held) \cap Earlier[l] = {}
  PROVE  Ordered(needed, held \cup {l})
  BY DEF Ordered

\* A step of one transaction that keeps its locks in order.
LEMMA LocalOrder ==
  ASSUME Typed, LocksInOrder, NEW r \in Replicas, NEW t,
         tx' = [tx EXCEPT ![r] = t], enabled' = enabled,
         Ordered(Needs[t.op][enabled], t.held)
  PROVE  LocksInOrder'
  <1>1. tx'[r] = t /\ \A q \in Replicas : q # r => tx'[q] = tx[q]
    BY DEF Typed
  <1>2. \A q \in Replicas : Ordered(Needs[tx'[q].op][enabled], tx'[q].held)
    BY <1>1 DEF LocksInOrder
  <1> QED  BY <1>2 DEF LocksInOrder, Ordered, Needs

\* Nothing is held yet, or any more.
LEMMA NothingHeld ==
  /\ \A op, n, row : Begun(op, n, row).held = {}
  /\ Idle.held = {}
  /\ \A needed : Ordered(needed, {})
  BY DEF Begun, Idle, Ordered

\* The next lock is taken.
LEMMA NextOrdered ==
  ASSUME Typed, LocksInOrder, NEW r \in Replicas, NEW l, Waits(r, l)
  PROVE  Ordered(Needs[tx[r].op][enabled], tx[r].held \cup {l})
  <1> DEFINE needed == Needs[tx[r].op][enabled]
  <1>1. needed \in SUBSET Locks
    BY LocksNeeded DEF Typed, Transaction
  <1>2. Ordered(needed, tx[r].held)  BY DEF LocksInOrder
  <1>3. l \in needed \ tx[r].held /\ (needed \ tx[r].held) \cap Earlier[l] = {}
    BY DEF Waits, Missing
  <1> HIDE DEF needed
  <1>4. Ordered(needed, tx[r].held \cup {l})
    BY <1>1, <1>2, <1>3, OrderedTaken
  <1> QED  BY <1>4 DEF needed

LEMMA TakeLockOrder ==
  ASSUME Typed, LocksInOrder, NEW r \in Replicas, NEW l, NEW n, TakeLock(r, l, n)
  PROVE  LocksInOrder'
  <1>1. PICK t \in Transaction :
            /\ tx' = [tx EXCEPT ![r] = t]
            /\ t.held = tx[r].held \cup {l} /\ t.op = tx[r].op
    BY TakeLockEffect
  <1>2. Ordered(Needs[t.op][enabled], t.held)
    BY <1>1, NextOrdered DEF TakeLock
  <1> QED  BY <1>1, <1>2, LocalOrder DEF TakeLock

LEMMA UsageOrder ==
  ASSUME Inductive, LocksInOrder, NEW r \in Replicas, Measure(r) \/ LockUsage(r)
  PROVE  LocksInOrder'
  <1>1. Typed  BY DEF Inductive
  <1>2. CASE Measure(r)
    <2>1. PICK t \in Transaction :
            tx' = [tx EXCEPT ![r] = t] /\ t.held = tx[r].held /\ t.op = tx[r].op
      BY <1>2, MeasureEffect
    <2>2. Ordered(Needs[t.op][enabled], t.held)  BY <2>1 DEF LocksInOrder
    <2> QED  BY <1>1, <1>2, <2>1, <2>2, LocalOrder DEF Measure
  <1>3. CASE LockUsage(r)
    <2>1. PICK t \in Transaction :
            /\ tx' = [tx EXCEPT ![r] = t]
            /\ t.held = tx[r].held \cup {"usage"} /\ t.op = tx[r].op
      BY <1>3, LockUsageEffect
    <2>2. Ordered(Needs[t.op][enabled], t.held)
      BY <1>1, <1>3, <2>1, NextOrdered DEF LockUsage, UsageFree
    <2> QED  BY <1>1, <1>3, <2>1, <2>2, LocalOrder DEF LockUsage
  <1> QED  BY <1>2, <1>3

LEMMA LocksInOrderKept ==
  ASSUME Inductive, LocksInOrder, [Next]_vars
  PROVE  LocksInOrder'
  <1>1. Typed  BY DEF Inductive
  <1>2. ASSUME NEW r \in Replicas, NEW op, NEW n, NEW row, Start(r, op, n, row)
        PROVE  LocksInOrder'
    <2>1. PICK t : t = Begun(op, n, row)  OBVIOUS
    <2>2. t.held = {}  BY <2>1, NothingHeld
    <2>3. Ordered(Needs[t.op][enabled], t.held)  BY <2>2, NothingHeld
    <2> QED  BY <1>1, <1>2, <2>1, <2>3, LocalOrder DEF Start
  <1>3. ASSUME NEW r \in Replicas, RollBack(r) \/ Commit(r) PROVE LocksInOrder'
    <2>1. PICK t : t = Idle  OBVIOUS
    <2>2. t.held = {}  BY <2>1, NothingHeld
    <2>3. Ordered(Needs[t.op][enabled], t.held)  BY <2>2, NothingHeld
    <2> QED  BY <1>1, <1>3, <2>1, <2>3, LocalOrder DEF RollBack, Commit
  <1>4. ASSUME NEW r \in Replicas, NEW l, NEW n, TakeLock(r, l, n)
        PROVE  LocksInOrder'
    BY <1>1, <1>4, TakeLockOrder
  <1>5. ASSUME NEW r \in Replicas, Measure(r) \/ LockUsage(r) PROVE LocksInOrder'
    BY <1>5, UsageOrder
  <1>6. ASSUME UNCHANGED <<tx, enabled>> PROVE LocksInOrder'
    BY <1>6 DEF LocksInOrder, Ordered, Needs
  <1>7. CASE Redeploy
    <2>1. \A r \in Replicas : tx'[r].held = {}
      BY <1>7, NothingHeld DEF Redeploy
    <2>2. \A r \in Replicas : Ordered(Needs[tx'[r].op][enabled'], tx'[r].held)
      BY <2>1, NothingHeld
    <2> QED  BY <2>2 DEF LocksInOrder, Ordered, Needs
  <1>8. (\E i \in Rows : Revoke(i)) \/ ChangePlan \/ UNCHANGED vars
          => UNCHANGED <<tx, enabled>>
    BY DEF Revoke, ChangePlan, vars
  <1>9. CASE Next
    BY <1>9, <1>2, <1>3, <1>4, <1>5, <1>6, <1>7, <1>8, Steps DEF Write, Admit, Call
  <1> QED  BY <1>6, <1>8, <1>9

LEMMA OrderInvariance == Spec => [](Inductive /\ LocksInOrder)
  <1>1. Init => LocksInOrder
    BY NothingHeld DEF Init, LocksInOrder
  <1>2. Inductive /\ LocksInOrder /\ [Next]_vars => LocksInOrder'
    BY LocksInOrderKept
  <1> QED  BY <1>1, <1>2, Invariance, PTL DEF Spec

\* Everything held comes before what is waited for.
LEMMA HeldBefore ==
  ASSUME Typed, LocksInOrder, NEW r \in Replicas, NEW m, Waits(r, m)
  PROVE  m \in Locks /\ \A l \in tx[r].held : l \in Earlier[m]
  <1> DEFINE needed == Needs[tx[r].op][enabled]
  <1>1. /\ tx[r].held \subseteq Locks /\ tx[r].op \in Operations \cup {"none"}
        /\ enabled \in BOOLEAN
    BY DEF Typed, Transaction
  <1>2. m \in needed \ tx[r].held  BY DEF Waits, Missing
  <1>3. needed \subseteq Locks  BY <1>1, LocksNeeded
  <1>4. Ordered(needed, tx[r].held)  BY DEF LocksInOrder
  <1> HIDE DEF needed
  <1>5. ASSUME NEW l \in tx[r].held PROVE l \in Earlier[m]
    <2>1. m \notin Earlier[l]  BY <1>2, <1>4 DEF Ordered
    <2> QED  BY <1>1, <1>2, <1>3, <2>1, OrderIsTotal
  <1> QED  BY <1>2, <1>3, <1>5

\* A transaction waits for one lock at a time.
LEMMA OneWait ==
  ASSUME Typed, LocksInOrder, NEW r \in Replicas, NEW l, NEW m,
         Waits(r, l), Waits(r, m)
  PROVE  l = m
  <1>1. l \in Locks /\ m \in Locks  BY HeldBefore
  <1>2. l \notin Earlier[m] /\ m \notin Earlier[l]  BY DEF Waits
  <1> QED  BY <1>1, <1>2, OrderIsTotal

LEMMA CirclesHaveShares ==
  ASSUME Typed, LocksInOrder
  PROVE  OnlySharesDeadlock
  <1> SUFFICES ASSUME NEW S \in SUBSET Replicas, Circle(S),
                      \A s, q \in S : ~(Waits(s, "share") /\ "org" \in tx[q].held)
               PROVE  FALSE
    BY DEF OnlySharesDeadlock
  <1>1. \A s \in S : \E q \in S, m \in Locks : Waits(s, m) /\ Row(m) \in tx[q].held
    BY DEF Circle, Blocks
  <1>2. ASSUME NEW s \in S PROVE ~Waits(s, "share")
    <2> SUFFICES ASSUME Waits(s, "share") PROVE FALSE  OBVIOUS
    <2>1. PICK q \in S, m \in Locks : Waits(s, m) /\ Row(m) \in tx[q].held
      BY <1>1
    <2>2. m = "share"  BY <2>1, OneWait
    <2> QED  BY <2>1, <2>2 DEF Row
  <1>3. \A s \in S : \E q \in S, m \in Locks \ {"share"} :
            Waits(s, m) /\ m \in tx[q].held
    BY <1>1, <1>2 DEF Row
  \* What s waits for comes after l, and somebody in the circle holds it.
  <1>4. ASSUME NEW s \in S, NEW l \in tx[s].held
        PROVE  \E q \in S, m \in Locks \ {"share"} :
                   l \in Earlier[m] /\ m \in tx[q].held
    <2>1. PICK q \in S, m \in Locks \ {"share"} : Waits(s, m) /\ m \in tx[q].held
      BY <1>3
    <2>2. l \in Earlier[m]  BY <2>1, HeldBefore
    <2> QED  BY <2>1, <2>2
  <1>5. \A s \in S : "usage" \notin tx[s].held
    BY <1>4, OrderIsTotal
  <1>6. \A s \in S : "principal" \notin tx[s].held
    BY <1>4, <1>5, OrderIsTotal
  <1>7. \A s \in S : "job" \notin tx[s].held
    BY <1>4, <1>5, <1>6, OrderIsTotal
  <1>8. \A s \in S : "org" \notin tx[s].held
    BY <1>4, <1>5, <1>6, <1>7, OrderIsTotal DEF Locks
  <1>9. PICK s \in S : TRUE  BY DEF Circle
  <1>10. PICK q \in S, m \in Locks \ {"share"} : m \in tx[q].held
    BY <1>3, <1>9
  <1> QED  BY <1>5, <1>6, <1>7, <1>8, <1>10 DEF Locks

\* Every deadlock goes through the row of the organisation and a key share on
\* it, whatever calls are under way: somebody in the circle has inserted rows
\* that refer to the organisation, and somebody has locked its row first.
THEOREM DeadlocksNeedShares == Spec => []OnlySharesDeadlock
  <1>1. Inductive /\ LocksInOrder => OnlySharesDeadlock
    BY CirclesHaveShares DEF Inductive
  <1> QED  BY <1>1, OrderInvariance, PTL

\* A smallest circle is a deadlock: whoever keeps nobody in it waiting could be
\* left out.
LEMMA CircleIsDeadlock ==
  ASSUME NEW S \in SUBSET Replicas, Circle(S)
  PROVE  \E r \in S : Deadlocked(r)
  <1> DEFINE circles == {T \in SUBSET S : Circle(T)}
  <1>1. IsFiniteSet(S)  BY FS_Subset, QuotaAssumption
  <1>2. circles \subseteq SUBSET S /\ S \in circles  OBVIOUS
  <1> HIDE DEF circles
  <1>3. PICK T \in circles : \A U \in circles : U \subseteq T => U = T
    BY <1>1, <1>2, LeastSubset
  <1>4. T \subseteq S /\ T # {} /\ \A s \in T : \E q \in T : Blocks(q, s)
    BY DEF circles, Circle
  <1>5. ASSUME NEW s \in T PROVE \E q \in T : Blocks(s, q)
    <2> SUFFICES ASSUME \A q \in T : ~Blocks(s, q) PROVE FALSE  OBVIOUS
    <2> DEFINE U == T \ {s}
    <2>1. \A q \in T : \E p \in U : Blocks(p, q)  BY <1>4
    <2>2. U # {}  BY <2>1
    <2>3. U \in circles  BY <1>4, <2>1, <2>2 DEF circles, Circle
    <2> QED  BY <1>3, <2>3
  <1>6. PICK r \in T : TRUE  BY <1>4
  <1>7. Deadlocked(r)  BY <1>4, <1>5, <1>6 DEF Deadlocked
  <1> QED  BY <1>4, <1>6, <1>7

\* Some lock that is missing comes first.
LEMMA SomeLockNext ==
  ASSUME Typed, NEW r \in Replicas, ~(Missing(r) \subseteq {"share"})
  PROVE  \E l \in Locks \ {"share"} : Waits(r, l)
  <1>1. Missing(r) \subseteq Locks
    BY LocksNeeded DEF Missing, Typed, Transaction
  <1>2. CASE "org" \in Missing(r)
    <2>1. Missing(r) \cap Earlier["org"] = {}  BY <1>1, OrderIsTotal DEF Locks
    <2> QED  BY <1>2, <2>1 DEF Waits, Locks
  <1>3. CASE "org" \notin Missing(r) /\ "job" \in Missing(r)
    <2>1. Missing(r) \cap Earlier["job"] = {}
      BY <1>1, <1>3, OrderIsTotal DEF Locks
    <2> QED  BY <1>3, <2>1 DEF Waits, Locks
  <1>4. CASE /\ "org" \notin Missing(r) /\ "job" \notin Missing(r)
             /\ "principal" \in Missing(r)
    <2>1. Missing(r) \cap Earlier["principal"] = {}
      BY <1>1, <1>4, OrderIsTotal DEF Locks
    <2> QED  BY <1>4, <2>1 DEF Waits, Locks
  <1>5. CASE Missing(r) \cap {"org", "job", "principal"} = {}
    <2>1. "usage" \in Missing(r)  BY <1>1, <1>5 DEF Locks
    <2>2. Missing(r) \cap Earlier["usage"] = {}
      BY <1>1, <1>5, OrderIsTotal DEF Locks
    <2> QED  BY <2>1, <2>2 DEF Waits, Locks
  <1> QED  BY <1>2, <1>3, <1>4, <1>5

LEMMA SomebodyGoesOn ==
  ASSUME Typed, LocksInOrder
  PROVE  SomebodyMoves
  <1> DEFINE busy == {r \in Replicas : tx[r].op # "none"}
  <1> SUFFICES ASSUME busy # {}, \A r \in busy : Blocked(r)
               PROVE  \E r \in Replicas : Deadlocked(r)
    BY SomeLockNext DEF SomebodyMoves, Ready
  <1>1. \A q \in Replicas \ busy : tx[q].held = {}
    <2> TAKE q \in Replicas \ busy
    <2>1. tx[q].op = "none" /\ enabled \in BOOLEAN  BY DEF Typed
    <2>2. Needs["none"][enabled] = {}
      BY <2>1 DEF Needs, Charging, Deleting, Locks
    <2>3. tx[q].held \subseteq Needs[tx[q].op][enabled]
      BY DEF LocksInOrder, Ordered
    <2> QED  BY <2>1, <2>2, <2>3
  <1>2. \A s \in busy : \E q \in busy : Blocks(q, s)
    <2> TAKE s \in busy
    <2>1. PICK q \in Replicas : Blocks(q, s)  BY DEF Blocked
    <2>2. tx[q].held # {}  BY <2>1 DEF Blocks
    <2> QED  BY <1>1, <2>1, <2>2
  <1>3. busy \subseteq Replicas /\ Circle(busy)  BY <1>2 DEF Circle
  <1> HIDE DEF busy
  <1> QED  BY <1>3, CircleIsDeadlock

\* The safety part of every call returning: there is no state in which calls
\* are under way and none of them can go on or be ended as a deadlock, whatever
\* the calls, their number and the order in which they came.
THEOREM NobodyStuck == Spec => []SomebodyMoves
  <1>1. Inductive /\ LocksInOrder => SomebodyMoves
    BY SomebodyGoesOn DEF Inductive
  <1> QED  BY <1>1, OrderInvariance, PTL

-----------------------------------------------------------------------------
(* Quota implements Allowance.                                             *)

\* The plan read by whoever has the usage row in `txs`.
OfferOf(txs) ==
    LET charging == {r \in Replicas : "usage" \in txs[r].held}
    IN  IF charging = {} THEN None ELSE txs[CHOOSE r \in charging : TRUE].plan

LEMMA Offers == Offer = OfferOf(tx) /\ Offer' = OfferOf(tx')
  BY DEF Offer, OfferOf

LEMMA OfferOfHolder ==
  ASSUME NEW txs, NEW r \in Replicas, "usage" \in txs[r].held,
         \A q \in Replicas : q # r => "usage" \notin txs[q].held
  PROVE  OfferOf(txs) = txs[r].plan
  <1>1. {q \in Replicas : "usage" \in txs[q].held} = {r}  OBVIOUS
  <1>2. (CHOOSE q \in {r} : TRUE) = r  OBVIOUS
  <1> QED  BY <1>1, <1>2 DEF OfferOf

LEMMA OfferOfNobody ==
  ASSUME NEW txs, \A q \in Replicas : "usage" \notin txs[q].held
  PROVE  OfferOf(txs) = None
  BY DEF OfferOf

\* At most one transaction has the usage row, and it has read a plan.
LEMMA HolderAlone ==
  ASSUME Inductive, NEW r \in Replicas, "usage" \in tx[r].held
  PROVE  /\ \A q \in Replicas : q # r => "usage" \notin tx[q].held
         /\ Offer = tx[r].plan /\ Offer \in Plans /\ Offer # None
  <1>1. \A q \in Replicas : q # r => "usage" \notin tx[q].held
    BY DEF Inductive, Exclusive, Apart
  <1>2. Offer = tx[r].plan  BY <1>1, OfferOfHolder, Offers
  <1>3. tx[r].plan \in Plans  BY DEF Inductive, Sound, Charged
  <1> QED  BY <1>1, <1>2, <1>3, QuotaAssumption

LEMMA OfferKept ==
  ASSUME Inductive, NEW r \in Replicas, NEW t, tx' = [tx EXCEPT ![r] = t],
         "usage" \notin tx[r].held, "usage" \notin t.held
  PROVE  Offer' = Offer
  <1>1. tx'[r] = t /\ \A q \in Replicas : q # r => tx'[q] = tx[q]
    BY DEF Inductive, Typed
  <1>2. ASSUME NEW q \in Replicas, "usage" \in tx[q].held PROVE Offer' = Offer
    <2>1. q # r /\ tx'[q] = tx[q]  BY <1>1, <1>2
    <2>2. \A s \in Replicas : s # q => "usage" \notin tx'[s].held
      BY <1>1, <1>2, HolderAlone
    <2>3. OfferOf(tx') = tx'[q].plan  BY <1>2, <2>1, <2>2, OfferOfHolder
    <2> QED  BY <1>2, <2>1, <2>3, HolderAlone, Offers
  <1>3. ASSUME \A q \in Replicas : "usage" \notin tx[q].held PROVE Offer' = Offer
    <2>1. \A q \in Replicas : "usage" \notin tx'[q].held  BY <1>1, <1>3
    <2> QED  BY <1>3, <2>1, OfferOfNobody, Offers
  <1> QED  BY <1>2, <1>3

LEMMA OfferGone ==
  ASSUME Inductive, NEW r \in Replicas, "usage" \in tx[r].held,
         tx' = [tx EXCEPT ![r] = Idle]
  PROVE  Offer' = None
  <1>1. tx'[r] = Idle /\ \A q \in Replicas : q # r => tx'[q] = tx[q]
    BY DEF Inductive, Typed
  <1>2. \A q \in Replicas : "usage" \notin tx'[q].held
    BY <1>1, HolderAlone, NothingHeld
  <1> QED  BY <1>2, OfferOfNobody, Offers

Stutter == UNCHANGED Atomic!allowanceVars

LEMMA QuietStep ==
  ASSUME Inductive, NEW r \in Replicas, NEW t, tx' = [tx EXCEPT ![r] = t],
         "usage" \notin tx[r].held, "usage" \notin t.held,
         UNCHANGED <<plan, enabled, state, payload, used>>
  PROVE  Stutter
  BY OfferKept DEF Stutter, Atomic!allowanceVars

LEMMA StartRefines ==
  ASSUME Inductive, NEW r \in Replicas, NEW op, NEW n, NEW row, Start(r, op, n, row)
  PROVE  Stutter
  <1>1. PICK t : t = Begun(op, n, row)  OBVIOUS
  <1>2. t.held = {} /\ tx[r].held = {}  BY <1>1, NothingHeld DEF Start
  <1> QED  BY <1>1, <1>2, QuietStep DEF Start

LEMMA TakeLockRefines ==
  ASSUME Inductive, NEW r \in Replicas, NEW l, NEW n, TakeLock(r, l, n)
  PROVE  Stutter
  <1>1. Typed  BY DEF Inductive
  <1>2. PICK t \in Transaction :
            tx' = [tx EXCEPT ![r] = t] /\ t.held = tx[r].held \cup {l}
    BY <1>1, TakeLockEffect
  <1>3. l \in Missing(r) /\ l \in {"org", "job", "principal"}
    BY DEF TakeLock, Waits
  <1>4. "usage" \notin tx[r].held
    BY <1>3 DEF Inductive, Sound, Charged, Missing
  <1> QED  BY <1>2, <1>3, <1>4, QuietStep DEF TakeLock

LEMMA MeasureRefines ==
  ASSUME Inductive, NEW r \in Replicas, Measure(r)
  PROVE  Stutter
  <1>1. PICK t \in Transaction : tx' = [tx EXCEPT ![r] = t] /\ t.held = tx[r].held
    BY MeasureEffect
  <1>2. "usage" \notin tx[r].held  BY DEF Measure, Waits, Missing
  <1> QED  BY <1>1, <1>2, QuietStep DEF Measure

LEMMA LockUsageRefines ==
  ASSUME Inductive, NEW r \in Replicas, LockUsage(r)
  PROVE  Atomic!Look
  <1>1. Waits(r, "usage") /\ ~Blocked(r) /\ UNCHANGED <<plan, enabled, state, payload, used>>
    BY DEF LockUsage, UsageFree
  <1>2. PICK t \in Transaction :
            tx' = [tx EXCEPT ![r] = t] /\ t.held = tx[r].held \cup {"usage"} /\ t.plan = plan
    BY LockUsageEffect
  <1>3. \A q \in Replicas : "usage" \notin tx[q].held
    BY <1>1, TakenAlone DEF Locks, Waits, Missing
  <1>4. tx'[r] = t /\ \A q \in Replicas : q # r => tx'[q] = tx[q]
    BY <1>2 DEF Inductive, Typed
  <1>5. OfferOf(tx') = tx'[r].plan  BY <1>2, <1>3, <1>4, OfferOfHolder
  <1>6. Offer = None /\ Offer' = plan
    BY <1>2, <1>3, <1>4, <1>5, OfferOfNobody, Offers
  <1> QED  BY <1>1, <1>6 DEF Atomic!Look

LEMMA RollBackRefines ==
  ASSUME Inductive, NEW r \in Replicas, RollBack(r)
  PROVE  Atomic!Drop \/ Stutter
  <1>1. CASE "usage" \in tx[r].held
    BY <1>1, HolderAlone, OfferGone DEF RollBack, Atomic!Drop
  <1>2. CASE "usage" \notin tx[r].held
    <2>1. PICK t : t = Idle  OBVIOUS
    <2>2. "usage" \notin t.held  BY <2>1, NothingHeld
    <2> QED  BY <1>2, <2>1, <2>2, QuietStep DEF RollBack
  <1> QED  BY <1>1, <1>2

\* A commit that was charged writes its counter and gives its offer up; without
\* billing nothing is charged.
LEMMA CommitSettles ==
  ASSUME Inductive, NEW r \in Replicas, Commit(r), NEW count,
         tx[r].op \in Charging \cup Deleting \cup {"admit"},
         enabled => tx[r].next = count
  PROVE  Atomic!Settle(count)
  <1>1. /\ tx' = [tx EXCEPT ![r] = Idle]
        /\ used' = IF "usage" \in tx[r].held THEN tx[r].next ELSE used
    BY DEF Commit
  <1>2. CASE enabled
    <2>1. "usage" \in tx[r].held  BY <1>2, CommitHolds DEF Recounting
    <2> QED  BY <1>1, <1>2, <2>1, HolderAlone, OfferGone DEF Atomic!Settle
  <1>3. CASE ~enabled
    <2>1. "usage" \notin tx[r].held
      BY <1>3 DEF Inductive, Sound, Charged, Charging, Deleting
    <2>2. PICK t : t = Idle  OBVIOUS
    <2>3. Offer' = Offer  BY <1>1, <2>1, <2>2, OfferKept, NothingHeld
    <2> QED  BY <1>1, <1>3, <2>1, <2>3 DEF Atomic!Settle
  <1> QED  BY <1>2, <1>3

LEMMA SameCardinality == \A S : Atomic!Cardinality(S) = Cardinality(S)
  BY DEF Atomic!Cardinality, Cardinality

LEMMA CommitRefines ==
  ASSUME Inductive, NEW r \in Replicas, Commit(r)
  PROVE  Atomic!Next \/ Stutter
  <1>1. /\ Sound(tx[r]) /\ tx[r].n \in Nat /\ payload \in Nat /\ enabled \in BOOLEAN
        /\ used \in Nat \cup {None} /\ tx[r].op \in Operations \cup {"none"}
    BY DEF Inductive, Typed, Transaction
  <1>2. /\ plan' = plan /\ enabled' = enabled /\ tx' = [tx EXCEPT ![r] = Idle]
        /\ used' = IF "usage" \in tx[r].held THEN tx[r].next ELSE used
    BY DEF Commit
  <1>3. enabled /\ tx[r].op \in Charging \cup Deleting \cup {"admit"} =>
            "usage" \in tx[r].held /\ Charged(tx[r]) /\ Offer = tx[r].plan /\ Offer # None
    BY <1>1, CommitHolds, HolderAlone DEF Recounting, Sound
  <1>4. CASE tx[r].op \in Charging
    <2>1. payload' = payload + tx[r].n /\ state' = state
      BY <1>4 DEF Commit, Charging
    <2>2. payload' \in Nat /\ payload <= payload' /\ payload' - payload = tx[r].n
      BY <1>1, <2>1
    <2>3. enabled => tx[r].next = Atomic!Counted + (payload' - payload)
      BY <1>3, <1>4, <2>2 DEF Charged, Counted, Stored, Atomic!Counted
    <2>4. Atomic!Settle(Atomic!Counted + (payload' - payload))
      BY <1>4, <2>3, CommitSettles
    <2>5. enabled => Atomic!Fits(Atomic!Counted + (payload' - payload), "bytes")
      BY <1>3, <1>4, <2>3 DEF Charged, Fitted, Within, Atomic!Fits
    <2>6. Atomic!Store  BY <1>2, <2>1, <2>2, <2>4, <2>5 DEF Atomic!Store
    <2> QED  BY <2>6 DEF Atomic!Next
  <1>5. CASE tx[r].op \in Deleting
    <2>1. payload' = payload - tx[r].n /\ state' = state
      BY <1>1, <1>5 DEF Commit, Charging, Deleting
    <2>2. tx[r].n \in 0 .. payload  BY <1>1, <1>5 DEF Sound
    <2>3. enabled => tx[r].next = payload - tx[r].n
      BY <1>3, <1>5 DEF Charged, Counted
    <2>4. Atomic!Settle(payload - tx[r].n)  BY <1>5, <2>3, CommitSettles
    <2>5. Atomic!Delete(tx[r].n)  BY <1>2, <2>1, <2>4 DEF Atomic!Delete
    <2> QED  BY <2>2, <2>5 DEF Atomic!Next
  <1>6. CASE tx[r].op = "admit"
    <2> DEFINE i == tx[r].row
    <2>1. i \in Rows /\ state[i] = "absent"  BY <1>1, <1>6 DEF Sound
    <2>2. payload' = payload /\ state' = [state EXCEPT ![i] = "active"]
      BY <1>1, <1>6 DEF Commit, Charging, Deleting
    <2>3. enabled => tx[r].next = Atomic!Counted
      BY <1>3, <1>6 DEF Charged, Counted, Stored, Atomic!Counted
    <2>4. Atomic!Settle(Atomic!Counted)  BY <1>6, <2>3, CommitSettles
    <2>5. enabled => Atomic!Fits(Cardinality({j \in Rows : Kind[j] = Kind[i] /\ state[j] = "active"}) + 1,
                                 Kind[i])
      BY <1>3, <1>6 DEF Charged, Fitted, Within, Active, ActiveIn, Atomic!Fits
    <2> HIDE DEF i
    <2>6. Atomic!Admit(i)
      BY <1>2, <2>1, <2>2, <2>4, <2>5, SameCardinality DEF Atomic!Admit
    <2> QED  BY <2>1, <2>6 DEF Atomic!Next
  <1>7. CASE tx[r].op = "recalculate"
    <2>1. "usage" \in tx[r].held
      BY <1>1, <1>7, LocksNeeded DEF Commit, Missing
    <2>2. Charged(tx[r]) /\ Offer # None /\ Offer' = None
      BY <1>1, <1>2, <2>1, HolderAlone, OfferGone DEF Sound
    <2>3. used' \in Nat /\ (enabled => used' = payload)
      BY <1>2, <1>7, <2>1, <2>2 DEF Charged, Counted
    <2>4. payload' = payload /\ state' = state
      BY <1>1, <1>7 DEF Commit, Charging, Deleting
    <2>5. Atomic!Recount  BY <1>2, <2>2, <2>3, <2>4 DEF Atomic!Recount
    <2> QED  BY <2>5 DEF Atomic!Next
  <1>8. CASE tx[r].op \notin Charging \cup Recounting \cup {"admit"}
    <2>1. "usage" \notin tx[r].held  BY <1>1, <1>8 DEF Sound, Charged
    <2>2. payload' = payload /\ state' = state /\ used' = used
      BY <1>1, <1>2, <1>8, <2>1 DEF Commit, Recounting
    <2>3. PICK t : t = Idle  OBVIOUS
    <2> QED  BY <1>2, <2>1, <2>2, <2>3, QuietStep, NothingHeld
  <1> QED  BY <1>4, <1>5, <1>6, <1>7, <1>8 DEF Recounting

LEMMA OthersRefine ==
  ASSUME Inductive,
         (\E i \in Rows : Revoke(i) /\ Kind[i] # "instance") \/ ChangePlan \/ Redeploy
  PROVE  Atomic!Next
  <1>1. ASSUME UNCHANGED tx PROVE Offer' = Offer  BY <1>1, Offers
  <1>2. ASSUME NEW i \in Rows, Revoke(i), Kind[i] # "instance" PROVE Atomic!Next
    <2>1. Atomic!Revoke(i)  BY <1>1, <1>2 DEF Revoke, Atomic!Revoke
    <2> QED  BY <2>1 DEF Atomic!Next
  <1>3. CASE ChangePlan
    <2>1. Atomic!ChangePlan  BY <1>1, <1>3 DEF ChangePlan, Atomic!ChangePlan
    <2> QED  BY <2>1 DEF Atomic!Next
  <1>4. CASE Redeploy
    <2>1. Offer = None  BY <1>4, NothingHeld, OfferOfNobody, Offers DEF Redeploy
    <2>2. Atomic!Switch  BY <1>1, <1>4, <2>1 DEF Redeploy, Atomic!Switch
    <2> QED  BY <2>2 DEF Atomic!Next
  <1> QED  BY <1>2, <1>3, <1>4

LEMMA InitRefines ==
  ASSUME Init
  PROVE  Atomic!Init
  <1>1. \A q \in Replicas : tx[q] = Idle  BY DEF Init
  <1>2. Offer = None  BY <1>1, NothingHeld, OfferOfNobody, Offers
  <1>3. payload \in Nat /\ state \in [Rows -> {"absent", "active"}]
    BY QuotaAssumption DEF Init
  <1> QED  BY <1>2, <1>3 DEF Init, Atomic!Init

LEMMA NextRefines ==
  ASSUME Inductive, [Next]_vars
  PROVE  [Atomic!Next]_(Atomic!allowanceVars)
  <1> SUFFICES Atomic!Next \/ Stutter  BY DEF Stutter
  <1>1. ASSUME NEW r \in Replicas,
               \/ \E op \in Charging, n \in Amounts : Write(r, op, n)
               \/ \E i \in Rows : Admit(r, i)
               \/ \E op \in Operations : Call(r, op)
        PROVE  Stutter
    BY <1>1, StartRefines DEF Write, Admit, Call
  <1>2. ASSUME NEW r \in Replicas, NEW l, NEW n, TakeLock(r, l, n) PROVE Stutter
    BY <1>2, TakeLockRefines
  <1>3. ASSUME NEW r \in Replicas,
               Measure(r) \/ LockUsage(r) \/ RollBack(r) \/ Commit(r)
        PROVE  Atomic!Next \/ Stutter
    BY <1>3, MeasureRefines, LockUsageRefines, RollBackRefines, CommitRefines
       DEF Atomic!Next
  <1>4. CASE UNCHANGED vars
    <2>1. Offer' = Offer  BY <1>4, Offers DEF vars
    <2> QED  BY <1>4, <2>1 DEF vars, Stutter, Atomic!allowanceVars
  <1>5. CASE Next
    BY <1>5, <1>1, <1>2, <1>3, OthersRefine, Steps
  <1> QED  BY <1>4, <1>5

\* Calls are atomic, although they take their locks, check, charge and commit
\* in separate steps that interleave with those of any number of replicas:
\* every behaviour of Quota is one of Allowance.
THEOREM CallsAreAtomic == Spec => ImplementsAllowance
  <1>1. Init => Atomic!Init  BY InitRefines
  <1>2. Inductive /\ [Next]_vars => [Atomic!Next]_(Atomic!allowanceVars)
    BY NextRefines
  <1> QED  BY <1>1, <1>2, Invariance, PTL DEF Spec, ImplementsAllowance, Atomic!Spec
=============================================================================
