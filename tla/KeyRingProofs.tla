--------------------------- MODULE KeyRingProofs ---------------------------
(* Theorems about KeyRing: rows keep their texts whatever happens to the    *)
(* keys, and a rotation holds for whatever begins after it.                 *)
EXTENDS KeyRing, TLAPS

-----------------------------------------------------------------------------
(* The inductive invariant.                                                *)

Calls == [stage : {"idle", "provision", "work"}, op : {"none", "write", "rotate"},
          org : Orgs \cup {None}, version : {0} \cup Versions,
          key : Keys \cup {None}, since : {0} \cup Versions,
          new : [Rows -> StoredRows \cup {None}]]

TypeOK ==
    /\ mode \in {"plain", "offline", "encrypted"}
    /\ ring \in [Orgs -> {0} \cup Versions]
    /\ keys \in [Orgs -> [Versions -> Keys \cup {None}]]
    /\ rows \in [Rows -> StoredRows \cup {None}]
    /\ call \in [Clients -> Calls]

\* Every version up to the active one is stored, and no other.
RingExact == \A o \in Orgs, v \in Versions : keys[o][v] # None <=> v <= ring[o]

\* `k` is what is stored as version `v` of `o`.
Stands(o, v, k) == v # 0 /\ k # None /\ keys[o][v] = k

Openable == \A r \in Rows :
    rows[r] # None =>
        IF rows[r].version = 0 THEN rows[r].key = None
        ELSE Stands(OrgOf[r], rows[r].version, rows[r].key)

\* What a call has looked up stands, is not older than the call, and is what it
\* writes under; without encryption it writes plain text.
Looked(q) ==
    /\ q.org \in Orgs
    /\ q.since <= ring[q.org]
    /\ q.version # 0 => Stands(q.org, q.version, q.key) /\ q.since <= q.version
    /\ mode = "encrypted" /\ q.stage = "work" => ring[q.org] # 0

Wrote(q) == \A r \in Rows :
    q.new[r] # None =>
        /\ OrgOf[r] = q.org
        /\ IF mode = "encrypted"
           THEN q.version # 0 /\ q.new[r].version = q.version /\ q.new[r].key = q.key
           ELSE q.new[r].version = 0 /\ q.new[r].key = None

\* Between operations nothing is left over.
Sound(q) == IF q.stage = "idle" THEN \A r \in Rows : q.new[r] = None
            ELSE mode # "offline" /\ Looked(q) /\ Wrote(q)

IInv == TypeOK /\ RingExact /\ Openable /\ \A c \in Clients : Sound(call[c])

-----------------------------------------------------------------------------
(* Calls.                                                                  *)

LEMMA CallParts ==
    ASSUME NEW q \in Calls
    PROVE  /\ q.stage \in {"idle", "provision", "work"} /\ q.op \in {"none", "write", "rotate"}
           /\ q.org \in Orgs \cup {None} /\ q.version \in {0} \cup Versions
           /\ q.key \in Keys \cup {None} /\ q.since \in {0} \cup Versions
           /\ q.new \in [Rows -> StoredRows \cup {None}]
  BY DEF Calls

LEMMA BegunParts ==
    ASSUME NEW s \in {"idle", "provision", "work"}, NEW op \in {"none", "write", "rotate"},
           NEW o \in Orgs \cup {None}, NEW since \in {0} \cup Versions
    PROVE  LET q == Begun(s, op, o, since) IN
           /\ q \in Calls
           /\ q.stage = s /\ q.op = op /\ q.org = o /\ q.version = 0 /\ q.since = since
           /\ \A r \in Rows : q.new[r] = None
  <1>1. [r \in Rows |-> None] \in [Rows -> StoredRows \cup {None}]
    OBVIOUS
  <1> HIDE DEF StoredRows
  <1> QED
    BY <1>1 DEF Begun, Calls

LEMMA IdleParts ==
    /\ Idle \in Calls /\ Idle.stage = "idle"
    /\ \A r \in Rows : Idle.new[r] = None
  BY BegunParts DEF Idle

LEMMA StagedParts ==
    ASSUME NEW q \in Calls
    PROVE  LET u == [q EXCEPT !.stage = "work"] IN
           /\ u \in Calls /\ u.stage = "work"
           /\ u.op = q.op /\ u.org = q.org /\ u.version = q.version /\ u.key = q.key
           /\ u.since = q.since /\ u.new = q.new
  BY Zenon DEF Calls

LEMMA SetVersion ==
    ASSUME NEW q \in Calls, NEW v \in {0} \cup Versions
    PROVE  LET u == [q EXCEPT !.version = v] IN
           /\ u \in Calls /\ u.version = v
           /\ u.stage = q.stage /\ u.op = q.op /\ u.org = q.org /\ u.key = q.key
           /\ u.since = q.since /\ u.new = q.new
  BY Zenon DEF Calls

LEMMA SetKey ==
    ASSUME NEW q \in Calls, NEW k \in Keys \cup {None}
    PROVE  LET u == [q EXCEPT !.key = k] IN
           /\ u \in Calls /\ u.key = k
           /\ u.stage = q.stage /\ u.op = q.op /\ u.org = q.org /\ u.version = q.version
           /\ u.since = q.since /\ u.new = q.new
  BY Zenon DEF Calls

LEMMA SetNew ==
    ASSUME NEW q \in Calls, NEW n \in [Rows -> StoredRows \cup {None}]
    PROVE  LET u == [q EXCEPT !.new = n] IN
           /\ u \in Calls /\ u.new = n
           /\ u.stage = q.stage /\ u.op = q.op /\ u.org = q.org /\ u.version = q.version
           /\ u.since = q.since /\ u.key = q.key
  BY Zenon DEF Calls

LEMMA FlushedParts ==
    ASSUME NEW q \in Calls, NEW r \in Rows, NEW row \in StoredRows
    PROVE  LET u == Flushed(q, r, row) IN
           /\ u \in Calls /\ u.version = row.version /\ u.key = row.key
           /\ u.new = [q.new EXCEPT ![r] = row]
           /\ u.stage = q.stage /\ u.op = q.op /\ u.org = q.org /\ u.since = q.since
  <1> DEFINE v == row.version
             k == row.key
             a == [q EXCEPT !.version = v]
             b == [a EXCEPT !.key = k]
             n == [b.new EXCEPT ![r] = row]
             u == [b EXCEPT !.new = n]
  <1>1. v \in {0} \cup Versions /\ k \in Keys \cup {None}
    BY DEF StoredRows
  <1>2. Flushed(q, r, row) = u
    BY Zenon DEF Flushed
  <1> HIDE DEF v, k
  <1>3. /\ a \in Calls /\ a.version = v
        /\ a.stage = q.stage /\ a.op = q.op /\ a.org = q.org
        /\ a.since = q.since /\ a.new = q.new
    BY <1>1, SetVersion, Zenon
  <1> HIDE DEF a
  <1>4. /\ b \in Calls /\ b.key = k
        /\ b.stage = a.stage /\ b.op = a.op /\ b.org = a.org /\ b.version = a.version
        /\ b.since = a.since /\ b.new = a.new
    BY <1>1, <1>3, SetKey, Zenon
  <1> HIDE DEF b
  <1>5. b.new \in [Rows -> StoredRows \cup {None}]
    BY <1>4, CallParts
  <1>6. n \in [Rows -> StoredRows \cup {None}]
    BY <1>5
  <1> HIDE DEF n
  <1>7. /\ u \in Calls /\ u.new = n
        /\ u.stage = b.stage /\ u.op = b.op /\ u.org = b.org /\ u.version = b.version
        /\ u.since = b.since /\ u.key = b.key
    BY <1>4, <1>6, SetNew, Zenon
  <1>8. n = [q.new EXCEPT ![r] = row]
    BY <1>3, <1>4, Zenon DEF n
  <1> HIDE DEF u
  <1> QED
    BY <1>2, <1>3, <1>4, <1>7, <1>8, Zenon DEF v, k

LEMMA StoredParts ==
    ASSUME NEW x \in Texts, NEW v \in {0} \cup Versions, NEW k \in Keys \cup {None}
    PROVE  LET row == Stored(x, v, k) IN
           /\ row \in StoredRows /\ row # None
           /\ row.text = x /\ row.version = v /\ row.key = k
  <1>1. Stored(x, v, k) \in StoredRows
    BY DEF Stored, StoredRows
  <1>2. LET row == Stored(x, v, k) IN row.text = x /\ row.version = v /\ row.key = k
    BY DEF Stored
  <1> QED
    BY <1>1, <1>2, NoRowAssumption

-----------------------------------------------------------------------------
(* Keys are added, never replaced.                                         *)

Grown ==
    /\ ring' \in [Orgs -> {0} \cup Versions]
    /\ keys' \in [Orgs -> [Versions -> Keys \cup {None}]]
    /\ RingExact'
    /\ \A o \in Orgs : ring[o] <= ring'[o]
    /\ \A o \in Orgs, v \in Versions :
          keys[o][v] # None => keys'[o][v] = keys[o][v]

LEMMA NextKey ==
    ASSUME TypeOK, RingExact, NEW o \in Orgs, NEW k \in Keys, NEW n \in Versions,
           n = ring[o] + 1,
           ring' = [ring EXCEPT ![o] = n],
           keys' = [keys EXCEPT ![o] = [@ EXCEPT ![n] = k]]
    PROVE  Grown
  <1>1. /\ ring \in [Orgs -> {0} \cup Versions]
        /\ keys \in [Orgs -> [Versions -> Keys \cup {None}]]
        /\ ring[o] \in Nat /\ n \in Nat
    BY KeyRingAssumption DEF TypeOK, Versions
  <1>2. k # None
    BY KeyRingAssumption
  <1>3. keys[o][n] = None
    BY <1>1 DEF RingExact
  <1> DEFINE row == [keys[o] EXCEPT ![n] = k]
  <1>4. /\ row \in [Versions -> Keys \cup {None}]
        /\ \A v \in Versions : row[v] = IF v = n THEN k ELSE keys[o][v]
    BY <1>1
  <1>5. keys' = [keys EXCEPT ![o] = row]
    OBVIOUS
  <1> HIDE DEF row
  <1>6. /\ ring' \in [Orgs -> {0} \cup Versions]
        /\ keys' \in [Orgs -> [Versions -> Keys \cup {None}]]
    BY <1>1, <1>4, <1>5
  <1>7. \A p \in Orgs : ring[p] <= ring'[p]
    <2> TAKE p \in Orgs
    <2>1. ring[p] \in Nat
      BY <1>1 DEF Versions
    <2> QED
      BY <1>1, <2>1
  <1>8. \A p \in Orgs, v \in Versions :
           keys'[p][v] = IF p = o /\ v = n THEN k ELSE keys[p][v]
    BY <1>1, <1>4, <1>5
  <1>9. \A p \in Orgs, v \in Versions :
           keys[p][v] # None => keys'[p][v] = keys[p][v]
    BY <1>3, <1>8
  <1>10. RingExact'
    <2> SUFFICES ASSUME NEW p \in Orgs, NEW v \in Versions
                 PROVE  keys'[p][v] # None <=> v <= ring'[p]
      BY DEF RingExact, Versions
    <2>1. v \in Nat /\ ring[p] \in Nat
      BY <1>1 DEF Versions
    <2>2. keys[p][v] # None <=> v <= ring[p]
      BY DEF RingExact
    <2>3. CASE p = o
      <3>1. ring'[p] = n
        BY <1>1, <2>3
      <3> QED
        BY <1>1, <1>2, <1>8, <2>1, <2>2, <2>3, <3>1
    <2>4. CASE p # o
      <3>1. ring'[p] = ring[p]
        BY <1>1, <2>4
      <3> QED
        BY <1>8, <2>2, <2>4, <3>1
    <2> QED
      BY <2>3, <2>4
  <1> QED
    BY <1>6, <1>7, <1>9, <1>10 DEF Grown

LEMMA SameKeys ==
    ASSUME TypeOK, RingExact, UNCHANGED <<ring, keys>>
    PROVE  Grown
  <1>1. \A o \in Orgs : ring[o] <= ring'[o]
    BY KeyRingAssumption DEF TypeOK, Versions
  <1> QED
    BY <1>1 DEF Grown, TypeOK, RingExact

LEMMA Inserted ==
    ASSUME TypeOK, RingExact, NEW o \in Orgs, NEW k \in Keys, Insert(o, k)
    PROVE  Grown /\ ring'[o] # 0
  <1>1. /\ ring \in [Orgs -> {0} \cup Versions] /\ 1 \in Versions
        /\ keys \in [Orgs -> [Versions -> Keys \cup {None}]]
    BY KeyRingAssumption DEF TypeOK, Versions
  <1>2. CASE ring[o] = 0
    <2>1. /\ ring' = [ring EXCEPT ![o] = 1]
          /\ keys' = [keys EXCEPT ![o] = [@ EXCEPT ![1] = k]]
      BY <1>1, <1>2 DEF Insert
    <2>2. 1 = ring[o] + 1
      BY <1>2
    <2>3. Grown
      BY <1>1, <2>1, <2>2, NextKey
    <2> QED
      BY <1>1, <2>1, <2>3
  <1>3. CASE ring[o] # 0
    <2>1. ring' = ring /\ keys' = keys
      BY <1>1, <1>3 DEF Insert
    <2> QED
      BY <1>3, <2>1, SameKeys
  <1> QED
    BY <1>2, <1>3

LEMMA Remains ==
    ASSUME Grown, NEW o \in Orgs, NEW v \in {0} \cup Versions, NEW k, Stands(o, v, k)
    PROVE  Stands(o, v, k)'
  BY DEF Grown, Stands, Versions

LEMMA OpenableRemains ==
    ASSUME TypeOK, Grown, Openable, UNCHANGED rows
    PROVE  Openable'
  <1> SUFFICES ASSUME NEW r \in Rows, rows[r] # None
               PROVE  IF rows[r].version = 0 THEN rows[r].key = None
                      ELSE Stands(OrgOf[r], rows[r].version, rows[r].key)'
    BY DEF Openable, Stands
  <1>1. OrgOf[r] \in Orgs /\ rows[r].version \in {0} \cup Versions
    BY KeyRingAssumption DEF TypeOK, StoredRows
  <1> QED
    BY <1>1, Remains DEF Openable

LEMMA SoundRemains ==
    ASSUME Grown, TypeOK, NEW q \in Calls, Sound(q), UNCHANGED mode
    PROVE  Sound(q)'
  <1>1. /\ q.version \in {0} \cup Versions /\ q.since \in Nat
    BY CallParts, KeyRingAssumption DEF Versions
  <1>2. Wrote(q) => Wrote(q)'
    BY DEF Wrote
  <1>3. Looked(q) => Looked(q)'
    <2> SUFFICES ASSUME Looked(q)
                 PROVE  Looked(q)'
      OBVIOUS
    <2>1. q.org \in Orgs /\ q.since <= ring[q.org]
      BY DEF Looked
    <2>2. ring[q.org] \in Nat /\ ring'[q.org] \in Nat /\ ring[q.org] <= ring'[q.org]
      <3>1. {0} \cup Versions \subseteq Nat
        BY DEF Versions
      <3>2. ring \in [Orgs -> {0} \cup Versions] /\ ring' \in [Orgs -> {0} \cup Versions]
        BY DEF Grown, TypeOK
      <3>3. ring[q.org] <= ring'[q.org]
        BY <2>1 DEF Grown
      <3> QED
        BY <2>1, <3>1, <3>2, <3>3
    <2>3. q.since <= ring'[q.org]
      BY <1>1, <2>1, <2>2
    <2>4. q.version # 0 => Stands(q.org, q.version, q.key)' /\ q.since <= q.version
      BY <1>1, <2>1, Remains DEF Looked
    <2>5. mode' = "encrypted" /\ q.stage = "work" => ring'[q.org] # 0
      BY <2>2 DEF Looked
    <2> QED
      BY <2>1, <2>3, <2>4, <2>5 DEF Looked, Stands
  <1> QED
    BY <1>2, <1>3 DEF Sound

-----------------------------------------------------------------------------
(* Steps of one operation.                                                 *)

LEMMA IdleSound ==
    /\ Sound(Idle)
    /\ Sound(Idle)'
  BY IdleParts DEF Sound

LEMMA OneCall ==
    ASSUME TypeOK, NEW c \in Clients, NEW u \in Calls,
           call' = [call EXCEPT ![c] = u], Sound(u)',
           \A d \in Clients : Sound(call[d]),
           \A q \in Calls : Sound(q) => Sound(q)'
    PROVE  call' \in [Clients -> Calls] /\ \A d \in Clients : Sound(call[d])'
  <1>1. call' \in [Clients -> Calls]
    BY DEF TypeOK
  <1>2. SUFFICES ASSUME NEW d \in Clients
                 PROVE  Sound(call[d])'
    BY <1>1
  <1>3. \A q \in Calls : q = call'[d] /\ Sound(q)' => Sound(call[d])'
    BY DEF Sound, Looked, Wrote, Stands
  <1>4. CASE d = c
    <2>1. call'[d] = u
      BY <1>4 DEF TypeOK
    <2> QED
      BY <1>3, <2>1
  <1>5. CASE d # c
    <2>1. call'[d] = call[d] /\ call[d] \in Calls
      BY <1>5 DEF TypeOK
    <2>2. \A q \in Calls : q = call[d] => Sound(q)
      BY DEF Sound, Looked, Wrote, Stands
    <2> QED
      BY <1>3, <2>1, <2>2
  <1> QED
    BY <1>4, <1>5

LEMMA StepKeeps ==
    ASSUME IInv, Grown, UNCHANGED <<mode, rows>>,
           NEW c \in Clients, NEW u \in Calls,
           call' = [call EXCEPT ![c] = u], Sound(u)'
    PROVE  IInv'
  <1>1. TypeOK /\ RingExact /\ Openable /\ \A d \in Clients : Sound(call[d])
    BY DEF IInv
  <1>2. \A q \in Calls : Sound(q) => Sound(q)'
    BY <1>1, SoundRemains
  <1>3. call' \in [Clients -> Calls] /\ \A d \in Clients : Sound(call[d])'
    BY <1>1, <1>2, OneCall
  <1>4. Openable'
    BY <1>1, OpenableRemains
  <1>5. TypeOK'
    BY <1>1, <1>3 DEF TypeOK, Grown, Calls, StoredRows, Versions
  <1> QED
    BY <1>3, <1>4, <1>5 DEF IInv, Grown

LEMMA BeginKeeps ==
    ASSUME IInv, NEW c \in Clients, NEW o \in Orgs, NEW op \in {"write", "rotate"},
           mode # "offline", Begin(c, o, op)
    PROVE  IInv'
  <1> DEFINE s == IF mode = "encrypted" /\ ring[o] = 0 THEN "provision" ELSE "work"
             u == Begun(s, op, o, ring[o])
  <1>1. TypeOK /\ RingExact
    BY DEF IInv
  <1>2. ring[o] \in {0} \cup Versions /\ ring[o] \in Nat
    BY <1>1 DEF TypeOK, Versions
  <1>3. /\ u \in Calls
        /\ u.stage = s /\ u.op = op /\ u.org = o /\ u.version = 0 /\ u.since = ring[o]
        /\ \A r \in Rows : u.new[r] = None
    BY <1>2, BegunParts
  <1>4. Grown
    BY <1>1, SameKeys DEF Begin
  <1>5. call' = [call EXCEPT ![c] = u] /\ UNCHANGED <<mode, ring, keys, rows>>
    BY DEF Begin
  <1> HIDE DEF u
  <1>6. PICK p \in Calls : p = u
    BY <1>3
  <1>7. Sound(p)'
    BY <1>2, <1>3, <1>5, <1>6 DEF Sound, Looked, Wrote
  <1> QED
    BY <1>4, <1>5, <1>6, <1>7, StepKeeps

\* What is known of an operation under way.
LEMMA UnderWay ==
    ASSUME IInv, NEW c \in Clients, call[c].stage # "idle"
    PROVE  LET q == call[c] IN
           /\ q \in Calls /\ q.org \in Orgs /\ mode # "offline"
           /\ q.since <= ring[q.org]
           /\ q.version # 0 => Stands(q.org, q.version, q.key) /\ q.since <= q.version
           /\ mode = "encrypted" /\ q.stage = "work" => ring[q.org] # 0
           /\ Wrote(q)
  BY DEF IInv, TypeOK, Sound, Looked

LEMMA ProvisionKeeps ==
    ASSUME IInv, NEW c \in Clients, NEW k \in Keys, Provision(c, k)
    PROVE  IInv'
  <1> DEFINE q == call[c]
             u == [q EXCEPT !.stage = "work"]
  <1>1. TypeOK /\ RingExact /\ Sound(call[c]) /\ UNCHANGED <<mode, rows>>
    BY DEF IInv, Provision
  <1>2. q \in Calls /\ q.stage = "provision" /\ q.org \in Orgs /\ mode # "offline"
    BY UnderWay DEF Provision
  <1>3. Grown /\ ring'[q.org] # 0
    BY <1>1, <1>2, Inserted DEF Provision
  <1>4. Sound(q) /\ call' = [call EXCEPT ![c] = u]
    BY <1>1 DEF Provision
  <1>5. /\ u \in Calls /\ u.stage = "work"
        /\ u.op = q.op /\ u.org = q.org /\ u.version = q.version /\ u.key = q.key
        /\ u.since = q.since /\ u.new = q.new
    BY <1>2, StagedParts, Zenon
  <1> HIDE DEF q, u
  <1>6. \A p \in Calls : Sound(p) => Sound(p)'
    BY <1>1, <1>3, SoundRemains
  <1>7. PICK p \in Calls : p = q
    BY <1>2
  <1>8. Sound(p)'
    BY <1>4, <1>6, <1>7 DEF Sound, Looked, Wrote, Stands
  <1>9. PICK w \in Calls : w = u
    BY <1>5
  <1>10. Sound(w)'
    BY <1>1, <1>2, <1>3, <1>5, <1>7, <1>8, <1>9 DEF Sound, Looked, Wrote, Stands
  <1> QED
    BY <1>1, <1>3, <1>4, <1>9, <1>10, StepKeeps

LEMMA GiveUpKeeps ==
    ASSUME IInv, NEW c \in Clients, GiveUp(c)
    PROVE  IInv'
  <1>1. Grown
    BY SameKeys DEF IInv, GiveUp
  <1> QED
    BY <1>1, IdleParts, IdleSound, StepKeeps DEF GiveUp

LEMMA RotateKeeps ==
    ASSUME IInv, NEW c \in Clients, NEW k \in Keys, Rotate(c, k)
    PROVE  IInv'
  <1> DEFINE o == call[c].org
             n == ring[o] + 1
  <1>1. TypeOK /\ RingExact
    BY DEF IInv
  <1>2. o \in Orgs
    BY UnderWay DEF Rotate, Working
  <1>3. ring[o] \in Versions \ {MaxVersion}
    BY DEF Rotate
  <1>4. n \in Versions
    BY <1>3, KeyRingAssumption DEF Versions
  <1>5. /\ ring' = [ring EXCEPT ![o] = n]
        /\ keys' = [keys EXCEPT ![o] = [@ EXCEPT ![n] = k]]
        /\ UNCHANGED <<mode, rows>>
    BY DEF Rotate
  <1>6. call' = [call EXCEPT ![c] = Idle]
    BY DEF Rotate
  <1>7. PICK m \in Versions : m = n
    BY <1>4
  <1> HIDE DEF o, n
  <1>8. m = ring[o] + 1
    BY <1>7 DEF n
  <1>9. Grown
    BY <1>1, <1>2, <1>5, <1>7, <1>8, NextKey
  <1> QED
    BY <1>5, <1>6, <1>9, IdleParts, IdleSound, StepKeeps

-----------------------------------------------------------------------------
(* Writing and committing.                                                 *)

\* What a flush stores in memory, and under which key.
LEMMA WriteEffect ==
    ASSUME IInv, NEW c \in Clients, NEW r \in Rows, NEW x \in Texts, Write(c, r, x)
    PROVE  LET q == call[c] IN
           \E row \in StoredRows :
              /\ row.text = x /\ row # None
              /\ call' = [call EXCEPT ![c] = Flushed(q, r, row)]
              /\ \/ mode = "plain" /\ row.version = 0 /\ row.key = None
                 \/ /\ mode = "encrypted"
                    /\ Stands(q.org, row.version, row.key)
                    /\ q.since <= row.version
                    /\ q.version # 0 => row.version = q.version /\ row.key = q.key
  <1> DEFINE q == call[c]
  <1>1. /\ q \in Calls /\ q.org \in Orgs /\ q.stage = "work"
        /\ q.since <= ring[q.org]
        /\ q.version # 0 => Stands(q.org, q.version, q.key) /\ q.since <= q.version
        /\ mode = "encrypted" /\ q.stage = "work" => ring[q.org] # 0
    BY UnderWay DEF Write, Working
  <1>2. CASE WritePlain(c, r, x)
    <2> DEFINE row == Stored(x, 0, None)
    <2>1. row \in StoredRows /\ row # None /\ row.text = x /\ row.version = 0 /\ row.key = None
      BY StoredParts
    <2>2. mode = "plain" /\ call' = [call EXCEPT ![c] = Flushed(q, r, row)]
      BY <1>2, Zenon DEF WritePlain
    <2> HIDE DEF row
    <2> QED
      BY <2>1, <2>2
  <1>3. CASE WriteEncrypted(c, r, x)
    <2> DEFINE v == ActiveVersion(c, q.org)
               k == IF q.version # 0 THEN q.key ELSE keys[q.org][v]
               row == Stored(x, v, k)
    <2>1. /\ mode = "encrypted" /\ k # None
          /\ call' = [call EXCEPT ![c] = Flushed(q, r, row)]
      BY <1>3, Zenon DEF WriteEncrypted
    <2>2. v \in Versions /\ k \in Keys \cup {None} /\ Stands(q.org, v, k) /\ q.since <= v
      <3>1. CASE q.version # 0
        BY <1>1, <2>1, <3>1, CallParts DEF ActiveVersion
      <3>2. CASE q.version = 0
        <4>1. v = ring[q.org] /\ k = keys[q.org][v] /\ v # 0
          BY <1>1, <2>1, <3>2 DEF ActiveVersion
        <4>2. v \in Versions /\ k \in Keys \cup {None}
          BY <1>1, <4>1 DEF IInv, TypeOK
        <4> QED
          BY <1>1, <2>1, <4>1, <4>2 DEF Stands
      <3> QED
        BY <3>1, <3>2
    <2>3. q.version # 0 => v = q.version /\ k = q.key
      BY DEF ActiveVersion
    <2> HIDE DEF v, k
    <2>4. row \in StoredRows /\ row # None /\ row.text = x /\ row.version = v /\ row.key = k
      BY <2>2, StoredParts
    <2> HIDE DEF row
    <2> QED
      BY <2>1, <2>2, <2>3, <2>4
  <1> QED
    BY <1>2, <1>3 DEF Write

LEMMA WriteKeeps ==
    ASSUME IInv, NEW c \in Clients, NEW r \in Rows, NEW x \in Texts, Write(c, r, x)
    PROVE  IInv'
  <1> DEFINE q == call[c]
  <1>1. /\ q \in Calls /\ q.org \in Orgs /\ q.stage = "work" /\ mode # "offline"
        /\ q.since <= ring[q.org] /\ Wrote(q)
        /\ mode = "encrypted" /\ q.stage = "work" => ring[q.org] # 0
        /\ OrgOf[r] = q.org
    BY UnderWay DEF Write, Working
  <1>2. PICK row \in StoredRows :
              /\ row.text = x /\ row # None
              /\ call' = [call EXCEPT ![c] = Flushed(q, r, row)]
              /\ \/ mode = "plain" /\ row.version = 0 /\ row.key = None
                 \/ /\ mode = "encrypted"
                    /\ Stands(q.org, row.version, row.key)
                    /\ q.since <= row.version
                    /\ q.version # 0 => row.version = q.version /\ row.key = q.key
    BY WriteEffect
  <1> DEFINE u == Flushed(q, r, row)
  <1>3. /\ u \in Calls /\ u.version = row.version /\ u.key = row.key
        /\ u.new = [q.new EXCEPT ![r] = row]
        /\ u.stage = q.stage /\ u.op = q.op /\ u.org = q.org /\ u.since = q.since
    BY <1>1, FlushedParts
  <1>4. call' = [call EXCEPT ![c] = u]
    BY <1>2, Zenon
  <1>5. UNCHANGED <<mode, ring, keys, rows>>
    BY DEF Write
  <1>6. Grown
    BY <1>5, SameKeys DEF IInv
  <1>7. \A s \in Rows : u.new[s] = IF s = r THEN row ELSE q.new[s]
    BY <1>1, <1>3, CallParts
  <1> HIDE DEF u, q
  <1>8. PICK w \in Calls : w = u
    BY <1>3
  <1>9. Looked(w)'
    BY <1>1, <1>2, <1>3, <1>8, <1>5 DEF Looked, Stands
  <1>10. Wrote(w)'
    <2> SUFFICES ASSUME NEW s \in Rows, w.new[s] # None
                 PROVE  /\ OrgOf[s] = w.org
                        /\ IF mode = "encrypted"
                           THEN w.version # 0 /\ w.new[s].version = w.version
                                              /\ w.new[s].key = w.key
                           ELSE w.new[s].version = 0 /\ w.new[s].key = None
      BY <1>5 DEF Wrote
    <2>1. CASE s = r
      BY <1>1, <1>2, <1>3, <1>8, <1>7, <2>1 DEF Stands
    <2>2. CASE s # r
      <3>1. w.new[s] = q.new[s] /\ q.new[s] # None
        BY <1>7, <1>8, <2>2
      <3>2. /\ OrgOf[s] = q.org
            /\ IF mode = "encrypted"
               THEN q.version # 0 /\ q.new[s].version = q.version /\ q.new[s].key = q.key
               ELSE q.new[s].version = 0 /\ q.new[s].key = None
        BY <1>1, <3>1 DEF Wrote
      <3> QED
        BY <1>2, <1>3, <1>8, <3>1, <3>2
    <2> QED
      BY <2>1, <2>2
  <1>11. Sound(w)'
    BY <1>1, <1>3, <1>8, <1>5, <1>9, <1>10 DEF Sound
  <1> QED
    BY <1>3, <1>8, <1>4, <1>5, <1>6, <1>11, StepKeeps

LEMMA CommitKeeps ==
    ASSUME IInv, NEW c \in Clients, Commit(c)
    PROVE  IInv'
  <1> DEFINE q == call[c]
  <1>1. /\ q \in Calls /\ q.org \in Orgs /\ Wrote(q)
        /\ q.version # 0 => Stands(q.org, q.version, q.key)
    BY UnderWay DEF Commit, Working
  <1>2. TypeOK /\ RingExact /\ Openable /\ \A d \in Clients : Sound(call[d])
    BY DEF IInv
  <1>3. UNCHANGED <<mode, ring, keys>> /\ call' = [call EXCEPT ![c] = Idle]
    BY DEF Commit
  <1>4. rows' = [r \in Rows |-> IF q.new[r] = None THEN rows[r] ELSE q.new[r]]
    BY DEF Commit
  <1>5. q.new \in [Rows -> StoredRows \cup {None}]
    BY <1>1, CallParts
  <1> HIDE DEF q
  <1>6. Grown
    BY <1>2, <1>3, SameKeys
  <1>7. rows' \in [Rows -> StoredRows \cup {None}]
    BY <1>2, <1>4, <1>5 DEF TypeOK
  <1>8. Openable'
    <2> SUFFICES ASSUME NEW r \in Rows, rows'[r] # None
                 PROVE  IF rows'[r].version = 0 THEN rows'[r].key = None
                        ELSE Stands(OrgOf[r], rows'[r].version, rows'[r].key)
      BY <1>3 DEF Openable, Stands
    <2>1. CASE q.new[r] = None
      <3>1. rows'[r] = rows[r]
        BY <1>4, <2>1
      <3> QED
        BY <1>2, <3>1 DEF Openable
    <2>2. CASE q.new[r] # None
      <3>1. rows'[r] = q.new[r]
        BY <1>4, <2>2
      <3>2. /\ OrgOf[r] = q.org
            /\ IF mode = "encrypted"
               THEN q.version # 0 /\ q.new[r].version = q.version /\ q.new[r].key = q.key
               ELSE q.new[r].version = 0 /\ q.new[r].key = None
        BY <1>1, <2>2 DEF Wrote
      <3> QED
        BY <1>1, <3>1, <3>2
    <2> QED
      BY <2>1, <2>2
  <1>9. \A p \in Calls : Sound(p) => Sound(p)'
    BY <1>2, <1>3, <1>6, SoundRemains
  <1>10. call' \in [Clients -> Calls] /\ \A d \in Clients : Sound(call[d])'
    BY <1>2, <1>3, <1>9, IdleParts, IdleSound, OneCall
  <1>11. TypeOK'
    BY <1>2, <1>3, <1>7, <1>10 DEF TypeOK, Calls, StoredRows, Versions
  <1> QED
    BY <1>6, <1>8, <1>10, <1>11 DEF IInv, Grown

-----------------------------------------------------------------------------
(* The conversion, and the invariant.                                      *)

\* Steps that leave calls as they are, or end them all.
LEMMA AllIdle ==
    ASSUME call' = [c \in Clients |-> Idle]
    PROVE  call' \in [Clients -> Calls] /\ \A c \in Clients : Sound(call[c])'
  BY IdleParts DEF Sound

LEMMA OfflineIdle ==
    ASSUME IInv, mode = "offline", UNCHANGED call
    PROVE  \A c \in Clients : Sound(call[c])'
  <1> SUFFICES ASSUME NEW c \in Clients
               PROVE  Sound(call[c])'
    OBVIOUS
  <1>1. call[c].stage = "idle"
    BY UnderWay
  <1>2. \A r \in Rows : call[c].new[r] = None
    BY <1>1 DEF IInv, Sound
  <1> QED
    BY <1>1, <1>2 DEF Sound

LEMMA StopKeeps ==
    ASSUME IInv, Stop
    PROVE  IInv'
  <1>1. TypeOK /\ RingExact /\ Openable
    BY DEF IInv
  <1>2. UNCHANGED <<ring, keys, rows>> /\ mode' = "offline"
        /\ call' = [c \in Clients |-> Idle]
    BY DEF Stop
  <1>3. Grown
    BY <1>1, <1>2, SameKeys
  <1>4. call' \in [Clients -> Calls] /\ \A c \in Clients : Sound(call[c])'
    BY <1>2, AllIdle
  <1>5. Openable'
    BY <1>1, <1>2, <1>3, OpenableRemains
  <1>6. TypeOK'
    BY <1>1, <1>2, <1>4 DEF TypeOK, Calls, StoredRows, Versions
  <1> QED
    BY <1>3, <1>4, <1>5, <1>6 DEF IInv, Grown

LEMMA StartKeeps ==
    ASSUME IInv, Start
    PROVE  IInv'
  <1>1. TypeOK /\ RingExact /\ Openable
    BY DEF IInv
  <1>2. UNCHANGED <<ring, keys, rows, call>> /\ mode = "offline" /\ mode' = "encrypted"
    BY DEF Start
  <1>3. Grown
    BY <1>1, <1>2, SameKeys
  <1>4. \A c \in Clients : Sound(call[c])'
    BY <1>2, OfflineIdle
  <1>5. Openable'
    BY <1>1, <1>2, <1>3, OpenableRemains
  <1>6. TypeOK'
    BY <1>1, <1>2 DEF TypeOK, Calls, StoredRows, Versions
  <1> QED
    BY <1>3, <1>4, <1>5, <1>6 DEF IInv, Grown

LEMMA PrepareKeeps ==
    ASSUME IInv, NEW o \in Orgs, NEW k \in Keys, Prepare(o, k)
    PROVE  IInv'
  <1>1. TypeOK /\ RingExact /\ Openable
    BY DEF IInv
  <1>2. UNCHANGED <<mode, rows, call>> /\ mode = "offline" /\ Insert(o, k)
    BY DEF Prepare
  <1>3. Grown
    BY <1>1, <1>2, Inserted
  <1>4. \A c \in Clients : Sound(call[c])'
    BY <1>2, OfflineIdle
  <1>5. Openable'
    BY <1>1, <1>2, <1>3, OpenableRemains
  <1>6. TypeOK'
    BY <1>1, <1>2, <1>3 DEF TypeOK, Grown, Calls, StoredRows, Versions
  <1> QED
    BY <1>3, <1>4, <1>5, <1>6 DEF IInv, Grown

\* Plain rows become envelopes under the active key, the others stay.
LEMMA ConvertEffect ==
    ASSUME IInv, Convert, NEW r \in Rows
    PROVE  /\ ~Plain(r) => rows'[r] = rows[r]
           /\ Plain(r) => /\ rows'[r] \in StoredRows /\ rows'[r] # None
                          /\ rows'[r].text = rows[r].text
                          /\ Stands(OrgOf[r], rows'[r].version, rows'[r].key)
  <1> DEFINE o == OrgOf[r]
  <1>1. o \in Orgs /\ ring[o] # 0
    BY KeyRingAssumption DEF Convert
  <1> DEFINE v == ring[o]
             k == keys[o][v]
             x == rows[r].text
             row == Stored(x, v, k)
  <1>2. v \in Versions /\ v # 0 /\ v <= v
    BY <1>1 DEF IInv, TypeOK, Versions
  <1>3. k # None /\ k \in Keys \cup {None}
    BY <1>1, <1>2 DEF IInv, RingExact, TypeOK
  <1>4. rows'[r] = IF Plain(r) THEN row ELSE rows[r]
    BY DEF Convert
  <1>6. CASE Plain(r)
    <2>1. x \in Texts
      BY <1>6 DEF IInv, TypeOK, Plain, StoredRows
    <2> HIDE DEF x, v, k
    <2>2. row \in StoredRows /\ row # None /\ row.text = x /\ row.version = v /\ row.key = k
      BY <1>2, <1>3, <2>1, StoredParts
    <2> HIDE DEF row
    <2> QED
      BY <1>2, <1>3, <1>4, <1>6, <2>2 DEF Stands, x, k
  <1>7. CASE ~Plain(r)
    BY <1>4, <1>7
  <1> QED
    BY <1>6, <1>7

LEMMA ConvertKeeps ==
    ASSUME IInv, Convert
    PROVE  IInv'
  <1>1. TypeOK /\ RingExact /\ Openable
    BY DEF IInv
  <1>2. UNCHANGED <<mode, ring, keys, call>> /\ mode = "offline"
    BY DEF Convert
  <1>3. Grown
    BY <1>1, <1>2, SameKeys
  <1>4. \A c \in Clients : Sound(call[c])'
    BY <1>2, OfflineIdle
  <1>5. rows' \in [Rows -> StoredRows \cup {None}]
    <2>1. \A r \in Rows : rows'[r] \in StoredRows \cup {None}
      BY <1>1, ConvertEffect DEF TypeOK
    <2>2. DOMAIN rows' = Rows /\ rows' = [r \in Rows |-> rows'[r]]
      BY DEF Convert
    <2> QED
      BY <2>1, <2>2
  <1>6. Openable'
    <2> SUFFICES ASSUME NEW r \in Rows, rows'[r] # None
                 PROVE  IF rows'[r].version = 0 THEN rows'[r].key = None
                        ELSE Stands(OrgOf[r], rows'[r].version, rows'[r].key)
      BY <1>2 DEF Openable, Stands
    <2> QED
      BY <1>1, ConvertEffect DEF Openable, Stands
  <1>7. TypeOK'
    BY <1>1, <1>2, <1>5 DEF TypeOK, Calls, StoredRows, Versions
  <1> QED
    BY <1>3, <1>4, <1>6, <1>7 DEF IInv, Grown

LEMMA InitInv == Init => IInv
  <1> SUFFICES ASSUME Init
               PROVE  IInv
    OBVIOUS
  <1>1. TypeOK
    BY IdleParts DEF Init, TypeOK
  <1>2. RingExact
    BY KeyRingAssumption DEF Init, RingExact, Versions
  <1>3. Openable
    BY DEF Init, Openable
  <1>4. \A c \in Clients : Sound(call[c])
    BY IdleParts DEF Init, Sound
  <1> QED
    BY <1>1, <1>2, <1>3, <1>4 DEF IInv

LEMMA NextInv == IInv /\ [Next]_vars => IInv'
  <1> SUFFICES ASSUME IInv, [Next]_vars
               PROVE  IInv'
    OBVIOUS
  <1>1. ASSUME NEW c \in Clients, NEW o \in Orgs, Dispatch(c, o) \/ AskRotate(c, o)
        PROVE  IInv'
    <2>1. mode # "offline" /\ (Begin(c, o, "write") \/ Begin(c, o, "rotate"))
      BY <1>1 DEF Dispatch, AskRotate
    <2> QED
      BY <2>1, BeginKeeps
  <1>2. ASSUME NEW c \in Clients, NEW k \in Keys, Provision(c, k) \/ Rotate(c, k)
        PROVE  IInv'
    BY <1>2, ProvisionKeeps, RotateKeeps
  <1>3. ASSUME NEW c \in Clients, NEW r \in Rows, NEW x \in Texts, Write(c, r, x)
        PROVE  IInv'
    BY <1>3, WriteKeeps
  <1>4. ASSUME NEW c \in Clients, Commit(c) \/ GiveUp(c)
        PROVE  IInv'
    BY <1>4, CommitKeeps, GiveUpKeeps
  <1>5. CASE Stop \/ Convert \/ Start
    BY <1>5, StopKeeps, ConvertKeeps, StartKeeps
  <1>6. ASSUME NEW o \in Orgs, NEW k \in Keys, Prepare(o, k)
        PROVE  IInv'
    BY <1>6, PrepareKeeps
  <1>7. CASE UNCHANGED vars
    BY <1>7 DEF vars, IInv, TypeOK, RingExact, Openable, Stands, Sound, Looked, Wrote,
                Calls, StoredRows, Versions
  <1> QED
    BY <1>1, <1>2, <1>3, <1>4, <1>5, <1>6, <1>7, Zenon DEF Next

\* Types are kept, every version of a keyring up to the active one has a key
\* that is never replaced, and every stored row was encrypted under the stored
\* key of its version.
THEOREM RowsStayOpenable == Spec => []IInv
  BY InitInv, NextInv, PTL DEF Spec

-----------------------------------------------------------------------------
(* Rotation takes effect.                                                  *)

LEMMA CommitHolds ==
    ASSUME IInv, NEW c \in Clients, Commit(c)
    PROVE  RotationHoldsStep
  <1> DEFINE q == call[c]
  <1>1. /\ q \in Calls /\ Wrote(q)
        /\ q.version # 0 => q.since <= q.version
    BY UnderWay DEF Commit, Working
  <1>2. /\ call' = [call EXCEPT ![c] = Idle]
        /\ rows' = [r \in Rows |-> IF q.new[r] = None THEN rows[r] ELSE q.new[r]]
    BY DEF Commit
  <1>3. q.version \in {0} \cup Versions
    BY <1>1, CallParts
  <1>4. \A d \in Clients, r \in Rows : StoredBy(d, r) => d = c
    <2> SUFFICES ASSUME NEW d \in Clients, NEW r \in Rows, StoredBy(d, r), d # c
                 PROVE  FALSE
      OBVIOUS
    <2>1. call'[d] = call[d]
      BY <1>2 DEF IInv, TypeOK
    <2>2. call[d].stage = "idle" /\ call[d].new[r] # None
      BY <2>1 DEF StoredBy
    <2> QED
      BY <2>2 DEF IInv, Sound
  <1>5. \A r \in Rows : StoredBy(c, r) => rows'[r] = q.new[r] /\ q.new[r] # None
    BY <1>2 DEF StoredBy
  <1>6. SUFFICES ASSUME mode = "encrypted", NEW r \in Rows, StoredBy(c, r)
                 PROVE  /\ rows'[r].version >= q.since
                        /\ rows'[r].version \in Versions
                        /\ \A s \in Rows : StoredBy(c, s) => rows'[s].key = rows'[r].key
    <2> HIDE DEF q
    <2> QED
      BY <1>4 DEF RotationHoldsStep, q
  <1> HIDE DEF q
  <1>7. \A s \in Rows : StoredBy(c, s) =>
           q.version # 0 /\ rows'[s].version = q.version /\ rows'[s].key = q.key
    BY <1>1, <1>5, <1>6 DEF Wrote
  <1>8. q.version \in Nat /\ q.since \in Nat
    BY <1>1, <1>3, CallParts DEF Versions
  <1> QED
    BY <1>1, <1>3, <1>6, <1>7, <1>8

\* Once encryption is on, nothing that an operation stores is plain, under two
\* keys, or under a key older than the one that was active when it began:
\* encrypt_before_flush and encrypt_for_organisation.
THEOREM RotationTakesEffect == Spec => RotationHolds
  <1>1. IInv /\ [Next]_vars => [RotationHoldsStep]_vars
    <2> SUFFICES ASSUME IInv, Next
                 PROVE  RotationHoldsStep
      BY DEF vars
    <2>1. CASE rows' = rows
      BY <2>1 DEF RotationHoldsStep
    <2>2. ASSUME NEW c \in Clients, Commit(c)
          PROVE  RotationHoldsStep
      BY <2>2, CommitHolds
    <2>3. CASE Convert
      BY <2>3 DEF Convert, RotationHoldsStep
    <2>4. (\E c \in Clients : Commit(c)) \/ Convert \/ rows' = rows
      BY DEF Next, Dispatch, AskRotate, Begin, Provision, Rotate, Write, GiveUp, Stop, Start,
             Prepare
    <2> QED
      BY <2>1, <2>2, <2>3, <2>4
  <1> QED
    BY <1>1, InitInv, NextInv, PTL DEF Spec, RotationHolds

-----------------------------------------------------------------------------
(* Rows keep their texts: KeyRing implements TextStore.                    *)

Text == [r \in Rows |-> Meaning(r)]
NewTexts(q) == [r \in Rows |-> TextOf(q.new[r])]
Written == [c \in Clients |-> NewTexts(call[c])]
NoTexts == [r \in Rows |-> None]

\* The abstract actions in these words.
LEMMA AbstractWrite ==
    ASSUME NEW c \in Clients, NEW r \in Rows, NEW x \in Texts,
           \A d \in Clients \ {c} : Written[d][r] = None,
           Written' = [Written EXCEPT ![c] = [@ EXCEPT ![r] = x]],
           Text' = Text
    PROVE  Abstract!Next
  <1>1. Abstract!Write(c, r, x)
    BY Zenon DEF Abstract!Write, Written, Text, NewTexts
  <1> QED
    BY <1>1, Zenon DEF Abstract!Next

LEMMA AbstractCommit ==
    ASSUME NEW c \in Clients,
           Text' = [r \in Rows |-> IF Written[c][r] = None THEN Text[r] ELSE Written[c][r]],
           Written' = [Written EXCEPT ![c] = NoTexts]
    PROVE  Abstract!Next
  <1>1. Abstract!Commit(c)
    BY Zenon DEF Abstract!Commit, Abstract!Nothing, Written, Text, NewTexts, NoTexts
  <1> QED
    BY <1>1, Zenon DEF Abstract!Next

LEMMA AbstractDrop ==
    ASSUME NEW S \in SUBSET Clients,
           Written' = [c \in Clients |-> IF c \in S THEN NoTexts ELSE Written[c]],
           Text' = Text
    PROVE  Abstract!Next
  <1>1. Abstract!Drop(S)
    BY Zenon DEF Abstract!Drop, Abstract!Nothing, Written, Text, NewTexts, NoTexts
  <1> QED
    BY <1>1, Zenon DEF Abstract!Next

LEMMA AbstractStutter ==
    ASSUME Written' = Written, Text' = Text
    PROVE  UNCHANGED Abstract!vars
  BY Zenon DEF Abstract!vars, Written, Text, NewTexts

-----------------------------------------------------------------------------

LEMMA TextsOfRows ==
    ASSUME NEW row \in StoredRows
    PROVE  row.text \in Texts /\ row.text # None /\ TextOf(row) = row.text
  BY KeyRingAssumption, NoRowAssumption DEF StoredRows, TextOf

\* In the states of the program a row means its text.
LEMMA MeaningIsText ==
    ASSUME IInv, NEW r \in Rows
    PROVE  Meaning(r) = TextOf(rows[r])
  BY DEF IInv, Openable, Stands, Meaning, Plain, Opens, TextOf

LEMMA MeaningIsTextNext ==
    ASSUME IInv', NEW r \in Rows
    PROVE  Meaning(r)' = TextOf(rows'[r])
  BY DEF IInv, Openable, Stands, Meaning, Plain, Opens, TextOf

LEMMA SameText ==
    ASSUME IInv, IInv', \A r \in Rows : TextOf(rows'[r]) = TextOf(rows[r])
    PROVE  Text' = Text
  BY MeaningIsText, MeaningIsTextNext DEF Text

LEMMA NothingNew ==
    ASSUME NEW q, \A r \in Rows : q.new[r] = None
    PROVE  NewTexts(q) = NoTexts
  BY DEF NewTexts, NoTexts, TextOf

LEMMA OneWritten ==
    ASSUME TypeOK, NEW c \in Clients, NEW u, call' = [call EXCEPT ![c] = u]
    PROVE  \A d \in Clients : Written'[d] = IF d = c THEN NewTexts(u) ELSE Written[d]
  <1> TAKE d \in Clients
  <1>1. Written'[d] = NewTexts(call'[d]) /\ Written[d] = NewTexts(call[d])
    BY DEF Written, NewTexts
  <1>2. call'[d] = IF d = c THEN u ELSE call[d]
    BY DEF TypeOK
  <1> QED
    BY <1>1, <1>2

\* An operation that has written nothing goes on, or one ends without a commit.
LEMMA SameWritten ==
    ASSUME TypeOK, NEW c \in Clients, NEW u, call' = [call EXCEPT ![c] = u],
           NewTexts(u) = NewTexts(call[c])
    PROVE  Written' = Written
  <1>1. \A d \in Clients : Written'[d] = Written[d]
    BY OneWritten DEF Written
  <1> QED
    BY <1>1 DEF Written

LEMMA Dropped ==
    ASSUME IInv, IInv', UNCHANGED rows, NEW c \in Clients, call' = [call EXCEPT ![c] = Idle]
    PROVE  Abstract!Next
  <1>1. NewTexts(Idle) = NoTexts
    BY IdleParts, NothingNew
  <1>2. \A d \in Clients : Written'[d] = IF d = c THEN NoTexts ELSE Written[d]
    BY <1>1, OneWritten DEF IInv
  <1>3. Written' = [d \in Clients |-> IF d \in {c} THEN NoTexts ELSE Written[d]]
    BY <1>2 DEF Written
  <1>4. Text' = Text
    BY SameText
  <1> QED
    BY <1>3, <1>4, AbstractDrop

LEMMA BeginRefines ==
    ASSUME IInv, IInv', NEW c \in Clients, NEW o, NEW op, Begin(c, o, op)
    PROVE  UNCHANGED Abstract!vars
  <1> DEFINE s == IF mode = "encrypted" /\ ring[o] = 0 THEN "provision" ELSE "work"
             u == Begun(s, op, o, ring[o])
  <1>1. call' = [call EXCEPT ![c] = u] /\ rows' = rows
    BY DEF Begin
  <1>2. \A r \in Rows : u.new[r] = None
    BY DEF Begun
  <1>3. \A r \in Rows : call[c].new[r] = None
    BY DEF Begin, IInv, Sound
  <1> HIDE DEF u
  <1>4. NewTexts(u) = NoTexts /\ NewTexts(call[c]) = NoTexts
    BY <1>2, <1>3, NothingNew
  <1>5. Written' = Written
    BY <1>1, <1>4, SameWritten DEF IInv
  <1>6. Text' = Text
    BY <1>1, SameText
  <1> QED
    BY <1>5, <1>6, AbstractStutter

LEMMA ProvisionRefines ==
    ASSUME IInv, IInv', NEW c \in Clients, NEW k, Provision(c, k)
    PROVE  UNCHANGED Abstract!vars
  <1> DEFINE u == [call[c] EXCEPT !.stage = "work"]
  <1>1. call' = [call EXCEPT ![c] = u] /\ rows' = rows
    BY DEF Provision
  <1>2. call[c] \in Calls
    BY DEF IInv, TypeOK
  <1>3. u.new = call[c].new
    BY <1>2, StagedParts, Zenon
  <1> HIDE DEF u
  <1>4. NewTexts(u) = NewTexts(call[c])
    BY <1>3 DEF NewTexts
  <1>5. Written' = Written
    BY <1>1, <1>4, SameWritten DEF IInv
  <1>6. Text' = Text
    BY <1>1, SameText
  <1> QED
    BY <1>5, <1>6, AbstractStutter

LEMMA WriteRefines ==
    ASSUME IInv, IInv', NEW c \in Clients, NEW r \in Rows, NEW x \in Texts, Write(c, r, x)
    PROVE  Abstract!Next
  <1> DEFINE q == call[c]
  <1>1. PICK row \in StoredRows :
              row.text = x /\ row # None /\ call' = [call EXCEPT ![c] = Flushed(q, r, row)]
    BY WriteEffect
  <1> DEFINE u == Flushed(q, r, row)
  <1>2. q \in Calls /\ q.new \in [Rows -> StoredRows \cup {None}]
    BY CallParts DEF IInv, TypeOK
  <1>3. u.new = [q.new EXCEPT ![r] = row]
    BY <1>2, FlushedParts
  <1>4. call' = [call EXCEPT ![c] = u]
    BY <1>1, Zenon
  <1> HIDE DEF u
  <1>5. NewTexts(u) = [NewTexts(q) EXCEPT ![r] = x]
    <2>1. TextOf(row) = x
      BY <1>1, TextsOfRows
    <2>2. \A s \in Rows : u.new[s] = IF s = r THEN row ELSE q.new[s]
      BY <1>2, <1>3
    <2>3. \A s \in Rows : TextOf(u.new[s]) = IF s = r THEN x ELSE TextOf(q.new[s])
      BY <2>1, <2>2
    <2> QED
      BY <2>3 DEF NewTexts
  <1>6. \A d \in Clients : Written'[d] = IF d = c THEN NewTexts(u) ELSE Written[d]
    BY <1>4, OneWritten DEF IInv
  <1>7. Written[c] = NewTexts(q)
    BY DEF Written
  <1>8. Written' = [Written EXCEPT ![c] = [@ EXCEPT ![r] = x]]
    <2>1. Written' = [d \in Clients |-> Written'[d]]
      BY DEF Written
    <2>2. [Written EXCEPT ![c] = [@ EXCEPT ![r] = x]] =
          [d \in Clients |-> IF d = c THEN [Written[c] EXCEPT ![r] = x] ELSE Written[d]]
      BY DEF Written
    <2> QED
      BY <1>5, <1>6, <1>7, <2>1, <2>2
  <1>9. \A d \in Clients \ {c} : Written[d][r] = None
    BY DEF Write, Free, Written, NewTexts, TextOf
  <1>10. Text' = Text
    BY SameText DEF Write
  <1> QED
    BY <1>8, <1>9, <1>10, AbstractWrite

LEMMA CommitRefines ==
    ASSUME IInv, IInv', NEW c \in Clients, Commit(c)
    PROVE  Abstract!Next
  <1> DEFINE q == call[c]
  <1>1. /\ call' = [call EXCEPT ![c] = Idle]
        /\ rows' = [r \in Rows |-> IF q.new[r] = None THEN rows[r] ELSE q.new[r]]
    BY DEF Commit
  <1>2. q.new \in [Rows -> StoredRows \cup {None}]
    BY CallParts DEF IInv, TypeOK
  <1>3. Written[c] = NewTexts(q)
    BY DEF Written
  <1> HIDE DEF q
  <1>4. \A r \in Rows : Written[c][r] = TextOf(q.new[r])
    BY <1>3 DEF NewTexts
  <1>5. \A r \in Rows : TextOf(q.new[r]) = None <=> q.new[r] = None
    BY <1>2, TextsOfRows DEF TextOf
  <1>6. \A r \in Rows : TextOf(rows'[r]) = IF Written[c][r] = None THEN TextOf(rows[r])
                                                                  ELSE Written[c][r]
    BY <1>1, <1>4, <1>5
  <1>7. Text' = [r \in Rows |-> IF Written[c][r] = None THEN Text[r] ELSE Written[c][r]]
    <2>1. \A r \in Rows : Text[r] = TextOf(rows[r]) /\ Text'[r] = TextOf(rows'[r])
      BY MeaningIsText, MeaningIsTextNext DEF Text
    <2>2. Text' = [r \in Rows |-> Text'[r]]
      BY DEF Text
    <2> QED
      BY <1>6, <2>1, <2>2
  <1>8. NewTexts(Idle) = NoTexts
    BY IdleParts, NothingNew
  <1>9. \A d \in Clients : Written'[d] = IF d = c THEN NoTexts ELSE Written[d]
    BY <1>1, <1>8, OneWritten DEF IInv
  <1>10. Written' = [Written EXCEPT ![c] = NoTexts]
    BY <1>9 DEF Written
  <1> QED
    BY <1>7, <1>10, AbstractCommit

LEMMA StopRefines ==
    ASSUME IInv, IInv', Stop
    PROVE  Abstract!Next
  <1>1. \A d \in Clients : Written'[d] = NoTexts
    <2> TAKE d \in Clients
    <2>1. Written'[d] = NewTexts(call'[d])
      BY DEF Written, NewTexts
    <2>2. call'[d] = Idle
      BY DEF Stop
    <2> QED
      BY <2>1, <2>2, IdleParts, NothingNew
  <1>2. Written' = [d \in Clients |-> IF d \in Clients THEN NoTexts ELSE Written[d]]
    BY <1>1 DEF Written
  <1>3. Text' = Text
    BY SameText DEF Stop
  <1> QED
    BY <1>2, <1>3, AbstractDrop

\* No call changes, and no text.
LEMMA OthersRefine ==
    ASSUME IInv, IInv', UNCHANGED call,
           \A r \in Rows : TextOf(rows'[r]) = TextOf(rows[r])
    PROVE  UNCHANGED Abstract!vars
  <1>1. Written' = Written
    BY DEF Written, NewTexts
  <1> QED
    BY <1>1, SameText, AbstractStutter

LEMMA ConvertRefines ==
    ASSUME IInv, IInv', Convert
    PROVE  UNCHANGED Abstract!vars
  <1>1. ASSUME NEW r \in Rows
        PROVE  TextOf(rows'[r]) = TextOf(rows[r])
    BY ConvertEffect DEF Plain, TextOf
  <1> QED
    BY <1>1, OthersRefine DEF Convert

LEMMA InitRefines == Init => Abstract!Init
  BY DEF Init, Abstract!Init, Abstract!Nothing, Meaning, TextOf, Idle, Begun

LEMMA NextRefines == IInv /\ IInv' /\ [Next]_vars => [Abstract!Next]_(Abstract!vars)
  <1> SUFFICES ASSUME IInv, IInv', [Next]_vars
               PROVE  Abstract!Next \/ UNCHANGED Abstract!vars
    OBVIOUS
  <1>1. ASSUME NEW c \in Clients, NEW o \in Orgs, Dispatch(c, o) \/ AskRotate(c, o)
        PROVE  UNCHANGED Abstract!vars
    BY <1>1, BeginRefines DEF Dispatch, AskRotate
  <1>2. ASSUME NEW c \in Clients, NEW k \in Keys, Provision(c, k) \/ Rotate(c, k)
        PROVE  Abstract!Next \/ UNCHANGED Abstract!vars
    BY <1>2, ProvisionRefines, Dropped DEF Rotate
  <1>3. ASSUME NEW c \in Clients, NEW r \in Rows, NEW x \in Texts, Write(c, r, x)
        PROVE  Abstract!Next
    BY <1>3, WriteRefines
  <1>4. ASSUME NEW c \in Clients, Commit(c) \/ GiveUp(c)
        PROVE  Abstract!Next
    BY <1>4, CommitRefines, Dropped DEF GiveUp
  <1>5. CASE Stop \/ Convert \/ Start
    BY <1>5, StopRefines, ConvertRefines, OthersRefine DEF Start
  <1>6. ASSUME NEW o \in Orgs, NEW k \in Keys, Prepare(o, k)
        PROVE  UNCHANGED Abstract!vars
    BY <1>6, OthersRefine DEF Prepare
  <1>7. CASE UNCHANGED vars
    BY <1>7, OthersRefine DEF vars
  <1> QED
    BY <1>1, <1>2, <1>3, <1>4, <1>5, <1>6, <1>7, Zenon DEF Next

\* Tenant encryption implements the plain store: a row changes its text only
\* when an operation that wrote it commits, and never becomes unreadable, for
\* any number of replicas, rotations and conversions.
THEOREM EncryptionIsTransparent == Spec => ImplementsStore
  BY InitInv, NextInv, InitRefines, NextRefines, PTL DEF Spec, ImplementsStore, Abstract!Spec
=============================================================================
