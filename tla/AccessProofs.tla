---------------------------- MODULE AccessProofs ----------------------------
(***************************************************************************)
(* Proofs about module Access, for any number of principals and scopes,    *)
(* any bounds and any names.                                               *)
(*                                                                         *)
(* The lemmas of the first part are about forests P, which give every      *)
(* shared scope its parent: what Up(P, s), the scopes from s upwards,      *)
(* becomes when scopes hang elsewhere in a forest Q.  In the second part   *)
(* P is the variable `parent` and Q its new value.                         *)
(***************************************************************************)
EXTENDS Access, TLAPS

Forest(P) == \A s \in Shared : P[s] \in Shared \cup {None}
Closed(P, C) == \A s \in C : P[s] \in C \cup {None}
Up(P, s) == {a \in Shared : \A C \in SUBSET Shared : s \in C /\ Closed(P, C) => a \in C}

\* A closed set that contains the scope contains what is above it.
LEMMA UpLeast ==
  ASSUME NEW P, NEW s, NEW C, C \subseteq Shared, s \in C, Closed(P, C)
  PROVE  Up(P, s) \subseteq C
  BY DEF Up

LEMMA UpSelf ==
  ASSUME NEW P, NEW s \in Shared
  PROVE  s \in Up(P, s) /\ Up(P, s) \subseteq Shared
  BY DEF Up

LEMMA UpClosed ==
  ASSUME NEW P, Forest(P), NEW s \in Shared
  PROVE  Closed(P, Up(P, s))
<1> SUFFICES ASSUME NEW a \in Up(P, s), P[a] # None
             PROVE  P[a] \in Up(P, s)
  BY DEF Closed
<1>1. P[a] \in Shared
  BY DEF Up, Forest
<1>2. ASSUME NEW C \in SUBSET Shared, s \in C, Closed(P, C)
      PROVE  P[a] \in C
  BY <1>2 DEF Up, Closed
<1> QED
  BY <1>1, <1>2 DEF Up

\* What is above a scope on the way up is above the scope.
LEMMA UpMonotone ==
  ASSUME NEW P, Forest(P), NEW s \in Shared, NEW a \in Up(P, s)
  PROVE  Up(P, a) \subseteq Up(P, s)
  BY UpClosed, UpSelf, UpLeast

\* The way up depends on the parents along it only.
LEMMA UpLocal ==
  ASSUME NEW P, NEW Q, Forest(P), NEW s \in Shared,
         \A a \in Up(P, s) : Q[a] = P[a]
  PROVE  Up(Q, s) = Up(P, s)
<1>1. Closed(P, Up(P, s)) /\ s \in Up(P, s) /\ Up(P, s) \subseteq Shared
  BY UpClosed, UpSelf
<1>2. Closed(Q, Up(P, s))
  BY <1>1 DEF Closed
<1>3. Up(Q, s) \subseteq Up(P, s)
  BY <1>1, <1>2, UpLeast
<1>4. ASSUME NEW C \in SUBSET Shared, s \in C, Closed(Q, C)
      PROVE  Up(P, s) \subseteq C
  <2>1. Closed(P, C \cap Up(P, s))
    BY <1>1, <1>4 DEF Closed
  <2>2. s \in C \cap Up(P, s) /\ C \cap Up(P, s) \subseteq Shared
    BY <1>1, <1>4
  <2>3. Up(P, s) \subseteq C \cap Up(P, s)
    BY <2>1, <2>2, UpLeast
  <2> QED
    BY <2>3
<1>5. Up(P, s) \subseteq Up(Q, s)
  BY <1>1, <1>4 DEF Up
<1> QED
  BY <1>3, <1>5

\* Q is P but for the place of x.
Moved(P, Q, x) == \A a \in Shared \ {x} : Q[a] = P[a]

\* Where a scope is moved: its new place is above all that it is above.
LEMMA MovedAlong ==
  ASSUME NEW P, NEW Q, Forest(P), Forest(Q), NEW x \in Shared,
         Moved(P, Q, x),
         NEW s \in Shared, x \in Up(P, s)
  PROVE  x \in Up(Q, s)
<1> SUFFICES ASSUME x \notin Up(Q, s)
             PROVE  FALSE
  OBVIOUS
<1>1. Closed(Q, Up(Q, s)) /\ s \in Up(Q, s) /\ Up(Q, s) \subseteq Shared
  BY UpClosed, UpSelf
<1>2. Closed(P, Up(Q, s))
  BY <1>1 DEF Closed, Moved
<1>3. Up(P, s) \subseteq Up(Q, s)
  BY <1>1, <1>2, UpLeast
<1> QED
  BY <1>3

\* What was above a scope still is, unless it was above the scope moved.
LEMMA MoveKeeps ==
  ASSUME NEW P, NEW Q, Forest(P), Forest(Q), NEW x \in Shared,
         Moved(P, Q, x),
         NEW s \in Shared, NEW a \in Up(P, s), a \notin Up(P, x)
  PROVE  a \in Up(Q, s)
<1> DEFINE C == Up(Q, s) \cup Up(P, x)
<1>1. Closed(Q, Up(Q, s)) /\ s \in Up(Q, s) /\ Up(Q, s) \subseteq Shared
  BY UpClosed, UpSelf
<1>2. Closed(P, Up(P, x)) /\ x \in Up(P, x) /\ Up(P, x) \subseteq Shared
  BY UpClosed, UpSelf
<1>3. Closed(P, C)
  BY <1>1, <1>2 DEF Closed, Moved
<1>4. Up(P, s) \subseteq C
  <2> HIDE DEF C
  <2>1. s \in C /\ C \subseteq Shared
    BY <1>1, <1>2 DEF C
  <2> QED
    BY <2>1, <1>3, UpLeast
<1> QED
  BY <1>4

\* Q is P after the children of x have gone to y, and x is no more.
Merged(P, Q, x, y) ==
    \A a \in Shared \ {x} : Q[a] = IF P[a] = x THEN y ELSE P[a]

\* What was under a scope that is merged is under the target.
LEMMA MergedAlong ==
  ASSUME NEW P, NEW Q, Forest(P), Forest(Q), NEW x \in Shared, NEW y \in Shared,
         Merged(P, Q, x, y), NEW s \in Shared, s # x, x \in Up(P, s)
  PROVE  y \in Up(Q, s)
<1> SUFFICES ASSUME y \notin Up(Q, s)
             PROVE  FALSE
  OBVIOUS
<1> DEFINE C == Up(Q, s) \ {x}
<1>1. Closed(Q, Up(Q, s)) /\ s \in Up(Q, s) /\ Up(Q, s) \subseteq Shared
  BY UpClosed, UpSelf
<1>2. ASSUME NEW a \in C
      PROVE  P[a] \in C \cup {None}
  <2>1. a \in Shared \ {x} /\ Q[a] \in Up(Q, s) \cup {None}
    BY <1>1 DEF Closed
  <2>2. P[a] # x
    <3> SUFFICES ASSUME P[a] = x
                 PROVE  FALSE
      OBVIOUS
    <3>1. Q[a] = y
      BY <2>1 DEF Merged
    <3> QED
      BY <3>1, <2>1, AccessAssumption DEF Shared
  <2>3. Q[a] = P[a]
    BY <2>1, <2>2 DEF Merged
  <2> QED
    BY <2>1, <2>2, <2>3
<1>3. Up(P, s) \subseteq C
  <2>1. Closed(P, C)
    BY <1>2 DEF Closed
  <2>2. s \in C /\ C \subseteq Shared
    BY <1>1
  <2> HIDE DEF C
  <2> QED
    BY <2>1, <2>2, UpLeast
<1> QED
  BY <1>3

LEMMA MergeKeeps ==
  ASSUME NEW P, NEW Q, Forest(P), Forest(Q), NEW x \in Shared, NEW y \in Shared,
         Merged(P, Q, x, y), NEW s \in Shared, s # x,
         NEW a \in Up(P, s), a \notin Up(P, x)
  PROVE  a \in Up(Q, s)
<1> DEFINE C == Up(Q, s) \cup Up(P, x)
<1>1. Closed(Q, Up(Q, s)) /\ s \in Up(Q, s) /\ Up(Q, s) \subseteq Shared
  BY UpClosed, UpSelf
<1>2. Closed(P, Up(P, x)) /\ x \in Up(P, x) /\ Up(P, x) \subseteq Shared
  BY UpClosed, UpSelf
<1>3. ASSUME NEW b \in C
      PROVE  P[b] \in C \cup {None}
  <2>1. CASE b \in Up(P, x)
    BY <2>1, <1>2 DEF Closed
  <2>2. CASE b \notin Up(P, x)
    <3>1. b \in Shared \ {x} /\ Q[b] \in Up(Q, s) \cup {None}
      BY <2>2, <1>1, <1>2 DEF Closed
    <3>2. P[b] = x \/ Q[b] = P[b]
      BY <3>1 DEF Merged
    <3> QED
      BY <3>1, <3>2, <1>2
  <2> QED
    BY <2>1, <2>2
<1>4. Up(P, s) \subseteq C
  <2>1. Closed(P, C)
    BY <1>3 DEF Closed
  <2>2. s \in C /\ C \subseteq Shared
    BY <1>1, <1>2
  <2> HIDE DEF C
  <2> QED
    BY <2>1, <2>2, UpLeast
<1> QED
  BY <1>4

-----------------------------------------------------------------------------
(* Well(P, L): the scopes L form one tree under Root, personal scopes apart. *)

Branch(P, L, s) ==
    /\ Root \in Up(P, s)
    /\ s = Root \/ (P[s] \in L /\ MayContain(P[s]))
    /\ s # Root => \A c \in L \ {s} : P[c] = P[s] => Name[c] # Name[s]

Well(P, L) ==
    /\ L \subseteq Scopes /\ Root \in L
    /\ P \in [Scopes -> Scopes \cup {None}]
    /\ P[Root] = None
    /\ \A s \in Scopes : P[s] # None => s \in L /\ s \in Shared /\ P[s] \in Shared
    /\ \A s \in L \cap Shared : Branch(P, L, s)

LEMMA WellForest ==
  ASSUME NEW P, NEW L, Well(P, L)
  PROVE  Forest(P) /\ Root \in Shared
  BY AccessAssumption DEF Well, Forest, Shared

\* Nothing is beneath a scope that is gone.
LEMMA UpLive ==
  ASSUME NEW P, NEW L, Well(P, L), NEW s \in L \cap Shared
  PROVE  Up(P, s) \subseteq L
<1>1. Closed(P, L \cap Shared)
  <2> SUFFICES ASSUME NEW a \in L \cap Shared, P[a] # None
               PROVE  P[a] \in L \cap Shared
    BY DEF Closed
  <2>1. a # Root /\ Branch(P, L, a)
    BY DEF Well
  <2> QED
    BY <2>1 DEF Branch, Well
<1>2. Up(P, s) \subseteq L \cap Shared
  BY <1>1, UpLeast
<1> QED
  BY <1>2

LEMMA GrowWell ==
  ASSUME NEW P, NEW L, Well(P, L), NEW X, X \subseteq Scopes \ Shared
  PROVE  Well(P, L \cup X)
<1> SUFFICES ASSUME NEW s \in (L \cup X) \cap Shared
             PROVE  Branch(P, L \cup X, s)
  BY DEF Well
<1>1. Branch(P, L, s) /\ s \in L
  BY DEF Well
<1>2. ASSUME s # Root
      PROVE  \A c \in (L \cup X) \ {s} : P[c] = P[s] => Name[c] # Name[s]
  <2> SUFFICES ASSUME NEW c \in (L \cup X) \ {s}, P[c] = P[s]
               PROVE  Name[c] # Name[s]
    OBVIOUS
  <2>1. P[s] \in L /\ P[s] # None
    BY <1>1, <1>2, AccessAssumption DEF Branch, Well
  <2>2. c \in L
    BY <2>1 DEF Well
  <2> QED
    BY <1>1, <1>2, <2>2 DEF Branch
<1> QED
  BY <1>1, <1>2 DEF Branch

\* A new scope is above nothing.
LEMMA CreateUp ==
  ASSUME NEW P, NEW L, Well(P, L), NEW n \in Shared \ L, NEW y, NEW s \in L \cap Shared
  PROVE  Up([P EXCEPT ![n] = y], s) = Up(P, s)
<1> DEFINE Q == [P EXCEPT ![n] = y]
<1>1. Up(P, s) \subseteq L /\ Forest(P)
  BY UpLive, WellForest
<1>2. \A a \in Up(P, s) : Q[a] = P[a]
  BY <1>1 DEF Well
<1> HIDE DEF Q
<1>3. Up(Q, s) = Up(P, s)
  BY <1>1, <1>2, UpLocal
<1> QED
  BY <1>3 DEF Q

LEMMA CreateWell ==
  ASSUME NEW P, NEW L, Well(P, L), NEW n \in Workspaces \ L,
         NEW y \in L, MayContain(y),
         \A c \in L \ {n} : P[c] = y => Name[c] # Name[n]
  PROVE  Well([P EXCEPT ![n] = y], L \cup {n})
<1> DEFINE Q == [P EXCEPT ![n] = y]
           M == L \cup {n}
<1>1. n \in Shared /\ n \in Scopes /\ y \in Shared /\ n # Root /\ n # y
  BY AccessAssumption DEF Workspaces, Shared, MayContain, Well
<1>2. /\ Q \in [Scopes -> Scopes \cup {None}] /\ Q[Root] = None
      /\ Q[n] = y /\ \A s \in Scopes \ {n} : Q[s] = P[s]
  BY <1>1, AccessAssumption DEF Well
<1>3. \A s \in L \cap Shared : Up(Q, s) = Up(P, s)
  BY <1>1, CreateUp
<1> HIDE DEF Q
<1>4. /\ M \subseteq Scopes /\ Root \in M
      /\ \A s \in Scopes : Q[s] # None => s \in M /\ s \in Shared /\ Q[s] \in Shared
  BY <1>1, <1>2 DEF Well
<1>5. Forest(Q)
  BY <1>2, <1>4 DEF Forest, Shared
<1>6. ASSUME NEW s \in L \cap Shared
      PROVE  Branch(Q, M, s)
  <2>1. Branch(P, L, s)
    BY DEF Well
  <2>2. Root \in Up(Q, s)
    BY <1>3, <2>1 DEF Branch
  <2>3. Q[s] = P[s] /\ s # n
    BY <1>2 DEF Well
  <2>4. ASSUME s # Root, NEW c \in M \ {s}, Q[c] = Q[s]
        PROVE  Name[c] # Name[s]
    <3>1. CASE c = n
      BY <3>1, <1>2, <2>3, <2>4
    <3>2. CASE c # n
      <4>1. c \in L \ {s} /\ P[c] = P[s]
        BY <3>2, <1>2, <2>3, <2>4 DEF Well
      <4> QED
        BY <4>1, <2>1, <2>4 DEF Branch
    <3> QED
      BY <3>1, <3>2
  <2> QED
    BY <2>1, <2>2, <2>3, <2>4 DEF Branch
<1>7. Branch(Q, M, n)
  <2>1. y \in Up(Q, n)
    BY <1>1, <1>2, <1>5, UpClosed, UpSelf, AccessAssumption DEF Closed, Shared
  <2>2. Root \in Up(Q, y)
    BY <1>1, <1>3 DEF Well, Branch
  <2>3. Root \in Up(Q, n)
    BY <1>1, <1>5, <2>1, <2>2, UpMonotone
  <2>4. \A c \in M \ {n} : Q[c] = Q[n] => Name[c] # Name[n]
    BY <1>2 DEF Well
  <2> QED
    BY <1>1, <1>2, <2>3, <2>4 DEF Branch
<1>8. \A s \in M \cap Shared : Branch(Q, M, s)
  BY <1>6, <1>7
<1>9. Well(Q, M)
  BY <1>2, <1>4, <1>8 DEF Well
<1> QED
  BY <1>9 DEF Q

\* A scope without children is above nothing but itself.
LEMMA DeleteUp ==
  ASSUME NEW P, NEW L, Well(P, L), NEW x \in L \cap Shared,
         \A c \in L : P[c] # x, NEW s \in (L \cap Shared) \ {x}
  PROVE  Up([P EXCEPT ![x] = None], s) = Up(P, s) /\ x \notin Up(P, s)
<1> DEFINE Q == [P EXCEPT ![x] = None]
           C == Up(P, s) \ {x}
<1>1. Up(P, s) \subseteq L /\ Forest(P)
  BY UpLive, WellForest
<1>2. Closed(P, Up(P, s)) /\ s \in Up(P, s) /\ Up(P, s) \subseteq Shared
  BY <1>1, UpClosed, UpSelf
<1>3. Closed(P, C) /\ s \in C /\ C \subseteq Shared
  BY <1>1, <1>2 DEF Closed
<1>4. x \notin Up(P, s)
  <2>1. Up(P, s) \subseteq C
    <3> HIDE DEF C
    <3> QED
      BY <1>3, UpLeast
  <2> QED
    BY <2>1
<1>5. \A a \in Up(P, s) : Q[a] = P[a]
  BY <1>1, <1>4 DEF Well
<1> HIDE DEF Q
<1>6. Up(Q, s) = Up(P, s)
  BY <1>1, <1>5, UpLocal
<1> QED
  BY <1>4, <1>6 DEF Q

LEMMA DeleteWell ==
  ASSUME NEW P, NEW L, Well(P, L), NEW x \in L \cap Workspaces, \A c \in L : P[c] # x
  PROVE  Well([P EXCEPT ![x] = None], L \ {x})
<1> DEFINE Q == [P EXCEPT ![x] = None]
           M == L \ {x}
<1>1. x \in Shared /\ x \in Scopes /\ x # Root
  BY AccessAssumption DEF Workspaces, Shared
<1>2. /\ Q \in [Scopes -> Scopes \cup {None}] /\ Q[Root] = None
      /\ Q[x] = None /\ \A s \in Scopes \ {x} : Q[s] = P[s]
  BY <1>1, AccessAssumption DEF Well
<1>3. \A s \in M \cap Shared : Up(Q, s) = Up(P, s)
  BY <1>1, DeleteUp
<1> HIDE DEF Q
<1>4. /\ M \subseteq Scopes /\ Root \in M
      /\ \A s \in Scopes : Q[s] # None => s \in M /\ s \in Shared /\ Q[s] \in Shared
  BY <1>1, <1>2 DEF Well
<1>5. ASSUME NEW s \in M \cap Shared
      PROVE  Branch(Q, M, s)
  <2>1. Branch(P, L, s) /\ Q[s] = P[s] /\ P[s] # x
    BY <1>2 DEF Well
  <2>2. Root \in Up(Q, s)
    BY <1>3, <2>1 DEF Branch
  <2>3. \A c \in M : Q[c] = P[c]
    BY <1>2 DEF Well
  <2> QED
    BY <2>1, <2>2, <2>3 DEF Branch
<1>6. Well(Q, M)
  BY <1>2, <1>4, <1>5 DEF Well
<1> QED
  BY <1>6 DEF Q

\* A move makes no difference to what is not under the scope moved.
LEMMA MoveAway ==
  ASSUME NEW P, NEW Q, Forest(P), NEW x \in Shared,
         Moved(P, Q, x),
         NEW s \in Shared, x \notin Up(P, s)
  PROVE  Up(Q, s) = Up(P, s)
<1>1. \A a \in Up(P, s) : Q[a] = P[a]
  BY UpSelf DEF Moved
<1> QED
  BY <1>1, UpLocal

LEMMA MoveWell ==
  ASSUME NEW P, NEW L, Well(P, L), NEW x \in L \cap Workspaces,
         NEW y \in L, MayContain(y), x \notin Up(P, y),
         \A c \in L \ {x} : P[c] = y => Name[c] # Name[x],
         NEW Q \in [Scopes -> Scopes \cup {None}],
         Q[x] = y, \A s \in Scopes \ {x} : Q[s] = P[s]
  PROVE  Well(Q, L)
<1>1. x \in Shared /\ x \in Scopes /\ y \in Shared /\ x # Root
  BY AccessAssumption DEF Workspaces, Shared, MayContain, Well
<1>2. Q[Root] = None /\ \A s \in Scopes \ {x} : Q[s] = P[s]
  BY <1>1, AccessAssumption DEF Well
<1>3. \A s \in Scopes : Q[s] # None => s \in L /\ s \in Shared /\ Q[s] \in Shared
  BY <1>1, <1>2 DEF Well
<1>4. Forest(P) /\ Forest(Q)
  BY <1>2, <1>3, WellForest DEF Forest, Shared
<1>5. Moved(P, Q, x)
  BY <1>2 DEF Moved, Shared
<1>6. Root \in Up(Q, y)
  <2>1. Up(Q, y) = Up(P, y)
    BY <1>1, <1>4, <1>5, MoveAway
  <2> QED
    BY <1>1, <2>1 DEF Well, Branch
<1>7. ASSUME NEW s \in L \cap Shared
      PROVE  Root \in Up(Q, s)
  <2>1. CASE x \notin Up(P, s)
    <3>1. Up(Q, s) = Up(P, s)
      BY <1>1, <1>4, <1>5, <2>1, MoveAway
    <3> QED
      BY <3>1 DEF Well, Branch
  <2>2. CASE x \in Up(P, s)
    <3>1. x \in Up(Q, s)
      BY <1>1, <1>4, <1>5, <2>2, MovedAlong
    <3>2. y \in Up(Q, s)
      BY <1>1, <1>2, <1>4, <3>1, UpClosed, AccessAssumption DEF Closed, Shared
    <3>3. Up(Q, y) \subseteq Up(Q, s)
      BY <1>4, <3>2, UpMonotone
    <3> QED
      BY <1>6, <3>3
  <2> QED
    BY <2>1, <2>2
<1>8. ASSUME NEW s \in L \cap Shared
      PROVE  Branch(Q, L, s)
  <2>1. Branch(P, L, s) /\ L \subseteq Scopes
    BY DEF Well
  <2>2. s = Root \/ (Q[s] \in L /\ MayContain(Q[s]))
    BY <1>2, <2>1 DEF Branch
  <2>3. ASSUME s # Root, NEW c \in L \ {s}, Q[c] = Q[s]
        PROVE  Name[c] # Name[s]
    <3>1. CASE c # x /\ s # x
      BY <3>1, <1>2, <2>1, <2>3 DEF Branch
    <3>2. CASE s = x
      BY <3>2, <1>2, <2>1, <2>3
    <3>3. CASE c = x
      BY <3>3, <1>2, <2>1, <2>3
    <3> QED
      BY <3>1, <3>2, <3>3
  <2> QED
    BY <1>7, <2>2, <2>3 DEF Branch
<1> QED
  BY <1>2, <1>3, <1>8 DEF Well

\* A merge makes no difference to what was not under the source.
LEMMA MergeAway ==
  ASSUME NEW P, NEW Q, Forest(P), NEW x \in Shared, NEW y \in Shared,
         Merged(P, Q, x, y), NEW s \in Shared, x \notin Up(P, s)
  PROVE  Up(Q, s) = Up(P, s)
<1>1. ASSUME NEW a \in Up(P, s)
      PROVE  Q[a] = P[a]
  <2>1. a \in Shared \ {x}
    BY UpSelf
  <2>2. P[a] # x
    BY UpClosed, AccessAssumption DEF Closed, Shared
  <2> QED
    BY <2>1, <2>2 DEF Merged
<1> QED
  BY <1>1, UpLocal

LEMMA MergeWell ==
  ASSUME NEW P, NEW L, Well(P, L), NEW x \in L \cap Workspaces, NEW y \in L,
         x # y, MayContain(y), x \notin Up(P, y),
         \A c, d \in L : P[c] = x /\ P[d] = y => Name[c] # Name[d],
         NEW Q, Q = [s \in Scopes |-> IF s = x THEN None ELSE IF P[s] = x THEN y ELSE P[s]]
  PROVE  Well(Q, L \ {x})
<1>1. x \in Shared /\ x \in Scopes /\ y \in Shared /\ y \in Scopes /\ x # Root
  BY AccessAssumption DEF Workspaces, Shared, MayContain, Well
<1>2. /\ Q \in [Scopes -> Scopes \cup {None}] /\ Q[Root] = None
      /\ Q[x] = None
      /\ \A s \in Scopes \ {x} : Q[s] = IF P[s] = x THEN y ELSE P[s]
  BY <1>1, AccessAssumption DEF Well
<1>3. \A s \in Scopes : Q[s] # None => s \in L \ {x} /\ s \in Shared /\ Q[s] \in Shared
  BY <1>1, <1>2, AccessAssumption DEF Well
<1>4. Forest(P) /\ Forest(Q) /\ Merged(P, Q, x, y)
  BY <1>2, <1>3, WellForest DEF Forest, Shared, Merged
<1>5. Root \in Up(Q, y)
  <2>1. Up(Q, y) = Up(P, y)
    BY <1>1, <1>4, MergeAway
  <2> QED
    BY <1>1, <2>1 DEF Well, Branch
<1>6. ASSUME NEW s \in (L \ {x}) \cap Shared
      PROVE  Root \in Up(Q, s)
  <2>1. CASE x \notin Up(P, s)
    <3>1. Up(Q, s) = Up(P, s)
      BY <1>1, <1>4, <2>1, MergeAway
    <3> QED
      BY <3>1 DEF Well, Branch
  <2>2. CASE x \in Up(P, s)
    <3>1. y \in Up(Q, s)
      BY <1>1, <1>4, <2>2, MergedAlong
    <3>2. Up(Q, y) \subseteq Up(Q, s)
      BY <1>4, <3>1, UpMonotone
    <3> QED
      BY <1>5, <3>2
  <2> QED
    BY <2>1, <2>2
<1>7. ASSUME NEW s \in (L \ {x}) \cap Shared
      PROVE  Branch(Q, L \ {x}, s)
  <2>1. Branch(P, L, s) /\ L \subseteq Scopes
    BY DEF Well
  <2>2. s = Root \/ (Q[s] \in L \ {x} /\ MayContain(Q[s]))
    BY <1>1, <1>2, <2>1 DEF Branch
  <2>3. ASSUME s # Root, NEW c \in (L \ {x}) \ {s}, Q[c] = Q[s]
        PROVE  Name[c] # Name[s]
    <3>1. Q[s] = (IF P[s] = x THEN y ELSE P[s]) /\ Q[c] = (IF P[c] = x THEN y ELSE P[c])
      BY <1>2, <2>1
    <3>2. CASE P[c] = P[s]
      BY <3>2, <2>1, <2>3 DEF Branch
    <3>3. CASE P[c] = x /\ P[s] # x
      BY <3>1, <3>3, <2>3
    <3>4. CASE P[s] = x /\ P[c] # x
      BY <3>1, <3>4, <2>3
    <3>5. CASE P[s] # x /\ P[c] # x
      BY <3>1, <3>5, <3>2, <2>3
    <3> QED
      BY <3>2, <3>3, <3>4, <3>5
  <2> QED
    BY <1>6, <2>2, <2>3 DEF Branch
<1>8. L \ {x} \subseteq Scopes /\ Root \in L \ {x}
  BY <1>1 DEF Well
<1> QED
  BY <1>2, <1>3, <1>7, <1>8 DEF Well

-----------------------------------------------------------------------------
(* The inductive invariant: the tree, the types, and personal scopes that    *)
(* belong to their principal and have no grants.                             *)

PersonalRows ==
    \A p \in Principals :
        /\ Personal[p] \in live => owner[Personal[p]] = p
        /\ \A q \in Principals : granted[q][Personal[p]] = "none"

Inductive == TypeOK /\ Well(parent, live) /\ PersonalRows

LEMMA ChainUp ==
  ASSUME NEW s \in Shared
  PROVE  Chain(s) = Up(parent, s) /\ Chain(s)' = Up(parent', s)
  BY DEF Chain, Up, UpwardClosed, Closed, Shared

LEMMA PersonalKinds ==
  /\ \A p \in Principals : Personal[p] \in Scopes \ Shared
  /\ \A s \in Scopes \ Shared : \E p \in Principals : Personal[p] = s
  /\ Root \in Shared /\ Root \in Scopes /\ Workspaces \subseteq Shared \ {Root}
  /\ \A s \in Scopes : MayContain(s) => s \in Shared
  BY AccessAssumption DEF Shared, Workspaces, MayContain

\* Some role of a set is the highest.
LEMMA HighestRole ==
  ASSUME NEW R, R \subseteq Role, R # {}
  PROVE  Highest(R) \in R
<1>1. \E r \in R : \A q \in R : Rank[q] <= Rank[r]
  <2>1. \A r \in Role : Rank[r] \in 0..4
    BY DEF Role, Rank
  <2>2. CASE "admin" \in R
    <3>1. \A q \in R : Rank[q] <= Rank["admin"]
      BY DEF Role, Rank
    <3> QED
      BY <2>2, <3>1
  <2>3. CASE "admin" \notin R /\ "reviewer" \in R
    <3>1. \A q \in R : Rank[q] <= Rank["reviewer"]
      BY <2>3 DEF Role, Rank
    <3> QED
      BY <2>3, <3>1
  <2>4. CASE "admin" \notin R /\ "reviewer" \notin R /\ "writer" \in R
    <3>1. \A q \in R : Rank[q] <= Rank["writer"]
      BY <2>4 DEF Role, Rank
    <3> QED
      BY <2>4, <3>1
  <2>5. CASE R \cap {"admin", "reviewer", "writer"} = {} /\ "reader" \in R
    <3>1. \A q \in R : Rank[q] <= Rank["reader"]
      BY <2>5 DEF Role, Rank
    <3> QED
      BY <2>5, <3>1
  <2>6. CASE R = {"none"}
    BY <2>6 DEF Rank
  <2> QED
    BY <2>2, <2>3, <2>4, <2>5, <2>6 DEF Role
<1> QED
  BY <1>1 DEF Highest

LEMMA RoleType ==
  ASSUME TypeOK, NEW p \in Principals, NEW s \in Scopes
  PROVE  RoleOf(p, s) \in Role
<1>1. CASE s \notin Shared
  BY <1>1 DEF RoleOf, Role, Shared
<1>2. CASE s \in Shared
  <2>1. s \in Chain(s) /\ Chain(s) \subseteq Scopes
    BY <1>2, ChainUp, UpSelf DEF Shared
  <2>2. {granted[p][a] : a \in Chain(s)} \subseteq Role
    BY <2>1 DEF TypeOK
  <2>3. {granted[p][a] : a \in Chain(s)} # {}
    BY <2>1
  <2>4. Highest({granted[p][a] : a \in Chain(s)}) \in Role
    BY <2>2, <2>3, HighestRole
  <2> QED
    BY <2>4 DEF RoleOf, Role
<1> QED
  BY <1>1, <1>2

\* A role that does not change has not risen.
LEMMA NoRise ==
  ASSUME TypeOK, NEW p \in Principals, NEW s \in Scopes,
         RoleOf(p, s)' = RoleOf(p, s)
  PROVE  ~(Rank[RoleOf(p, s)'] > Rank[RoleOf(p, s)])
<1>1. RoleOf(p, s) \in Role
  BY RoleType
<1>2. \A r \in Role : Rank[r] \in Int
  BY DEF Rank, Role
<1> DEFINE r == RoleOf(p, s)
<1>3. Rank[r] \in Int
  BY <1>1, <1>2
<1> HIDE DEF r
<1>4. ~(Rank[r] > Rank[r])
  BY <1>3
<1> QED
  BY <1>4 DEF r

\* A role depends on the chain, the grants on it and the owner.
LEMMA RoleSame ==
  ASSUME NEW p \in Principals, NEW s \in Shared,
         Chain(s)' = Chain(s), owner'[s] = owner[s],
         \A a \in Chain(s) : granted'[p][a] = granted[p][a]
  PROVE  RoleOf(p, s)' = RoleOf(p, s)
<1>1. {granted'[p][a] : a \in Chain(s)} = {granted[p][a] : a \in Chain(s)}
  OBVIOUS
<1>2. RoleOf(p, s)' =
        IF p = OrgAdmin \/ owner[s] = p THEN "admin"
        ELSE IF Cardinality(Chain(s)) > MaxDepth THEN "none"
        ELSE Highest({granted[p][a] : a \in Chain(s)})
  BY <1>1 DEF RoleOf, Shared
<1> QED
  BY <1>2 DEF RoleOf, Shared

\* The organisation admin administers every shared scope.
LEMMA OrgAdminAdministers ==
  ASSUME NEW s \in Shared
  PROVE  Administers(OrgAdmin, s)
  BY DEF Administers, RoleOf, Shared, AtLeast, Role, Rank

LEMMA InductiveImplies ==
  Inductive => TreeOK /\ PersonalApart
<1> SUFFICES ASSUME Inductive
             PROVE  TreeOK /\ PersonalApart
  OBVIOUS
<1>1. TreeOK
  <2> SUFFICES ASSUME NEW s \in live \cap Shared
               PROVE  /\ Root \in Chain(s)
                      /\ s = Root \/ (parent[s] \in live /\ MayContain(parent[s]))
                      /\ s # Root => NameFree(s, parent[s])
    BY DEF TreeOK
  <2>1. Branch(parent, live, s)
    BY DEF Inductive, Well
  <2> QED
    BY <2>1, ChainUp DEF Branch, NameFree
<1>2. ASSUME NEW p \in Principals, NEW own, own = Personal[p]
      PROVE  /\ own \in live => owner[own] = p
             /\ parent[own] = None
             /\ \A s \in Scopes : parent[s] # own
             /\ \A q \in Principals : granted[q][own] = "none" /\ (RoleOf(q, own) # "none" => q = p)
  <2>1. own \in Scopes \ Shared /\ own # None
    BY <1>2, PersonalKinds, AccessAssumption
  <2>2. own \in live => owner[own] = p
    BY <1>2 DEF Inductive, PersonalRows
  <2>3. parent[own] = None /\ \A s \in Scopes : parent[s] # own
    BY <2>1 DEF Inductive, Well
  <2>4. ASSUME NEW q \in Principals
        PROVE  granted[q][own] = "none" /\ (RoleOf(q, own) # "none" => q = p)
    <3>1. granted[q][own] = "none"
      BY <1>2 DEF Inductive, PersonalRows
    <3>2. own \notin live => owner[own] = None
      BY <2>1 DEF Inductive, TypeOK
    <3> QED
      BY <2>1, <2>2, <3>1, <3>2, AccessAssumption DEF RoleOf, Shared
  <2> QED
    BY <2>2, <2>3, <2>4
<1>3. PersonalApart
  BY <1>2 DEF PersonalApart
<1> QED
  BY <1>1, <1>3

-----------------------------------------------------------------------------
(* Every operation preserves the invariant.                                  *)

LEMMA InitInductive == Init => Inductive
<1> SUFFICES ASSUME Init PROVE Inductive
  OBVIOUS
<1>1. TypeOK
  <2>1. Root \in Scopes /\ OrgAdmin \in Principals /\ Personal[OrgAdmin] \in Scopes
    BY AccessAssumption
  <2> QED
    BY <2>1 DEF Init, TypeOK, Role, Audited
<1>2. Well(parent, live)
  <2>1. Branch(parent, live, Root)
    BY UpSelf, PersonalKinds DEF Branch
  <2>2. live \cap Shared = {Root}
    BY PersonalKinds, AccessAssumption DEF Init
  <2> QED
    BY <2>1, <2>2, PersonalKinds, AccessAssumption DEF Init, Well
<1>3. PersonalRows
  BY PersonalKinds, AccessAssumption DEF Init, PersonalRows
<1> QED
  BY <1>1, <1>2, <1>3 DEF Inductive

\* _ensure_personal: what it does to the tables.
LEMMA Ensured ==
  ASSUME Inductive, NEW ps, ps \subseteq Principals, EnsurePersonal(ps)
  PROVE  /\ live' \subseteq Scopes /\ live \subseteq live' /\ live' \ live \subseteq Scopes \ Shared
         /\ owner' \in [Scopes -> Principals \cup {None}]
         /\ \A s \in Shared : owner'[s] = owner[s]
         /\ \A s \in Scopes \ live' : owner'[s] = owner[s]
         /\ \A p \in Principals : Personal[p] \in live' => owner'[Personal[p]] = p
<1>1. \A p \in ps : Personal[p] \in Scopes \ Shared
  BY PersonalKinds
<1>2. live' = live \cup {Personal[p] : p \in ps}
  BY DEF EnsurePersonal
<1>3. \A s \in Scopes :
        owner'[s] = IF \E p \in ps : s = Personal[p] /\ s \notin live
                    THEN CHOOSE p \in ps : s = Personal[p] ELSE owner[s]
  BY DEF EnsurePersonal
<1>4. ASSUME NEW p \in ps
      PROVE  (CHOOSE q \in ps : Personal[p] = Personal[q]) = p
  BY AccessAssumption
<1>5. ASSUME NEW s \in Scopes
      PROVE  owner'[s] \in Principals \cup {None}
  <2>1. CASE \E p \in ps : s = Personal[p] /\ s \notin live
    <3>1. (CHOOSE p \in ps : s = Personal[p]) \in ps
      BY <2>1
    <3> QED
      BY <2>1, <3>1, <1>3
  <2>2. CASE ~(\E p \in ps : s = Personal[p] /\ s \notin live)
    BY <2>2, <1>3 DEF Inductive, TypeOK
  <2> QED
    BY <2>1, <2>2
<1>6. owner' \in [Scopes -> Principals \cup {None}]
  BY <1>5 DEF EnsurePersonal
<1>7. \A s \in Shared : owner'[s] = owner[s]
  BY <1>1, <1>3 DEF Shared
<1>8. \A s \in Scopes \ live' : owner'[s] = owner[s]
  BY <1>2, <1>3
<1>9. ASSUME NEW p \in Principals, Personal[p] \in live'
      PROVE  owner'[Personal[p]] = p
  <2>1. CASE Personal[p] \in live
    BY <2>1, <1>3, PersonalKinds DEF Inductive, PersonalRows
  <2>2. CASE Personal[p] \notin live
    <3>1. p \in ps
      BY <2>2, <1>2, <1>9, AccessAssumption
    <3>2. owner'[Personal[p]] = CHOOSE q \in ps : Personal[p] = Personal[q]
      BY <2>2, <3>1, <1>3, PersonalKinds
    <3> QED
      BY <3>1, <3>2, <1>4
  <2> QED
    BY <2>1, <2>2
<1>10. live' \subseteq Scopes /\ live \subseteq live' /\ live' \ live \subseteq Scopes \ Shared
  BY <1>1, <1>2 DEF Inductive, TypeOK
<1> QED
  BY <1>6, <1>7, <1>8, <1>9, <1>10

\* Operations that change principals and personal scopes only.
LEMMA PrincipalStep ==
  ASSUME Inductive, NEW ps, ps \subseteq Principals, EnsurePersonal(ps),
         status' \in [Principals -> {"absent", "active", "revoked"}],
         status'[OrgAdmin] = "active",
         audit' \in [action : Audited, by : Principals, scope : Scopes \cup {None}],
         UNCHANGED <<parent, granted, withheld>>
  PROVE  Inductive'
<1> DEFINE X == live' \ live
<1>1. live' = live \cup X /\ X \subseteq Scopes \ Shared
  BY Ensured
<1>2. Well(parent, live \cup X)
  <2> HIDE DEF X
  <2> QED
    BY <1>1, GrowWell DEF Inductive
<1>3. Well(parent', live')
  BY <1>1, <1>2
<1>4. TypeOK'
  <2>1. /\ live' \subseteq Scopes /\ live \subseteq live'
        /\ owner' \in [Scopes -> Principals \cup {None}]
        /\ \A s \in Scopes \ live' : owner'[s] = owner[s]
    BY Ensured
  <2> QED
    BY <2>1 DEF Inductive, TypeOK
<1>5. PersonalRows'
  <2>1. \A p \in Principals : Personal[p] \in live' => owner'[Personal[p]] = p
    BY Ensured
  <2> QED
    BY <2>1 DEF Inductive, PersonalRows
<1> QED
  BY <1>3, <1>4, <1>5 DEF Inductive

LEMMA Nobody ==
  ASSUME Inductive
  PROVE  EnsurePersonal({}) <=> live' = live /\ owner' = owner
<1>1. owner = [s \in Scopes |-> owner[s]]
  BY DEF Inductive, TypeOK
<1> QED
  BY <1>1 DEF EnsurePersonal

LEMMA PersonalScopeStep ==
  ASSUME Inductive, NEW by \in Principals, PersonalScope(by)
  PROVE  Inductive'
<1>1. /\ status' \in [Principals -> {"absent", "active", "revoked"}]
      /\ status'[OrgAdmin] = "active"
      /\ audit' \in [action : Audited, by : Principals, scope : Scopes \cup {None}]
  BY DEF PersonalScope, Inductive, TypeOK
<1>2. {by} \subseteq Principals /\ EnsurePersonal({by})
  BY DEF PersonalScope
<1>3. UNCHANGED <<parent, granted, withheld>>
  BY DEF PersonalScope
<1> QED
  BY <1>1, <1>2, <1>3, PrincipalStep

LEMMA PrincipalListStep ==
  ASSUME Inductive, NEW by \in Principals, PrincipalList(by)
  PROVE  Inductive'
<1>1. /\ status' \in [Principals -> {"absent", "active", "revoked"}]
      /\ status'[OrgAdmin] = "active"
      /\ audit' \in [action : Audited, by : Principals, scope : Scopes \cup {None}]
  BY DEF PrincipalList, Inductive, TypeOK
<1>2. EnsurePersonal({p \in Principals : status[p] # "absent"})
  BY DEF PrincipalList
<1>3. UNCHANGED <<parent, granted, withheld>>
  BY DEF PrincipalList
<1> QED
  BY <1>1, <1>2, <1>3, PrincipalStep

LEMMA PrincipalCreateStep ==
  ASSUME Inductive, NEW by \in Principals, NEW p \in Principals, PrincipalCreate(by, p)
  PROVE  Inductive'
<1>1. /\ status' \in [Principals -> {"absent", "active", "revoked"}]
      /\ status'[OrgAdmin] = "active"
  BY AccessAssumption DEF PrincipalCreate, Inductive, TypeOK
<1>2. audit' \in [action : Audited, by : Principals, scope : Scopes \cup {None}]
  BY AccessAssumption DEF PrincipalCreate, Record, Audited
<1> QED
  BY <1>1, <1>2, PrincipalStep DEF PrincipalCreate

LEMMA PrincipalRevokeStep ==
  ASSUME Inductive, NEW by \in Principals, NEW p \in Principals, PrincipalRevoke(by, p)
  PROVE  Inductive'
<1>1. /\ status' \in [Principals -> {"absent", "active", "revoked"}]
      /\ status'[OrgAdmin] = "active"
  BY AccessAssumption DEF PrincipalRevoke, Inductive, TypeOK
<1>2. audit' \in [action : Audited, by : Principals, scope : Scopes \cup {None}]
  BY AccessAssumption DEF PrincipalRevoke, Record, Audited
<1>3. EnsurePersonal({})
  BY Nobody DEF PrincipalRevoke
<1> QED
  BY <1>1, <1>2, <1>3, PrincipalStep DEF PrincipalRevoke

\* What is recorded has the type of an audit row.
LEMMA Recorded ==
  ASSUME NEW by \in Principals, NEW action \in Audited, NEW s \in Scopes \cup {None},
         Record(action, by, s)
  PROVE  /\ audit' \in [action : Audited, by : Principals, scope : Scopes \cup {None}]
         /\ audit'.action = action /\ audit'.by = by /\ audit'.scope = s
  BY DEF Record

\* Operations that change rows of live scopes, and neither scopes nor the tree.
LEMMA RowsStep ==
  ASSUME Inductive, UNCHANGED <<status, live, parent>>,
         owner' \in [Scopes -> Principals \cup {None}],
         granted' \in [Principals -> [Scopes -> Role]],
         withheld' \in [Principals -> [Scopes -> SUBSET Flags]],
         audit' \in [action : Audited, by : Principals, scope : Scopes \cup {None}],
         \A s \in Scopes \ live : owner'[s] = owner[s],
         \A s \in Scopes \ Shared : owner'[s] = owner[s],
         \A q \in Principals, s \in Scopes \ live :
            granted'[q][s] = granted[q][s] /\ withheld'[q][s] = withheld[q][s],
         \A q \in Principals, s \in Scopes \ Shared : granted'[q][s] = granted[q][s]
  PROVE  Inductive'
<1>1. TypeOK'
  BY DEF Inductive, TypeOK
<1>2. Well(parent', live')
  BY DEF Inductive
<1>3. ASSUME NEW p \in Principals
      PROVE  /\ Personal[p] \in live' => owner'[Personal[p]] = p
             /\ \A q \in Principals : granted'[q][Personal[p]] = "none"
  <2>1. Personal[p] \in Scopes \ Shared
    BY PersonalKinds
  <2>2. owner'[Personal[p]] = owner[Personal[p]] /\ live' = live
    BY <2>1
  <2>3. \A q \in Principals : granted'[q][Personal[p]] = granted[q][Personal[p]]
    BY <2>1
  <2> QED
    BY <2>2, <2>3 DEF Inductive, PersonalRows
<1>4. PersonalRows'
  BY <1>3 DEF PersonalRows
<1> QED
  BY <1>1, <1>2, <1>4 DEF Inductive

LEMMA GrantStep ==
  ASSUME Inductive, NEW by \in Principals, NEW p \in Principals, NEW s \in Scopes,
         NEW role \in GrantedRoles, GrantRole(by, p, s, role)
  PROVE  Inductive'
<1>1. s \in live /\ s \in Shared /\ role \in Role
  BY AccessAssumption DEF GrantRole, Shared
<1>2. granted' = [granted EXCEPT ![p][s] = role]
  BY DEF GrantRole
<1>3. granted' \in [Principals -> [Scopes -> Role]]
  BY <1>1, <1>2 DEF Inductive, TypeOK
<1>4. \A q \in Principals, t \in Scopes \ {s} : granted'[q][t] = granted[q][t]
  BY <1>2 DEF Inductive, TypeOK
<1>5. audit' \in [action : Audited, by : Principals, scope : Scopes \cup {None}]
  BY Recorded DEF GrantRole, Audited
<1>6. UNCHANGED <<status, live, parent, owner, withheld>>
  BY DEF GrantRole
<1>7. /\ owner' \in [Scopes -> Principals \cup {None}]
      /\ withheld' \in [Principals -> [Scopes -> SUBSET Flags]]
  BY <1>6 DEF Inductive, TypeOK
<1> QED
  BY <1>1, <1>3, <1>4, <1>5, <1>6, <1>7, RowsStep

LEMMA GrantRevokeStep ==
  ASSUME Inductive, NEW by \in Principals, NEW p \in Principals, NEW s \in Scopes,
         GrantRevoke(by, p, s)
  PROVE  Inductive'
<1>1. s \in live /\ s \in Shared /\ "none" \in Role
  BY DEF GrantRevoke, Shared, Role
<1>2. granted' = [granted EXCEPT ![p][s] = "none"]
  BY DEF GrantRevoke
<1>3. granted' \in [Principals -> [Scopes -> Role]]
  BY <1>1, <1>2 DEF Inductive, TypeOK
<1>4. \A q \in Principals, t \in Scopes \ {s} : granted'[q][t] = granted[q][t]
  BY <1>2 DEF Inductive, TypeOK
<1>5. audit' \in [action : Audited, by : Principals, scope : Scopes \cup {None}]
  BY Recorded DEF GrantRevoke, Audited
<1>6. UNCHANGED <<status, live, parent, owner, withheld>>
  BY DEF GrantRevoke
<1>7. /\ owner' \in [Scopes -> Principals \cup {None}]
      /\ withheld' \in [Principals -> [Scopes -> SUBSET Flags]]
  BY <1>6 DEF Inductive, TypeOK
<1> QED
  BY <1>1, <1>3, <1>4, <1>5, <1>6, <1>7, RowsStep

LEMMA PolicySetStep ==
  ASSUME Inductive, NEW by \in Principals, NEW p \in Principals, NEW s \in Scopes,
         NEW flags \in PolicyChoices, PolicySet(by, p, s, flags)
  PROVE  Inductive'
<1>1. s \in live /\ flags \in SUBSET Flags
  BY AccessAssumption DEF PolicySet
<1>2. withheld' = [withheld EXCEPT ![p][s] = flags]
  BY DEF PolicySet
<1>3. withheld' \in [Principals -> [Scopes -> SUBSET Flags]]
  BY <1>1, <1>2 DEF Inductive, TypeOK
<1>4. \A q \in Principals, t \in Scopes \ {s} : withheld'[q][t] = withheld[q][t]
  BY <1>2 DEF Inductive, TypeOK
<1>5. audit' \in [action : Audited, by : Principals, scope : Scopes \cup {None}]
  BY Recorded DEF PolicySet, Audited
<1>6. UNCHANGED <<status, live, parent, owner, granted>>
  BY DEF PolicySet
<1>7. /\ owner' \in [Scopes -> Principals \cup {None}]
      /\ granted' \in [Principals -> [Scopes -> Role]]
  BY <1>6 DEF Inductive, TypeOK
<1> QED
  BY <1>1, <1>3, <1>4, <1>5, <1>6, <1>7, RowsStep

LEMMA OwnerSetStep ==
  ASSUME Inductive, NEW by \in Principals, NEW p \in Principals, NEW s \in Scopes,
         OwnerSet(by, p, s)
  PROVE  Inductive'
<1>1. s \in live /\ s \in Shared
  BY PersonalKinds DEF OwnerSet
<1>2. owner' = [owner EXCEPT ![s] = p]
  BY DEF OwnerSet
<1>3. /\ owner' \in [Scopes -> Principals \cup {None}]
      /\ \A t \in Scopes \ {s} : owner'[t] = owner[t]
  BY <1>2 DEF Inductive, TypeOK
<1>4. audit' \in [action : Audited, by : Principals, scope : Scopes \cup {None}]
  BY Recorded DEF OwnerSet, Audited
<1>5. UNCHANGED <<status, live, parent, granted, withheld>>
  BY DEF OwnerSet
<1>6. /\ withheld' \in [Principals -> [Scopes -> SUBSET Flags]]
      /\ granted' \in [Principals -> [Scopes -> Role]]
  BY <1>5 DEF Inductive, TypeOK
<1> QED
  BY <1>1, <1>3, <1>4, <1>5, <1>6, RowsStep

\* What is withheld along a chain are flags.
LEMMA WithheldType ==
  ASSUME TypeOK, NEW s \in Scopes
  PROVE  /\ Withheld(s) = [p \in Principals |-> UNION {withheld[p][a] : a \in Chain(s)}]
         /\ Chain(s) \subseteq Scopes
         /\ \A p \in Principals : Withheld(s)[p] \subseteq Flags
<1>1. Chain(s) \subseteq Scopes
  BY DEF Chain, Shared
<1>2. Withheld(s) = [p \in Principals |-> UNION {withheld[p][a] : a \in Chain(s)}]
  BY DEF Withheld
<1>3. \A p \in Principals, a \in Chain(s) : withheld[p][a] \subseteq Flags
  BY <1>1 DEF TypeOK
<1> QED
  BY <1>1, <1>2, <1>3

\* `_retain_scope_restrictions` adds to one scope what is withheld on another.
LEMMA Retained ==
  ASSUME TypeOK, NEW from \in Scopes, NEW to \in Scopes
  PROVE  /\ Retain(from, to) \in [Principals -> [Scopes -> SUBSET Flags]]
         /\ \A p \in Principals, s \in Scopes :
               Retain(from, to)[p][s] =
                  IF s = to THEN withheld[p][s] \cup Withheld(from)[p] ELSE withheld[p][s]
<1>1. \A p \in Principals : Withheld(from)[p] \subseteq Flags
  BY WithheldType
<1>2. withheld \in [Principals -> [Scopes -> SUBSET Flags]]
  BY DEF TypeOK
<1> DEFINE W == Withheld(from)
<1>3. Retain(from, to) =
        [p \in Principals |-> [withheld[p] EXCEPT ![to] = withheld[p][to] \cup W[p]]]
  BY DEF Retain
<1> HIDE DEF W
<1>4. \A p \in Principals : W[p] \subseteq Flags
  BY <1>1 DEF W
<1>5. ASSUME NEW p \in Principals
      PROVE  /\ Retain(from, to)[p] \in [Scopes -> SUBSET Flags]
             /\ \A s \in Scopes :
                   Retain(from, to)[p][s] =
                      IF s = to THEN withheld[p][s] \cup W[p] ELSE withheld[p][s]
  <2>1. Retain(from, to)[p] = [withheld[p] EXCEPT ![to] = withheld[p][to] \cup W[p]]
    BY <1>3
  <2>2. withheld[p] \in [Scopes -> SUBSET Flags] /\ withheld[p][to] \cup W[p] \in SUBSET Flags
    BY <1>2, <1>4
  <2> QED
    BY <2>1, <2>2
<1>6. Retain(from, to) \in [Principals -> [Scopes -> SUBSET Flags]]
  <2>1. \A p \in Principals : Retain(from, to)[p] \in [Scopes -> SUBSET Flags]
    BY <1>5
  <2>2. Retain(from, to) = [p \in Principals |-> Retain(from, to)[p]]
    BY <1>3
  <2> QED
    BY <2>1, <2>2
<1> QED
  BY <1>5, <1>6 DEF W

LEMMA CreateStep ==
  ASSUME Inductive, NEW by \in Principals, NEW n \in Scopes, NEW y \in Scopes,
         ScopeCreate(by, n, y)
  PROVE  Inductive'
<1>1. /\ n \in Workspaces \ live /\ y \in live /\ MayContain(y)
      /\ \A c \in live \ {n} : parent[c] = y => Name[c] # Name[n]
  BY DEF ScopeCreate, NameFree
<1>2. /\ live' = live \cup {n} /\ parent' = [parent EXCEPT ![n] = y]
      /\ owner' = [owner EXCEPT ![n] = by]
      /\ UNCHANGED <<status, granted, withheld>>
  BY DEF ScopeCreate
<1>3. Well(parent', live')
  <2>1. Well([parent EXCEPT ![n] = y], live \cup {n})
    BY <1>1, CreateWell DEF Inductive
  <2> QED
    BY <2>1, <1>2
<1>4. audit' \in [action : Audited, by : Principals, scope : Scopes \cup {None}]
  BY Recorded DEF ScopeCreate, Audited
<1>5. TypeOK'
  <2>1. parent' \in [Scopes -> Scopes \cup {None}] /\ owner' \in [Scopes -> Principals \cup {None}]
    BY <1>2 DEF Inductive, TypeOK
  <2>2. \A s \in Scopes \ live' : s # n /\ parent'[s] = parent[s] /\ owner'[s] = owner[s] /\ s \notin live
    BY <1>2 DEF Inductive, TypeOK
  <2> QED
    BY <1>2, <1>4, <2>1, <2>2 DEF Inductive, TypeOK
<1>6. PersonalRows'
  <2>1. \A p \in Principals : Personal[p] \in Scopes /\ Personal[p] # n
    BY <1>1, PersonalKinds
  <2>2. \A s \in Scopes \ {n} : owner'[s] = owner[s]
    BY <1>2 DEF Inductive, TypeOK
  <2> QED
    BY <1>2, <2>1, <2>2 DEF Inductive, PersonalRows
<1> QED
  BY <1>3, <1>5, <1>6 DEF Inductive

\* What scope_move changes.
LEMMA Moves ==
  ASSUME Inductive, NEW by \in Principals, NEW x \in Scopes, NEW y \in Scopes,
         ScopeMove(by, x, y)
  PROVE  /\ x \in live \cap Workspaces /\ x \in Shared /\ y \in live /\ y \in Shared
         /\ MayContain(y) /\ x \notin Up(parent, y)
         /\ \A c \in live \ {x} : parent[c] = y => Name[c] # Name[x]
         /\ parent' \in [Scopes -> Scopes \cup {None}]
         /\ parent'[x] = y /\ \A s \in Scopes \ {x} : parent'[s] = parent[s]
         /\ withheld' = Retain(x, x)
         /\ UNCHANGED <<status, live, owner, granted>>
<1>1. x \in live \cap Workspaces /\ x \in Shared /\ y \in live /\ y \in Shared /\ MayContain(y)
  BY PersonalKinds DEF ScopeMove
<1>2. x \notin Up(parent, y)
  BY <1>1, ChainUp DEF ScopeMove, NoCycle
<1>3. \A c \in live \ {x} : parent[c] = y => Name[c] # Name[x]
  BY DEF ScopeMove, NameFree
<1>4. /\ parent' \in [Scopes -> Scopes \cup {None}]
      /\ parent'[x] = y /\ \A s \in Scopes \ {x} : parent'[s] = parent[s]
  BY DEF ScopeMove, Inductive, TypeOK
<1> QED
  BY <1>1, <1>2, <1>3, <1>4 DEF ScopeMove

LEMMA MoveStep ==
  ASSUME Inductive, NEW by \in Principals, NEW x \in Scopes, NEW y \in Scopes,
         ScopeMove(by, x, y)
  PROVE  Inductive'
<1>1. /\ x \in live \cap Workspaces /\ y \in live /\ MayContain(y) /\ x \notin Up(parent, y)
      /\ \A c \in live \ {x} : parent[c] = y => Name[c] # Name[x]
      /\ parent' \in [Scopes -> Scopes \cup {None}]
      /\ parent'[x] = y /\ \A s \in Scopes \ {x} : parent'[s] = parent[s]
  BY Moves
<1>2. withheld' = Retain(x, x) /\ UNCHANGED <<status, live, owner, granted>>
  BY Moves
<1>3. Well(parent', live')
  <2>1. Well(parent', live)
    BY <1>1, MoveWell DEF Inductive
  <2> QED
    BY <2>1, <1>2
<1>4. audit' \in [action : Audited, by : Principals, scope : Scopes \cup {None}]
  BY Recorded DEF ScopeMove, Audited
<1>5. TypeOK'
  <2>1. /\ withheld' \in [Principals -> [Scopes -> SUBSET Flags]]
        /\ \A p \in Principals, s \in Scopes \ {x} : withheld'[p][s] = withheld[p][s]
    <3>1. TypeOK
      BY DEF Inductive
    <3>2. /\ Retain(x, x) \in [Principals -> [Scopes -> SUBSET Flags]]
          /\ \A p \in Principals, s \in Scopes :
                Retain(x, x)[p][s] =
                   IF s = x THEN withheld[p][s] \cup Withheld(x)[p] ELSE withheld[p][s]
      BY <3>1, Retained
    <3>3. ASSUME NEW p \in Principals, NEW s \in Scopes \ {x}
          PROVE  withheld'[p][s] = withheld[p][s]
      BY <1>2, <3>2
    <3> QED
      BY <1>2, <3>2, <3>3
  <2>2. ASSUME NEW s \in Scopes \ live'
        PROVE  /\ parent'[s] = None /\ owner'[s] = None
               /\ \A p \in Principals : granted'[p][s] = "none" /\ withheld'[p][s] = {}
    <3>1. s \in Scopes \ live /\ s # x
      BY <1>1, <1>2
    <3> QED
      BY <1>1, <1>2, <2>1, <3>1 DEF Inductive, TypeOK
  <2>3. /\ status' \in [Principals -> {"absent", "active", "revoked"}]
        /\ status'[OrgAdmin] = "active" /\ live' \subseteq Scopes
        /\ owner' \in [Scopes -> Principals \cup {None}]
        /\ granted' \in [Principals -> [Scopes -> Role]]
    BY <1>2 DEF Inductive, TypeOK
  <2> QED
    BY <1>1, <1>4, <2>1, <2>2, <2>3 DEF TypeOK
<1>6. PersonalRows'
  BY <1>2 DEF Inductive, PersonalRows
<1> QED
  BY <1>3, <1>5, <1>6 DEF Inductive

\* What `_delete_empty_scope` leaves of the tables.
LEMMA Forgotten ==
  ASSUME Inductive, NEW x \in live \cap Shared,
         NEW W \in [Principals -> [Scopes -> SUBSET Flags]], Forget(x, W)
  PROVE  /\ live' = live \ {x}
         /\ owner' \in [Scopes -> Principals \cup {None}] /\ owner'[x] = None
         /\ \A s \in Scopes \ {x} : owner'[s] = owner[s]
         /\ granted' \in [Principals -> [Scopes -> Role]]
         /\ withheld' \in [Principals -> [Scopes -> SUBSET Flags]]
         /\ \A p \in Principals : granted'[p][x] = "none" /\ withheld'[p][x] = {}
         /\ \A p \in Principals, s \in Scopes \ {x} :
               granted'[p][s] = granted[p][s] /\ withheld'[p][s] = W[p][s]
<1>1. live' = live \ {x} /\ owner' = [owner EXCEPT ![x] = None]
  BY DEF Forget
<1>2. /\ owner' \in [Scopes -> Principals \cup {None}] /\ owner'[x] = None
      /\ \A s \in Scopes \ {x} : owner'[s] = owner[s]
  BY <1>1 DEF Inductive, TypeOK
<1>3. "none" \in Role /\ x \in Scopes
  BY DEF Role, Inductive, TypeOK
<1>4. granted' = [p \in Principals |-> [granted[p] EXCEPT ![x] = "none"]]
  BY DEF Forget
<1>5. withheld' = [p \in Principals |-> [W[p] EXCEPT ![x] = {}]]
  BY DEF Forget
<1>6. \A p \in Principals : granted[p] \in [Scopes -> Role]
  BY DEF Inductive, TypeOK
<1>7. granted' \in [Principals -> [Scopes -> Role]]
  BY <1>3, <1>4, <1>6
<1>8. withheld' \in [Principals -> [Scopes -> SUBSET Flags]]
  BY <1>3, <1>5
<1>9. \A p \in Principals : granted'[p][x] = "none" /\ withheld'[p][x] = {}
  BY <1>3, <1>4, <1>5, <1>6
<1>10. \A p \in Principals, s \in Scopes \ {x} :
          granted'[p][s] = granted[p][s] /\ withheld'[p][s] = W[p][s]
  BY <1>4, <1>5, <1>6
<1> QED
  BY <1>1, <1>2, <1>7, <1>8, <1>9, <1>10

\* A scope forgotten leaves the invariant to the tree and what was retained.
LEMMA ForgetStep ==
  ASSUME Inductive, NEW x \in live \cap Workspaces,
         NEW W \in [Principals -> [Scopes -> SUBSET Flags]], Forget(x, W),
         \A p \in Principals, s \in Scopes \ live : W[p][s] = {},
         parent' \in [Scopes -> Scopes \cup {None}],
         \A s \in Scopes \ live' : parent'[s] = None,
         Well(parent', live'), UNCHANGED status,
         audit' \in [action : Audited, by : Principals, scope : Scopes \cup {None}]
  PROVE  Inductive'
<1>1. x \in live \cap Shared /\ x \in Scopes
  BY PersonalKinds DEF Workspaces
<1>2. /\ live' = live \ {x}
      /\ owner' \in [Scopes -> Principals \cup {None}] /\ owner'[x] = None
      /\ \A s \in Scopes \ {x} : owner'[s] = owner[s]
  BY <1>1, Forgotten
<1>3. /\ granted' \in [Principals -> [Scopes -> Role]]
      /\ withheld' \in [Principals -> [Scopes -> SUBSET Flags]]
      /\ \A p \in Principals : granted'[p][x] = "none" /\ withheld'[p][x] = {}
      /\ \A p \in Principals, s \in Scopes \ {x} :
            granted'[p][s] = granted[p][s] /\ withheld'[p][s] = W[p][s]
  BY <1>1, Forgotten
<1>4. ASSUME NEW s \in Scopes \ live'
      PROVE  /\ parent'[s] = None /\ owner'[s] = None
             /\ \A p \in Principals : granted'[p][s] = "none" /\ withheld'[p][s] = {}
  BY <1>2, <1>3, <1>4 DEF Inductive, TypeOK
<1>5. TypeOK'
  <2>1. live' \subseteq Scopes /\ status' \in [Principals -> {"absent", "active", "revoked"}]
        /\ status'[OrgAdmin] = "active"
    BY <1>2 DEF Inductive, TypeOK
  <2> QED
    BY <1>2, <1>3, <1>4, <2>1 DEF TypeOK
<1>6. ASSUME NEW p \in Principals
      PROVE  /\ Personal[p] \in live' => owner'[Personal[p]] = p
             /\ \A q \in Principals : granted'[q][Personal[p]] = "none"
  <2>1. Personal[p] \in Scopes \ {x}
    BY <1>1, PersonalKinds
  <2>2. /\ Personal[p] \in live => owner[Personal[p]] = p
        /\ \A q \in Principals : granted[q][Personal[p]] = "none"
    BY DEF Inductive, PersonalRows
  <2>3. owner'[Personal[p]] = owner[Personal[p]]
    BY <1>2, <2>1
  <2>4. \A q \in Principals : granted'[q][Personal[p]] = granted[q][Personal[p]]
    BY <1>3, <2>1
  <2> QED
    BY <1>2, <2>2, <2>3, <2>4
<1>7. PersonalRows'
  BY <1>6 DEF PersonalRows
<1> QED
  BY <1>5, <1>7 DEF Inductive

LEMMA DeleteStep ==
  ASSUME Inductive, NEW by \in Principals, NEW x \in Scopes, ScopeDelete(by, x)
  PROVE  Inductive'
<1>1. x \in live \cap Workspaces /\ Forget(x, withheld) /\ UNCHANGED status
  BY DEF ScopeDelete
<1>2. \A c \in live : parent[c] # x
  BY DEF ScopeDelete, Children
<1>3. parent' = [parent EXCEPT ![x] = None] /\ live' = live \ {x}
  BY DEF ScopeDelete, Forget
<1>4. Well(parent', live')
  <2>1. Well([parent EXCEPT ![x] = None], live \ {x})
    BY <1>1, <1>2, DeleteWell DEF Inductive
  <2> QED
    BY <1>3, <2>1
<1>5. audit' \in [action : Audited, by : Principals, scope : Scopes \cup {None}]
  BY Recorded DEF ScopeDelete, Audited
<1>6. /\ withheld \in [Principals -> [Scopes -> SUBSET Flags]]
      /\ \A p \in Principals, s \in Scopes \ live : withheld[p][s] = {}
  BY DEF Inductive, TypeOK
<1>7. /\ parent' \in [Scopes -> Scopes \cup {None}]
      /\ \A s \in Scopes \ live' : parent'[s] = None
  BY <1>3 DEF Inductive, TypeOK
<1> QED
  BY <1>1, <1>4, <1>5, <1>6, <1>7, ForgetStep

\* What scope_merge changes.
LEMMA Merges ==
  ASSUME Inductive, NEW by \in Principals, NEW x \in Scopes, NEW y \in Scopes,
         ScopeMerge(by, x, y)
  PROVE  /\ x \in live \cap Workspaces /\ x \in Shared /\ y \in live /\ y \in Shared
         /\ x # y /\ MayContain(y) /\ x \notin Up(parent, y)
         /\ \A c, d \in live : parent[c] = x /\ parent[d] = y => Name[c] # Name[d]
         /\ parent' = [s \in Scopes |-> IF s = x THEN None
                                        ELSE IF parent[s] = x THEN y ELSE parent[s]]
         /\ Forget(x, Retain(x, y)) /\ UNCHANGED status
<1>1. /\ x \in live \cap Workspaces /\ x \in Shared /\ y \in live /\ y \in Shared
      /\ x # y /\ MayContain(y)
  BY DEF ScopeMerge, Workspaces, Shared, MayContain
<1>2. x \notin Up(parent, y)
  BY <1>1, ChainUp DEF ScopeMerge, NoCycle
<1>3. \A c, d \in live : parent[c] = x /\ parent[d] = y => Name[c] # Name[d]
  BY DEF ScopeMerge, NoNameClash, Children
<1> QED
  BY <1>1, <1>2, <1>3 DEF ScopeMerge, Reparented

LEMMA MergeStep ==
  ASSUME Inductive, NEW by \in Principals, NEW x \in Scopes, NEW y \in Scopes,
         ScopeMerge(by, x, y)
  PROVE  Inductive'
<1>1. /\ x \in live \cap Workspaces /\ y \in live /\ x # y
      /\ MayContain(y) /\ x \notin Up(parent, y)
      /\ \A c, d \in live : parent[c] = x /\ parent[d] = y => Name[c] # Name[d]
      /\ parent' = [s \in Scopes |-> IF s = x THEN None
                                     ELSE IF parent[s] = x THEN y ELSE parent[s]]
  BY Merges
<1>2. Forget(x, Retain(x, y)) /\ UNCHANGED status
  BY Merges
<1>3. live' = live \ {x}
  BY <1>2 DEF Forget
<1>4. Well(parent', live')
  <2>1. Well(parent', live \ {x})
    BY <1>1, MergeWell DEF Inductive
  <2> QED
    BY <2>1, <1>3
<1>5. audit' \in [action : Audited, by : Principals, scope : Scopes \cup {None}]
  BY Recorded DEF ScopeMerge, Audited
<1> DEFINE W == Retain(x, y)
<1>6. /\ W \in [Principals -> [Scopes -> SUBSET Flags]]
      /\ \A p \in Principals, s \in Scopes \ {y} : W[p][s] = withheld[p][s]
  <2>1. TypeOK
    BY DEF Inductive
  <2>2. /\ Retain(x, y) \in [Principals -> [Scopes -> SUBSET Flags]]
        /\ \A p \in Principals, s \in Scopes :
              Retain(x, y)[p][s] =
                 IF s = y THEN withheld[p][s] \cup Withheld(x)[p] ELSE withheld[p][s]
    BY <2>1, Retained
  <2>3. W \in [Principals -> [Scopes -> SUBSET Flags]]
    BY <2>2
  <2>4. ASSUME NEW p \in Principals, NEW s \in Scopes \ {y} PROVE W[p][s] = withheld[p][s]
    BY <2>2
  <2> QED
    BY <2>3, <2>4
<1>12. Forget(x, W)
  BY <1>2
<1> HIDE DEF W
<1>7. \A p \in Principals, s \in Scopes \ live : W[p][s] = {}
  BY <1>1, <1>6 DEF Inductive, TypeOK
<1>8. parent \in [Scopes -> Scopes \cup {None}] /\ \A s \in Scopes \ live : parent[s] = None
  BY DEF Inductive, TypeOK
<1>9. x # None /\ x \in Scopes /\ y \in Scopes
  BY AccessAssumption
<1>10. parent' \in [Scopes -> Scopes \cup {None}]
  <2>1. \A s \in Scopes : (IF s = x THEN None ELSE IF parent[s] = x THEN y ELSE parent[s])
                            \in Scopes \cup {None}
    BY <1>8, <1>9
  <2> QED
    BY <1>1, <2>1
<1>11. \A s \in Scopes \ live' : parent'[s] = None
  <2>1. ASSUME NEW s \in Scopes \ live' PROVE parent'[s] = None
    <3>1. CASE s = x
      BY <1>1, <3>1
    <3>2. CASE s # x
      <4>1. parent[s] = None
        BY <1>3, <1>8, <3>2
      <4> QED
        BY <1>1, <1>9, <3>2, <4>1
    <3> QED
      BY <3>1, <3>2
  <2> QED
    BY <2>1
<1> QED
  BY <1>1, <1>2, <1>4, <1>5, <1>6, <1>7, <1>10, <1>11, <1>12, ForgetStep

\* Exports and backups change nothing but the audit row.
LEMMA ExportsReport ==
  ASSUME NEW by \in Principals, Exports(by)
  PROVE  /\ UNCHANGED <<status, live, parent, owner, granted, withheld>>
         /\ audit' \in [action : Audited, by : Principals, scope : Scopes \cup {None}]
<1>1. ASSUME NEW action \in Audited, NEW s \in Scopes \cup {None}, Report(action, by, s)
      PROVE  /\ UNCHANGED <<status, live, parent, owner, granted, withheld>>
             /\ audit' \in [action : Audited, by : Principals, scope : Scopes \cup {None}]
  BY <1>1, Recorded DEF Report
<1>2. "memory_export" \in Audited /\ "encrypted_backup" \in Audited
  BY DEF Audited
<1> QED
  BY <1>1, <1>2 DEF Exports, MemoryExport, ScopeBackup, OrganisationBackup, Backup

LEMMA ExportsStep ==
  ASSUME Inductive, NEW by \in Principals, Exports(by)
  PROVE  Inductive'
<1>1. /\ UNCHANGED <<status, live, parent, owner, granted, withheld>>
      /\ audit' \in [action : Audited, by : Principals, scope : Scopes \cup {None}]
  BY ExportsReport
<1> QED
  BY <1>1 DEF Inductive, TypeOK, PersonalRows

LEMMA NextStep == Inductive /\ [Next]_vars => Inductive'
<1> SUFFICES ASSUME Inductive, [Next]_vars
             PROVE  Inductive'
  OBVIOUS
<1>1. ASSUME UNCHANGED vars PROVE Inductive'
  BY <1>1 DEF vars, Inductive, TypeOK, PersonalRows
<1>2. ASSUME NEW by \in Principals, Operation(by)
      PROVE  Inductive'
  <2>1. ASSUME PersonalScope(by) PROVE Inductive'
    BY <2>1, PersonalScopeStep
  <2>2. ASSUME PrincipalList(by) PROVE Inductive'
    BY <2>2, PrincipalListStep
  <2>3. ASSUME NEW p \in Principals, PrincipalCreate(by, p) PROVE Inductive'
    BY <2>3, PrincipalCreateStep
  <2>4. ASSUME NEW p \in Principals, PrincipalRevoke(by, p) PROVE Inductive'
    BY <2>4, PrincipalRevokeStep
  <2>5. ASSUME NEW s \in Scopes, NEW above \in Scopes, ScopeCreate(by, s, above)
        PROVE  Inductive'
    BY <2>5, CreateStep
  <2>6. ASSUME NEW s \in Scopes, NEW above \in Scopes, ScopeMove(by, s, above)
        PROVE  Inductive'
    BY <2>6, MoveStep
  <2>7. ASSUME NEW p \in Grantees, NEW s \in Scopes, NEW role \in GrantedRoles,
               GrantRole(by, p, s, role)
        PROVE  Inductive'
    BY <2>7, GrantStep, AccessAssumption
  <2>8. ASSUME NEW p \in Principals, NEW s \in Scopes, GrantRevoke(by, p, s)
        PROVE  Inductive'
    BY <2>8, GrantRevokeStep
  <2>9. ASSUME NEW p \in Principals, NEW s \in Scopes, OwnerSet(by, p, s)
        PROVE  Inductive'
    BY <2>9, OwnerSetStep
  <2>10. ASSUME NEW p \in Grantees, NEW s \in Scopes, NEW flags \in PolicyChoices,
                PolicySet(by, p, s, flags)
         PROVE  Inductive'
    BY <2>10, PolicySetStep, AccessAssumption
  <2>11. ASSUME NEW s \in Scopes, ScopeDelete(by, s) PROVE Inductive'
    BY <2>11, DeleteStep
  <2>12. ASSUME NEW source \in Scopes, NEW target \in Scopes, ScopeMerge(by, source, target)
         PROVE  Inductive'
    BY <2>12, MergeStep
  <2>13. ASSUME Exports(by) PROVE Inductive'
    BY <2>13, ExportsStep
  <2> QED
    BY <1>2, <2>1, <2>2, <2>3, <2>4, <2>5, <2>6, <2>7, <2>8, <2>9, <2>10, <2>11, <2>12,
       <2>13 DEF Operation
<1> QED
  BY <1>1, <1>2 DEF Next

LEMMA InductiveHolds == Spec => []Inductive
<1>1. Init => Inductive
  BY InitInductive
<1>2. Inductive /\ [Next]_vars => Inductive'
  BY NextStep
<1> QED
  BY <1>1, <1>2, PTL DEF Spec

\* Every table keeps its type, and no row of any table refers to a scope that
\* has been deleted or merged: the type invariant of the specification.
THEOREM TypeCorrect == Spec => []TypeOK
<1>1. Inductive => TypeOK
  BY DEF Inductive
<1> QED
  BY <1>1, InductiveHolds, PTL

\* The shared scopes of any organisation form one tree under it, after any
\* number of operations in any order.
THEOREM TreeHolds == Spec => []TreeOK
<1>1. Inductive => TreeOK
  BY InductiveImplies
<1> QED
  BY <1>1, InductiveHolds, PTL

\* Nobody but its principal ever gets at a personal scope.
THEOREM PersonalStaysApart == Spec => []PersonalApart
<1>1. Inductive => PersonalApart
  BY InductiveImplies
<1> QED
  BY <1>1, InductiveHolds, PTL
-----------------------------------------------------------------------------
(* What each operation does to the chains.                                   *)

LEMMA PersonalChain ==
  ASSUME NEW s \in Scopes \ Shared
  PROVE  Chain(s) = {s} /\ Chain(s)' = {s}
  BY DEF Chain, Shared

\* The chain ends where its scope begins, and a scope that is not on the chain
\* of another is not that scope.
LEMMA OwnChain ==
  ASSUME NEW s \in Scopes
  PROVE  s \in Chain(s) /\ Chain(s) \subseteq Scopes /\ s \in Chain(s)'
<1>1. CASE s \in Shared
  BY <1>1, ChainUp, UpSelf DEF Shared
<1>2. CASE s \notin Shared
  BY <1>2, PersonalChain
<1> QED
  BY <1>1, <1>2

LEMMA SameTree ==
  ASSUME NEW s \in Scopes, UNCHANGED parent
  PROVE  Chain(s)' = Chain(s)
<1>1. CASE s \in Shared
  BY <1>1, ChainUp
<1>2. CASE s \notin Shared
  BY <1>2, PersonalChain
<1> QED
  BY <1>1, <1>2

LEMMA CreateChains ==
  ASSUME Inductive, NEW n \in Workspaces \ live, NEW y, parent' = [parent EXCEPT ![n] = y],
         NEW s \in live
  PROVE  Chain(s)' = Chain(s)
<1>1. CASE s \in Shared
  <2>1. Well(parent, live)
    BY DEF Inductive
  <2>2. n \in Shared \ live /\ s \in live \cap Shared
    BY <1>1, PersonalKinds
  <2>3. Up(parent', s) = Up(parent, s)
    <3>1. Up(parent, s) \subseteq live /\ Forest(parent)
      BY <2>1, <2>2, UpLive, WellForest
    <3>2. \A a \in Up(parent, s) : parent'[a] = parent[a]
      BY <2>2, <3>1 DEF Inductive, TypeOK
    <3> QED
      BY <2>2, <3>1, <3>2, UpLocal
  <2> QED
    BY <1>1, <2>3, ChainUp
<1>2. CASE s \notin Shared
  BY <1>2, PersonalChain DEF Inductive, TypeOK
<1> QED
  BY <1>1, <1>2

LEMMA DeleteChains ==
  ASSUME Inductive, NEW x \in live \cap Workspaces, \A c \in live : parent[c] # x,
         parent' = [parent EXCEPT ![x] = None], NEW s \in live \ {x}
  PROVE  Chain(s)' = Chain(s) /\ x \notin Chain(s)
<1>1. CASE s \in Shared
  <2>1. Up([parent EXCEPT ![x] = None], s) = Up(parent, s) /\ x \notin Up(parent, s)
    BY <1>1, DeleteUp, PersonalKinds DEF Inductive
  <2> QED
    BY <1>1, <2>1, ChainUp
<1>2. CASE s \notin Shared
  <2>1. s \in Scopes \ Shared /\ x # s
    BY <1>2 DEF Inductive, TypeOK
  <2> QED
    BY <2>1, PersonalChain
<1> QED
  BY <1>1, <1>2

\* The forests before and after a step.
LEMMA Forests ==
  ASSUME Inductive, Inductive'
  PROVE  Forest(parent) /\ Forest(parent')
<1>1. Well(parent, live) /\ Well(parent', live')
  BY DEF Inductive
<1> QED
  BY <1>1, WellForest

LEMMA MoveChains ==
  ASSUME Inductive, NEW x \in Shared, \A a \in Scopes \ {x} : parent'[a] = parent[a],
         NEW s \in Scopes, x \notin Chain(s)
  PROVE  Chain(s)' = Chain(s)
<1>1. CASE s \in Shared
  <2>1. Moved(parent, parent', x)
    BY DEF Moved, Shared
  <2>2. Forest(parent)
    BY WellForest DEF Inductive
  <2>3. x \notin Up(parent, s)
    BY <1>1, ChainUp
  <2>4. Up(parent', s) = Up(parent, s)
    BY <1>1, <2>1, <2>2, <2>3, MoveAway
  <2> QED
    BY <1>1, <2>4, ChainUp
<1>2. CASE s \notin Shared
  BY <1>2, PersonalChain
<1> QED
  BY <1>1, <1>2

LEMMA MergeChains ==
  ASSUME Inductive, NEW x \in Shared, NEW y \in Shared,
         parent' = [s \in Scopes |-> IF s = x THEN None
                                     ELSE IF parent[s] = x THEN y ELSE parent[s]],
         NEW s \in Scopes
  PROVE  Merged(parent, parent', x, y) /\ (x \notin Chain(s) => Chain(s)' = Chain(s))
<1>1. Merged(parent, parent', x, y)
  BY DEF Merged, Shared
<1>2. CASE s \in Shared /\ x \notin Chain(s)
  <2>1. Forest(parent)
    BY WellForest DEF Inductive
  <2>2. x \notin Up(parent, s)
    BY <1>2, ChainUp
  <2>3. Up(parent', s) = Up(parent, s)
    BY <1>1, <1>2, <2>1, <2>2, MergeAway
  <2> QED
    BY <1>1, <1>2, <2>3, ChainUp
<1>3. CASE s \notin Shared
  BY <1>1, <1>3, PersonalChain
<1> QED
  BY <1>1, <1>2, <1>3

-----------------------------------------------------------------------------
(* Restrictions.                                                             *)

\* Whatever is withheld along the old chain is withheld somewhere along the new.
LEMMA KeptAlong ==
  ASSUME NEW s \in Scopes, NEW to \in Scopes,
         \A p \in Principals, a \in Chain(s) : \A f \in withheld[p][a] :
            \E b \in Chain(to)' : f \in withheld'[p][b]
  PROVE  \A p \in Principals : Withheld(s)[p] \subseteq (Withheld(to)')[p]
<1>1. \A p \in Principals : Withheld(s)[p] = UNION {withheld[p][a] : a \in Chain(s)}
  BY DEF Withheld
<1>2. \A p \in Principals : (Withheld(to)')[p] = UNION {withheld'[p][a] : a \in Chain(to)'}
  BY DEF Withheld
<1> QED
  BY <1>1, <1>2

LEMMA KeptInPlace ==
  ASSUME NEW s \in Scopes, Chain(s)' = Chain(s),
         \A p \in Principals, a \in Chain(s) : withheld[p][a] \subseteq withheld'[p][a]
  PROVE  \A p \in Principals : Withheld(s)[p] \subseteq (Withheld(s)')[p]
<1>1. \A p \in Principals, a \in Chain(s) : \A f \in withheld[p][a] :
         \E b \in Chain(s)' : f \in withheld'[p][b]
  OBVIOUS
<1> QED
  BY <1>1, KeptAlong

\* Where neither the tree nor the policies change and no scope goes.
LEMMA KeptAlike ==
  ASSUME Inductive, UNCHANGED <<parent, withheld>>, live \subseteq live'
  PROVE  RestrictionsKept
<1>1. ASSUME NEW s \in live
      PROVE  \A p \in Principals : Withheld(s)[p] \subseteq (Withheld(s)')[p]
  <2>1. s \in Scopes
    BY DEF Inductive, TypeOK
  <2>2. Chain(s)' = Chain(s)
    BY <2>1, SameTree
  <2> QED
    BY <2>1, <2>2, KeptInPlace
<1> QED
  BY <1>1 DEF RestrictionsKept
LEMMA CreateKeeps ==
  ASSUME Inductive, NEW by \in Principals, NEW n \in Scopes, NEW y \in Scopes,
         ScopeCreate(by, n, y)
  PROVE  RestrictionsKept
<1>1. /\ n \in Workspaces \ live /\ live' = live \cup {n} /\ withheld' = withheld
      /\ parent' = [parent EXCEPT ![n] = y]
  BY DEF ScopeCreate
<1>2. ASSUME NEW s \in live
      PROVE  \A p \in Principals : Withheld(s)[p] \subseteq (Withheld(s)')[p]
  <2>1. s \in Scopes
    BY DEF Inductive, TypeOK
  <2>2. Chain(s)' = Chain(s)
    BY <1>1, CreateChains
  <2> QED
    BY <1>1, <2>1, <2>2, KeptInPlace
<1> QED
  BY <1>1, <1>2 DEF RestrictionsKept

LEMMA DeleteKeeps ==
  ASSUME Inductive, NEW by \in Principals, NEW x \in Scopes, ScopeDelete(by, x)
  PROVE  RestrictionsKept
<1>1. /\ x \in live \cap Workspaces /\ \A c \in live : parent[c] # x
      /\ parent' = [parent EXCEPT ![x] = None] /\ Forget(x, withheld)
  BY DEF ScopeDelete, Children
<1>2. withheld \in [Principals -> [Scopes -> SUBSET Flags]] /\ x \in live \cap Shared
  BY <1>1, PersonalKinds DEF Inductive, TypeOK
<1>3. /\ live' = live \ {x}
      /\ \A p \in Principals, s \in Scopes \ {x} : withheld'[p][s] = withheld[p][s]
  BY <1>1, <1>2, Forgotten
<1>4. ASSUME NEW s \in live \ {x}
      PROVE  \A p \in Principals : Withheld(s)[p] \subseteq (Withheld(s)')[p]
  <2>1. s \in Scopes /\ Chain(s) \subseteq Scopes
    BY OwnChain DEF Inductive, TypeOK
  <2>2. Chain(s)' = Chain(s) /\ x \notin Chain(s)
    BY <1>1, DeleteChains
  <2>3. \A p \in Principals, a \in Chain(s) : withheld[p][a] \subseteq withheld'[p][a]
    BY <1>3, <2>1, <2>2
  <2> QED
    BY <2>1, <2>2, <2>3, KeptInPlace
<1>5. audit'.action = "scope_delete"
  BY DEF ScopeDelete, Record
<1> QED
  BY <1>3, <1>4, <1>5 DEF RestrictionsKept

\* A scope moved takes along what was withheld on it from above.
LEMMA MoveKeepsRestrictions ==
  ASSUME Inductive, Inductive', NEW by \in Principals, NEW x \in Scopes, NEW y \in Scopes,
         ScopeMove(by, x, y)
  PROVE  RestrictionsKept
<1>1. /\ x \in Shared /\ live' = live
      /\ \A s \in Scopes \ {x} : parent'[s] = parent[s]
      /\ withheld' = Retain(x, x)
  BY Moves
<1>2. TypeOK
  BY DEF Inductive
<1>3. \A p \in Principals, s \in Scopes :
        withheld'[p][s] = IF s = x THEN withheld[p][s] \cup Withheld(x)[p] ELSE withheld[p][s]
  <2>1. \A p \in Principals, s \in Scopes :
          Retain(x, x)[p][s] =
             IF s = x THEN withheld[p][s] \cup Withheld(x)[p] ELSE withheld[p][s]
    BY <1>2, Retained
  <2> QED
    BY <1>1, <2>1
<1>4. \A p \in Principals, s \in Scopes : withheld[p][s] \subseteq withheld'[p][s]
  BY <1>3
<1>5. \A p \in Principals : Withheld(x)[p] \subseteq withheld'[p][x]
  BY <1>3
<1>6. \A p \in Principals, a \in Chain(x) : withheld[p][a] \subseteq Withheld(x)[p]
  BY <1>2, WithheldType
<1> HIDE <1>3
<1>7. ASSUME NEW s \in live
      PROVE  \A p \in Principals : Withheld(s)[p] \subseteq (Withheld(s)')[p]
  <2>1. s \in Scopes /\ Chain(s) \subseteq Scopes
    BY <1>2, OwnChain DEF TypeOK
  <2>2. CASE x \notin Chain(s)
    <3>1. Chain(s)' = Chain(s)
      BY <1>1, <2>1, <2>2, MoveChains
    <3> QED
      BY <1>4, <2>1, <3>1, KeptInPlace
  <2>3. CASE x \in Chain(s)
    <3>1. s \in Shared
      BY <1>1, <2>1, <2>3, PersonalChain
    <3>2. Forest(parent) /\ Forest(parent') /\ Moved(parent, parent', x)
      BY <1>1, Forests DEF Moved, Shared
    <3>3. x \in Chain(s)'
      BY <1>1, <2>3, <3>1, <3>2, ChainUp, MovedAlong
    <3>4. \A a \in Chain(s) \ Chain(x) : a \in Chain(s)'
      BY <1>1, <3>1, <3>2, ChainUp, MoveKeeps
    <3>5. ASSUME NEW p \in Principals, NEW a \in Chain(s), NEW f \in withheld[p][a]
          PROVE  \E b \in Chain(s)' : f \in withheld'[p][b]
      <4>1. CASE a \in Chain(x)
        <5>1. f \in withheld'[p][x]
          BY <1>5, <1>6, <4>1
        <5> QED
          BY <3>3, <5>1
      <4>2. CASE a \notin Chain(x)
        <5>1. f \in withheld'[p][a] /\ a \in Chain(s)'
          BY <1>4, <2>1, <3>4, <4>2
        <5> QED
          BY <5>1
      <4> QED
        BY <4>1, <4>2
    <3> QED
      BY <2>1, <3>5, KeptAlong
  <2> QED
    BY <2>2, <2>3
<1>8. audit'.action = "scope_move"
  BY DEF ScopeMove, Record
<1> QED
  BY <1>1, <1>7, <1>8 DEF RestrictionsKept
\* A scope merged leaves what was withheld on it to the target.
LEMMA MergeKeepsRestrictions ==
  ASSUME Inductive, Inductive', NEW by \in Principals, NEW x \in Scopes, NEW y \in Scopes,
         ScopeMerge(by, x, y)
  PROVE  RestrictionsKept
<1>1. /\ x \in live /\ x \in Shared /\ y \in live /\ y \in Shared /\ x # y
      /\ x \notin Up(parent, y) /\ Forget(x, Retain(x, y))
      /\ parent' = [s \in Scopes |-> IF s = x THEN None
                                     ELSE IF parent[s] = x THEN y ELSE parent[s]]
  BY Merges
<1>2. TypeOK
  BY DEF Inductive
<1>3. /\ live' = live \ {x}
      /\ \A p \in Principals, s \in Scopes \ {x} :
            withheld'[p][s] =
               IF s = y THEN withheld[p][s] \cup Withheld(x)[p] ELSE withheld[p][s]
  <2> DEFINE W == Retain(x, y)
  <2>1. /\ W \in [Principals -> [Scopes -> SUBSET Flags]]
        /\ \A p \in Principals, s \in Scopes :
              W[p][s] = IF s = y THEN withheld[p][s] \cup Withheld(x)[p] ELSE withheld[p][s]
    BY <1>2, Retained
  <2>2. Forget(x, W) /\ x \in live \cap Shared
    BY <1>1
  <2> HIDE DEF W
  <2>3. live' = live \ {x} /\ \A p \in Principals, s \in Scopes \ {x} : withheld'[p][s] = W[p][s]
    BY <2>1, <2>2, Forgotten
  <2> QED
    BY <2>1, <2>3
<1>4. \A p \in Principals, s \in Scopes \ {x} : withheld[p][s] \subseteq withheld'[p][s]
  BY <1>3
<1>5. \A p \in Principals : Withheld(x)[p] \subseteq withheld'[p][y]
  BY <1>1, <1>3
<1>6. \A p \in Principals, a \in Chain(x) : withheld[p][a] \subseteq Withheld(x)[p]
  BY <1>2, WithheldType
<1> HIDE <1>3
<1>7. ASSUME NEW s \in live \ {x}
      PROVE  \A p \in Principals : Withheld(s)[p] \subseteq (Withheld(s)')[p]
  <2>1. s \in Scopes /\ Chain(s) \subseteq Scopes /\ x \in Chain(x)
    BY <1>2, OwnChain DEF TypeOK
  <2>2. CASE x \notin Chain(s)
    <3>1. Chain(s)' = Chain(s)
      BY <1>1, <2>1, <2>2, MergeChains
    <3>2. \A p \in Principals, a \in Chain(s) : withheld[p][a] \subseteq withheld'[p][a]
      BY <1>4, <2>1, <2>2
    <3> QED
      BY <2>1, <3>1, <3>2, KeptInPlace
  <2>3. CASE x \in Chain(s)
    <3>1. s \in Shared
      BY <1>1, <2>1, <2>3, PersonalChain
    <3>2. Forest(parent) /\ Forest(parent') /\ Merged(parent, parent', x, y)
      BY <1>1, <2>1, Forests, MergeChains
    <3>3. y \in Chain(s)'
      BY <1>1, <2>3, <3>1, <3>2, ChainUp, MergedAlong
    <3>4. \A a \in Chain(s) \ Chain(x) : a \in Chain(s)'
      BY <1>1, <3>1, <3>2, ChainUp, MergeKeeps
    <3>5. ASSUME NEW p \in Principals, NEW a \in Chain(s), NEW f \in withheld[p][a]
          PROVE  \E b \in Chain(s)' : f \in withheld'[p][b]
      <4>1. CASE a \in Chain(x)
        <5>1. f \in withheld'[p][y]
          BY <1>5, <1>6, <4>1
        <5> QED
          BY <3>3, <5>1
      <4>2. CASE a \notin Chain(x)
        <5>1. f \in withheld'[p][a] /\ a \in Chain(s)'
          BY <1>4, <2>1, <3>4, <4>2
        <5> QED
          BY <5>1
      <4> QED
        BY <4>1, <4>2
    <3> QED
      BY <2>1, <3>5, KeptAlong
  <2> QED
    BY <2>2, <2>3
<1>8. \A p \in Principals : Withheld(x)[p] \subseteq (Withheld(y)')[p]
  <2>1. y \in Chain(y)'
    BY OwnChain
  <2>2. \A p \in Principals : withheld'[p][y] \subseteq (Withheld(y)')[p]
    <3>1. \A p \in Principals : (Withheld(y)')[p] = UNION {withheld'[p][a] : a \in Chain(y)'}
      BY DEF Withheld
    <3> QED
      BY <2>1, <3>1
  <2> QED
    BY <1>5, <2>2
<1>9. audit'.scope = y
  BY DEF ScopeMerge, Record
<1>10. live' = live \ {x}
  BY <1>3
<1>11. ASSUME NEW s \in live, NEW to \in live',
              \/ to = s
              \/ s \notin live' /\ audit'.action = "scope_merge" /\ to = audit'.scope
       PROVE  \A p \in Principals : Withheld(s)[p] \subseteq (Withheld(to)')[p]
  <2>1. CASE to = s
    <3>1. s \in live \ {x}
      BY <1>10, <2>1
    <3> QED
      BY <1>7, <2>1, <3>1
  <2>2. CASE s \notin live' /\ to = audit'.scope
    <3>1. s = x /\ to = y
      BY <1>9, <1>10, <2>2
    <3> QED
      BY <1>8, <3>1
  <2> QED
    BY <1>11, <2>1, <2>2
<1> QED
  BY <1>11 DEF RestrictionsKept

LEMMA RestrictionsStep == Inductive /\ Inductive' /\ [Next]_vars => RestrictionsKept
<1> SUFFICES ASSUME Inductive, Inductive', [Next]_vars
             PROVE  RestrictionsKept
  OBVIOUS
<1>1. ASSUME UNCHANGED vars PROVE RestrictionsKept
  BY <1>1, KeptAlike DEF vars
<1>2. ASSUME NEW by \in Principals, Operation(by)
      PROVE  RestrictionsKept
  <2>1. ASSUME PersonalScope(by) PROVE RestrictionsKept
    BY <2>1, KeptAlike DEF PersonalScope, EnsurePersonal
  <2>2. ASSUME PrincipalList(by) PROVE RestrictionsKept
    BY <2>2, KeptAlike DEF PrincipalList, EnsurePersonal
  <2>3. ASSUME NEW p \in Principals, PrincipalCreate(by, p) PROVE RestrictionsKept
    BY <2>3, KeptAlike DEF PrincipalCreate, EnsurePersonal
  <2>4. ASSUME NEW p \in Principals, PrincipalRevoke(by, p) PROVE RestrictionsKept
    BY <2>4, KeptAlike DEF PrincipalRevoke
  <2>5. ASSUME NEW s \in Scopes, NEW above \in Scopes, ScopeCreate(by, s, above)
        PROVE  RestrictionsKept
    BY <2>5, CreateKeeps
  <2>6. ASSUME NEW s \in Scopes, NEW above \in Scopes, ScopeMove(by, s, above)
        PROVE  RestrictionsKept
    BY <2>6, MoveKeepsRestrictions
  <2>7. ASSUME NEW p \in Grantees, NEW s \in Scopes, NEW role \in GrantedRoles,
               GrantRole(by, p, s, role)
        PROVE  RestrictionsKept
    BY <2>7, KeptAlike DEF GrantRole
  <2>8. ASSUME NEW p \in Principals, NEW s \in Scopes, GrantRevoke(by, p, s)
        PROVE  RestrictionsKept
    BY <2>8, KeptAlike DEF GrantRevoke
  <2>9. ASSUME NEW p \in Principals, NEW s \in Scopes, OwnerSet(by, p, s)
        PROVE  RestrictionsKept
    BY <2>9, KeptAlike DEF OwnerSet
  <2>10. ASSUME NEW p \in Grantees, NEW s \in Scopes, NEW flags \in PolicyChoices,
                PolicySet(by, p, s, flags)
         PROVE  RestrictionsKept
    BY <2>10 DEF PolicySet, Record, RestrictionsKept
  <2>11. ASSUME NEW s \in Scopes, ScopeDelete(by, s) PROVE RestrictionsKept
    BY <2>11, DeleteKeeps
  <2>12. ASSUME NEW source \in Scopes, NEW target \in Scopes, ScopeMerge(by, source, target)
         PROVE  RestrictionsKept
    BY <2>12, MergeKeepsRestrictions
  <2>13. ASSUME Exports(by) PROVE RestrictionsKept
    BY <2>13, ExportsReport, KeptAlike
  <2> QED
    BY <1>2, <2>1, <2>2, <2>3, <2>4, <2>5, <2>6, <2>7, <2>8, <2>9, <2>10, <2>11, <2>12,
       <2>13 DEF Operation
<1> QED
  BY <1>1, <1>2 DEF Next

\* No sequence of moves, merges, deletions, grants and transfers lifts what a
\* policy withholds: only setting a policy does.
THEOREM RestrictionsAlwaysSurvive == Spec => RestrictionsSurvive
<1>1. Inductive /\ Inductive' /\ [Next]_vars => RestrictionsKept
  BY RestrictionsStep
<1>2. Inductive /\ Inductive' /\ [Next]_vars =>
        [UNCHANGED <<live, parent, withheld>> \/ RestrictionsKept]_vars
  BY <1>1
<1> QED
  BY <1>2, InductiveHolds, PTL DEF Spec, RestrictionsSurvive
-----------------------------------------------------------------------------
(* Roles.                                                                    *)

\* Nobody's role on a shared scope that remains changes, except on those whose
\* chain has x.
RolesKeptOff(x) ==
    \A p \in Principals, s \in live \cap live' \cap Shared :
        x \notin Chain(s) => RoleOf(p, s)' = RoleOf(p, s)

RolesKept ==
    \A p \in Principals, s \in live \cap live' \cap Shared : RoleOf(p, s)' = RoleOf(p, s)

LEMMA QuietRoles ==
  ASSUME Inductive, UNCHANGED <<parent, granted>>,
         \A s \in Shared : owner'[s] = owner[s]
  PROVE  RolesKept
<1>1. ASSUME NEW p \in Principals, NEW s \in Shared
      PROVE  RoleOf(p, s)' = RoleOf(p, s)
  <2>1. Chain(s)' = Chain(s)
    BY SameTree DEF Shared
  <2> QED
    BY <2>1, RoleSame
<1> QED
  BY <1>1 DEF RolesKept

LEMMA PersonalQuiet ==
  ASSUME Inductive, NEW by \in Principals, PersonalScope(by) \/ PrincipalList(by)
  PROVE  RolesKept
<1>1. ASSUME NEW ps, ps \subseteq Principals, EnsurePersonal(ps)
      PROVE  \A s \in Shared : owner'[s] = owner[s]
  BY <1>1, Ensured
<1>2. \A s \in Shared : owner'[s] = owner[s]
  <2>1. CASE PersonalScope(by)
    BY <2>1, <1>1 DEF PersonalScope
  <2>2. CASE PrincipalList(by)
    <3>1. EnsurePersonal({p \in Principals : status[p] # "absent"})
      BY <2>2 DEF PrincipalList
    <3> QED
      BY <3>1, <1>1
  <2> QED
    BY <2>1, <2>2
<1>3. UNCHANGED <<parent, granted>>
  BY DEF PersonalScope, PrincipalList
<1> QED
  BY <1>2, <1>3, QuietRoles

LEMMA CreateRoles ==
  ASSUME Inductive, NEW by \in Principals, NEW n \in Scopes, NEW y \in Scopes,
         ScopeCreate(by, n, y)
  PROVE  RolesKept
<1>1. /\ n \in Workspaces \ live /\ parent' = [parent EXCEPT ![n] = y]
      /\ owner' = [owner EXCEPT ![n] = by] /\ granted' = granted
  BY DEF ScopeCreate
<1>2. ASSUME NEW p \in Principals, NEW s \in live \cap Shared
      PROVE  RoleOf(p, s)' = RoleOf(p, s)
  <2>1. Chain(s)' = Chain(s)
    BY <1>1, CreateChains
  <2>2. owner'[s] = owner[s]
    BY <1>1 DEF Inductive, TypeOK
  <2> QED
    BY <1>1, <2>1, <2>2, RoleSame
<1> QED
  BY <1>2 DEF RolesKept

LEMMA DeleteRoles ==
  ASSUME Inductive, NEW by \in Principals, NEW x \in Scopes, ScopeDelete(by, x)
  PROVE  RolesKept
<1>1. /\ x \in live \cap Workspaces /\ \A c \in live : parent[c] # x
      /\ parent' = [parent EXCEPT ![x] = None] /\ Forget(x, withheld)
  BY DEF ScopeDelete, Children
<1>2. withheld \in [Principals -> [Scopes -> SUBSET Flags]] /\ x \in live \cap Shared
  BY <1>1, PersonalKinds DEF Inductive, TypeOK
<1>3. /\ live' = live \ {x}
      /\ \A s \in Scopes \ {x} : owner'[s] = owner[s]
      /\ \A p \in Principals, s \in Scopes \ {x} : granted'[p][s] = granted[p][s]
  BY <1>1, <1>2, Forgotten
<1>4. ASSUME NEW p \in Principals, NEW s \in Shared, s \in live \ {x}
      PROVE  RoleOf(p, s)' = RoleOf(p, s)
  <2>1. s \in Scopes /\ Chain(s) \subseteq Scopes
    BY OwnChain DEF Shared
  <2>2. Chain(s)' = Chain(s) /\ x \notin Chain(s)
    BY <1>1, <1>4, DeleteChains
  <2>3. owner'[s] = owner[s] /\ \A a \in Chain(s) : granted'[p][a] = granted[p][a]
    BY <1>3, <1>4, <2>1, <2>2
  <2> QED
    BY <2>2, <2>3, RoleSame
<1> QED
  BY <1>3, <1>4 DEF RolesKept

\* A change of the grants on one scope matters to those beneath it.
LEMMA RowRoles ==
  ASSUME Inductive, NEW x \in Scopes, UNCHANGED <<parent, owner>>,
         \A q \in Principals, t \in Scopes \ {x} : granted'[q][t] = granted[q][t]
  PROVE  RolesKeptOff(x)
<1>1. ASSUME NEW p \in Principals, NEW s \in Shared, x \notin Chain(s)
      PROVE  RoleOf(p, s)' = RoleOf(p, s)
  <2>1. Chain(s)' = Chain(s) /\ Chain(s) \subseteq Scopes
    BY SameTree, OwnChain DEF Shared
  <2>2. \A a \in Chain(s) : granted'[p][a] = granted[p][a]
    BY <1>1, <2>1
  <2> QED
    BY <2>1, <2>2, RoleSame
<1> QED
  BY <1>1 DEF RolesKeptOff

LEMMA MoveRoles ==
  ASSUME Inductive, NEW by \in Principals, NEW x \in Scopes, NEW y \in Scopes,
         ScopeMove(by, x, y)
  PROVE  RolesKeptOff(x)
<1>1. /\ x \in Shared /\ UNCHANGED <<owner, granted>>
      /\ \A s \in Scopes \ {x} : parent'[s] = parent[s]
  BY Moves
<1>2. ASSUME NEW p \in Principals, NEW s \in Shared, x \notin Chain(s)
      PROVE  RoleOf(p, s)' = RoleOf(p, s)
  <2>1. Chain(s)' = Chain(s)
    BY <1>1, <1>2, MoveChains DEF Shared
  <2> QED
    BY <1>1, <2>1, RoleSame
<1> QED
  BY <1>2 DEF RolesKeptOff

LEMMA MergeRoles ==
  ASSUME Inductive, NEW by \in Principals, NEW x \in Scopes, NEW y \in Scopes,
         ScopeMerge(by, x, y)
  PROVE  RolesKeptOff(x) /\ x \notin live'
<1>1. /\ x \in live \cap Shared /\ x \in Shared /\ y \in Shared /\ Forget(x, Retain(x, y))
      /\ parent' = [s \in Scopes |-> IF s = x THEN None
                                     ELSE IF parent[s] = x THEN y ELSE parent[s]]
  BY Merges
<1>2. /\ live' = live \ {x}
      /\ \A s \in Scopes \ {x} : owner'[s] = owner[s]
      /\ \A p \in Principals, s \in Scopes \ {x} : granted'[p][s] = granted[p][s]
  <2> DEFINE W == Retain(x, y)
  <2>1. W \in [Principals -> [Scopes -> SUBSET Flags]]
    BY Retained DEF Inductive
  <2>2. Forget(x, W)
    BY <1>1
  <2> HIDE DEF W
  <2> QED
    BY <1>1, <2>1, <2>2, Forgotten
<1>3. ASSUME NEW p \in Principals, NEW s \in Shared, x \notin Chain(s)
      PROVE  RoleOf(p, s)' = RoleOf(p, s)
  <2>1. s \in Scopes /\ s \in Chain(s) /\ Chain(s) \subseteq Scopes
    BY OwnChain DEF Shared
  <2>2. Chain(s)' = Chain(s)
    BY <1>1, <1>3, <2>1, MergeChains
  <2>3. owner'[s] = owner[s] /\ \A a \in Chain(s) : granted'[p][a] = granted[p][a]
    BY <1>2, <1>3, <2>1
  <2> QED
    BY <2>2, <2>3, RoleSame
<1> QED
  BY <1>2, <1>3 DEF RolesKeptOff

\* Who is recorded, and as what.
LEMMA Recording ==
  ASSUME NEW by, NEW action, NEW s, Record(action, by, s)
  PROVE  audit'.by = by /\ audit'.action = action
  BY DEF Record

\* What the organisation admin does is done from above.
LEMMA AdminGives ==
  ASSUME audit'.by = OrgAdmin
  PROVE  RisesAreGiven
<1>1. \A s \in Shared : s \in Chain(s) /\ Administers(OrgAdmin, s)
  BY OwnChain, OrgAdminAdministers DEF Shared
<1> QED
  BY <1>1 DEF RisesAreGiven

LEMMA KeptIsGiven ==
  ASSUME Inductive, RolesKept
  PROVE  RisesAreGiven /\ OnlyMovedOpens
<1>1. ASSUME NEW p \in Principals, NEW s \in live \cap live' \cap Shared
      PROVE  ~(Rank[RoleOf(p, s)'] > Rank[RoleOf(p, s)])
  <2>1. RoleOf(p, s)' = RoleOf(p, s)
    BY DEF RolesKept
  <2> QED
    BY <2>1, NoRise DEF Inductive, Shared
<1> QED
  BY <1>1 DEF RisesAreGiven, OnlyMovedOpens

LEMMA GivenBeneath ==
  ASSUME Inductive, NEW x, RolesKeptOff(x), Administers(audit'.by, x)
  PROVE  RisesAreGiven
<1>1. ASSUME NEW p \in Principals, NEW s \in live \cap live' \cap Shared, x \notin Chain(s)
      PROVE  ~(Rank[RoleOf(p, s)'] > Rank[RoleOf(p, s)])
  <2>1. RoleOf(p, s)' = RoleOf(p, s)
    BY <1>1 DEF RolesKeptOff
  <2> QED
    BY <2>1, NoRise DEF Inductive, Shared
<1> QED
  BY <1>1 DEF RisesAreGiven

LEMMA OpensBeneath ==
  ASSUME Inductive, NEW x, RolesKeptOff(x), x \notin live'
  PROVE  OnlyMovedOpens
<1>1. ASSUME NEW p \in Principals, NEW s \in live \cap live' \cap Shared, x \notin Chain(s)
      PROVE  ~(Rank[RoleOf(p, s)'] > Rank[RoleOf(p, s)])
  <2>1. RoleOf(p, s)' = RoleOf(p, s)
    BY <1>1 DEF RolesKeptOff
  <2> QED
    BY <2>1, NoRise DEF Inductive, Shared
<1> QED
  BY <1>1 DEF OnlyMovedOpens
LEMMA GrantGives ==
  ASSUME Inductive, NEW by \in Principals, NEW p \in Principals, NEW x \in Scopes,
         NEW role \in GrantedRoles, GrantRole(by, p, x, role)
  PROVE  RisesAreGiven /\ OnlyMovedOpens
<1>1. /\ Administers(by, x) /\ granted' = [granted EXCEPT ![p][x] = role]
      /\ UNCHANGED <<parent, owner>> /\ Record("grant", by, x)
  BY DEF GrantRole
<1>2. \A q \in Principals, t \in Scopes \ {x} : granted'[q][t] = granted[q][t]
  BY <1>1 DEF Inductive, TypeOK
<1>3. RolesKeptOff(x)
  BY <1>1, <1>2, RowRoles
<1>4. audit'.by = by /\ audit'.action # "scope_merge"
  BY <1>1, Recording
<1> QED
  BY <1>1, <1>3, <1>4, GivenBeneath DEF OnlyMovedOpens

LEMMA GrantRevokeGives ==
  ASSUME Inductive, NEW by \in Principals, NEW p \in Principals, NEW x \in Scopes,
         GrantRevoke(by, p, x)
  PROVE  RisesAreGiven /\ OnlyMovedOpens
<1>1. /\ Administers(by, x) /\ granted' = [granted EXCEPT ![p][x] = "none"]
      /\ UNCHANGED <<parent, owner>> /\ Record("grant_revoke", by, x)
  BY DEF GrantRevoke
<1>2. \A q \in Principals, t \in Scopes \ {x} : granted'[q][t] = granted[q][t]
  BY <1>1 DEF Inductive, TypeOK
<1>3. RolesKeptOff(x)
  BY <1>1, <1>2, RowRoles
<1>4. audit'.by = by /\ audit'.action # "scope_merge"
  BY <1>1, Recording
<1> QED
  BY <1>1, <1>3, <1>4, GivenBeneath DEF OnlyMovedOpens

LEMMA MoveGives ==
  ASSUME Inductive, NEW by \in Principals, NEW x \in Scopes, NEW y \in Scopes,
         ScopeMove(by, x, y)
  PROVE  RisesAreGiven /\ OnlyMovedOpens
<1>1. Administers(by, x) /\ Record("scope_move", by, x)
  BY DEF ScopeMove, MayMove
<1>2. RolesKeptOff(x)
  BY MoveRoles
<1>3. audit'.by = by /\ audit'.action # "scope_merge"
  BY <1>1, Recording
<1> QED
  BY <1>1, <1>2, <1>3, GivenBeneath DEF OnlyMovedOpens

LEMMA MergeGives ==
  ASSUME Inductive, NEW by \in Principals, NEW x \in Scopes, NEW y \in Scopes,
         ScopeMerge(by, x, y)
  PROVE  RisesAreGiven /\ OnlyMovedOpens
<1>1. by = OrgAdmin /\ Record("scope_merge", by, y)
  BY DEF ScopeMerge
<1>2. audit'.by = OrgAdmin
  BY <1>1, Recording
<1>3. OnlyMovedOpens
  BY MergeRoles, OpensBeneath
<1> QED
  BY <1>2, <1>3, AdminGives

\* Any other operation of the organisation admin.
LEMMA AdminStep ==
  ASSUME NEW action, action # "scope_merge", NEW s, Record(action, OrgAdmin, s)
  PROVE  RisesAreGiven /\ OnlyMovedOpens
<1>1. audit'.by = OrgAdmin /\ audit'.action # "scope_merge"
  BY Recording
<1> QED
  BY <1>1, AdminGives DEF OnlyMovedOpens

LEMMA RolesStep == Inductive /\ [Next]_vars => RisesAreGiven /\ OnlyMovedOpens
<1> DEFINE Goal == RisesAreGiven /\ OnlyMovedOpens
<1> SUFFICES ASSUME Inductive, [Next]_vars
             PROVE  Goal
  OBVIOUS
<1>1. ASSUME UNCHANGED vars PROVE Goal
  BY <1>1, QuietRoles, KeptIsGiven DEF vars
<1>2. ASSUME NEW by \in Principals, Operation(by)
      PROVE  Goal
  <2>1. ASSUME PersonalScope(by) PROVE Goal
    BY <2>1, PersonalQuiet, KeptIsGiven
  <2>2. ASSUME PrincipalList(by) PROVE Goal
    BY <2>2, PersonalQuiet, KeptIsGiven
  <2>3. ASSUME NEW p \in Principals, PrincipalCreate(by, p) PROVE Goal
    BY <2>3, AdminStep DEF PrincipalCreate
  <2>4. ASSUME NEW p \in Principals, PrincipalRevoke(by, p) PROVE Goal
    BY <2>4, AdminStep DEF PrincipalRevoke
  <2>5. ASSUME NEW s \in Scopes, NEW above \in Scopes, ScopeCreate(by, s, above) PROVE Goal
    BY <2>5, CreateRoles, KeptIsGiven
  <2>6. ASSUME NEW s \in Scopes, NEW above \in Scopes, ScopeMove(by, s, above) PROVE Goal
    BY <2>6, MoveGives
  <2>7. ASSUME NEW p \in Grantees, NEW s \in Scopes, NEW role \in GrantedRoles,
               GrantRole(by, p, s, role)
        PROVE  Goal
    BY <2>7, GrantGives, AccessAssumption
  <2>8. ASSUME NEW p \in Principals, NEW s \in Scopes, GrantRevoke(by, p, s) PROVE Goal
    BY <2>8, GrantRevokeGives
  <2>9. ASSUME NEW p \in Principals, NEW s \in Scopes, OwnerSet(by, p, s) PROVE Goal
    BY <2>9, AdminStep DEF OwnerSet
  <2>10. ASSUME NEW p \in Grantees, NEW s \in Scopes, NEW flags \in PolicyChoices,
                PolicySet(by, p, s, flags)
         PROVE  Goal
    BY <2>10, AdminStep DEF PolicySet
  <2>11. ASSUME NEW s \in Scopes, ScopeDelete(by, s) PROVE Goal
    BY <2>11, DeleteRoles, KeptIsGiven
  <2>12. ASSUME NEW source \in Scopes, NEW target \in Scopes, ScopeMerge(by, source, target)
         PROVE  Goal
    BY <2>12, MergeGives
  <2>13. ASSUME Exports(by) PROVE Goal
    BY <2>13, ExportsReport, QuietRoles, KeptIsGiven
  <2> HIDE DEF Goal
  <2> QED
    BY <1>2, <2>1, <2>2, <2>3, <2>4, <2>5, <2>6, <2>7, <2>8, <2>9, <2>10, <2>11, <2>12,
       <2>13 DEF Operation
<1> HIDE DEF Goal
<1> QED
  BY <1>1, <1>2 DEF Next

\* Nobody's role rises but through somebody who was admin there or above, however
\* grants, transfers, moves and merges follow one another.
THEOREM AuthorityFromAbove == Spec => RolesRiseFromAbove
<1>1. Inductive /\ [Next]_vars =>
        [UNCHANGED <<live, parent, owner, granted>> \/ RisesAreGiven]_vars
  BY RolesStep
<1> QED
  BY <1>1, InductiveHolds, PTL DEF Spec, RolesRiseFromAbove

\* A merge opens to nobody what was not under the scope merged.
THEOREM MergesOpenOnlyMoved == Spec => MergeOpensOnlyMoved
<1>1. Inductive /\ [Next]_vars => [OnlyMovedOpens]_vars
  BY RolesStep
<1> QED
  BY <1>1, InductiveHolds, PTL DEF Spec, MergeOpensOnlyMoved
-----------------------------------------------------------------------------
(* Personal scopes for everybody.                                            *)

\* Scopes of the tree may go, and principals come with their personal scope.
Provides ==
    /\ live \ live' \subseteq Shared
    /\ \A p \in Principals : status'[p] = status[p] \/ status[p] # "absent" \/ Personal[p] \in live'

LEMMA ProvidesStep == Inductive /\ [Next]_vars => Provides
<1> SUFFICES ASSUME Inductive, [Next]_vars
             PROVE  Provides
  OBVIOUS
<1>1. ASSUME live \subseteq live', UNCHANGED status PROVE Provides
  BY <1>1 DEF Provides
<1>2. ASSUME NEW x \in Shared, live' = live \ {x}, UNCHANGED status PROVE Provides
  BY <1>2 DEF Provides
<1>3. ASSUME UNCHANGED vars PROVE Provides
  BY <1>1, <1>3 DEF vars
<1>4. ASSUME NEW by \in Principals, Operation(by)
      PROVE  Provides
  <2>1. ASSUME PersonalScope(by) PROVE Provides
    BY <1>1, <2>1 DEF PersonalScope, EnsurePersonal
  <2>2. ASSUME PrincipalList(by) PROVE Provides
    BY <1>1, <2>2 DEF PrincipalList, EnsurePersonal
  <2>3. ASSUME NEW p \in Principals, PrincipalCreate(by, p) PROVE Provides
    <3>1. live \subseteq live' /\ Personal[p] \in live'
      BY <2>3 DEF PrincipalCreate, EnsurePersonal
    <3>2. \A q \in Principals : q = p \/ status'[q] = status[q]
      BY <2>3 DEF PrincipalCreate, Inductive, TypeOK
    <3> QED
      BY <3>1, <3>2 DEF Provides
  <2>4. ASSUME NEW p \in Principals, PrincipalRevoke(by, p) PROVE Provides
    <3>1. live' = live /\ status[p] # "absent"
      BY <2>4 DEF PrincipalRevoke
    <3>2. \A q \in Principals : q = p \/ status'[q] = status[q]
      BY <2>4 DEF PrincipalRevoke, Inductive, TypeOK
    <3> QED
      BY <3>1, <3>2 DEF Provides
  <2>5. ASSUME NEW s \in Scopes, NEW above \in Scopes, ScopeCreate(by, s, above) PROVE Provides
    BY <1>1, <2>5 DEF ScopeCreate
  <2>6. ASSUME NEW s \in Scopes, NEW above \in Scopes, ScopeMove(by, s, above) PROVE Provides
    BY <1>1, <2>6 DEF ScopeMove
  <2>7. ASSUME NEW p \in Grantees, NEW s \in Scopes, NEW role \in GrantedRoles,
               GrantRole(by, p, s, role)
        PROVE  Provides
    BY <1>1, <2>7 DEF GrantRole
  <2>8. ASSUME NEW p \in Principals, NEW s \in Scopes, GrantRevoke(by, p, s) PROVE Provides
    BY <1>1, <2>8 DEF GrantRevoke
  <2>9. ASSUME NEW p \in Principals, NEW s \in Scopes, OwnerSet(by, p, s) PROVE Provides
    BY <1>1, <2>9 DEF OwnerSet
  <2>10. ASSUME NEW p \in Grantees, NEW s \in Scopes, NEW flags \in PolicyChoices,
                PolicySet(by, p, s, flags)
         PROVE  Provides
    BY <1>1, <2>10 DEF PolicySet
  <2>11. ASSUME NEW s \in Scopes, ScopeDelete(by, s) PROVE Provides
    BY <1>2, <2>11, PersonalKinds DEF ScopeDelete, Forget
  <2>12. ASSUME NEW source \in Scopes, NEW target \in Scopes, ScopeMerge(by, source, target)
         PROVE  Provides
    <3>1. source \in Shared /\ UNCHANGED status /\ live' = live \ {source}
      BY <2>12, Merges DEF Forget
    <3> QED
      BY <1>2, <3>1
  <2>13. ASSUME Exports(by) PROVE Provides
    BY <1>1, <2>13, ExportsReport
  <2> QED
    BY <1>4, <2>1, <2>2, <2>3, <2>4, <2>5, <2>6, <2>7, <2>8, <2>9, <2>10, <2>11, <2>12,
       <2>13 DEF Operation
<1> QED
  BY <1>3, <1>4 DEF Next

\* Whoever is provisioned gets a personal scope, and keeps it for good, whatever
\* becomes of the hierarchy, and after revocation too.
THEOREM PersonalForEverybody == Spec => PersonalForAll
<1>1. ASSUME Inductive, [Next]_vars PROVE PersonalStays
  <2>1. Provides /\ Inductive'
    BY <1>1, ProvidesStep, NextStep
  <2>2. ASSUME NEW p \in Principals,
               (status[p] = "absent" /\ status'[p] # "absent") \/ Personal[p] \in live
        PROVE  Personal[p] \in live' /\ owner'[Personal[p]] = p
    <3>1. Personal[p] \notin Shared
      BY PersonalKinds
    <3>2. Personal[p] \in live'
      BY <2>1, <2>2, <3>1 DEF Provides
    <3> QED
      BY <2>1, <3>2 DEF Inductive, PersonalRows
  <2> QED
    BY <2>2 DEF PersonalStays
<1>2. Inductive /\ [Next]_vars => [PersonalStays]_vars
  BY <1>1
<1> QED
  BY <1>2, InductiveHolds, PTL DEF Spec, PersonalForAll
-----------------------------------------------------------------------------
(* The organisation that Memory and Jobs assume.                             *)

\* A personal scope is that of one principal.
LEMMA PersonalOwner ==
  ASSUME NEW o \in Principals
  PROVE  (CHOOSE p \in Principals : Personal[p] = Personal[o]) = o
<1> DEFINE q == CHOOSE p \in Principals : Personal[p] = Personal[o]
<1>1. q \in Principals /\ Personal[q] = Personal[o]
  OBVIOUS
<1> QED
  BY <1>1, AccessAssumption

\* Roles that do not change: those of the organisation admin on the tree, and all
\* roles on personal scopes.
LEMMA FixedRoles ==
  ASSUME Inductive, Inductive', NEW p \in Principals, NEW s \in live \cap live',
         p = OrgAdmin \/ s \notin Shared
  PROVE  RoleOf(p, s)' = RoleOf(p, s)
<1>1. s \in Scopes
  BY DEF Inductive, TypeOK
<1>2. ASSUME s \in Shared
      PROVE  RoleOf(p, s)' = RoleOf(p, s)
  <2>1. p = OrgAdmin /\ Kind[s] # "personal"
    BY <1>2 DEF Shared
  <2>2. RoleOf(p, s) = "admin" /\ RoleOf(p, s)' = "admin"
    BY <2>1 DEF RoleOf
  <2> QED
    BY <2>2
<1>3. ASSUME s \notin Shared
      PROVE  RoleOf(p, s)' = RoleOf(p, s)
  <2>1. PICK o \in Principals : Personal[o] = s
    BY <1>1, <1>3, PersonalKinds
  <2>2. owner[s] = o /\ owner'[s] = o
    BY <2>1 DEF Inductive, PersonalRows
  <2>3. Kind[s] = "personal"
    BY <1>1, <1>3 DEF Shared
  <2> QED
    BY <2>2, <2>3 DEF RoleOf
<1> QED
  BY <1>2, <1>3

RolesTyped == \A p \in Principals, s \in live : RoleOf(p, s) \in Role

LEMMA TypedRoles == Inductive => RolesTyped
<1>1. ASSUME Inductive, NEW p \in Principals, NEW s \in live
      PROVE  RoleOf(p, s) \in Role
  <2>1. s \in Scopes /\ TypeOK
    BY <1>1 DEF Inductive, TypeOK
  <2> QED
    BY <2>1, RoleType
<1> QED
  BY <1>1 DEF RolesTyped

LEMMA TypedNext == Inductive' => RolesTyped'
  BY TypedRoles, PTL

LEMMA SeenRoles ==
  ASSUME Inductive, Inductive'
  PROVE  RolesAsSeen
<1>1. ASSUME NEW p \in Principals, NEW s \in live \cap live', RoleOf(p, s)' # RoleOf(p, s)
      PROVE  p # OrgAdmin /\ s \in Shared /\ RoleOf(p, s)' \in Role
  <2>1. RolesTyped'
    BY TypedNext
  <2>2. RoleOf(p, s)' \in Role
    BY <2>1 DEF RolesTyped
  <2>3. ~(p = OrgAdmin \/ s \notin Shared)
    BY <1>1, FixedRoles
  <2> QED
    BY <2>2, <2>3
<1> QED
  BY <1>1 DEF RolesAsSeen

\* Who administers a scope of the tree may do there what admins may.
LEMMA SeenAdmin ==
  ASSUME NEW p \in Principals, NEW s \in Shared, s \in live, MayDelete(p, s)
  PROVE  Seen!Allowed(p, s, "admin") /\ Seen!MayDelete(p, s)
<1>1. RoleOf(p, s) = "admin"
  BY DEF MayDelete, Administers, AtLeast, Role, Rank
<1>2. Seen!RoleOf(p, s) = "admin" /\ s \in Scopes
  BY <1>1 DEF Seen!RoleOf, Shared
<1>3. "admin" \in Seen!AtLeast("admin")
  BY DEF Seen!AtLeast, Seen!Role, Seen!Rank
<1> QED
  BY <1>2, <1>3 DEF Seen!Allowed, Seen!MayDelete

LEMMA SeenDelete ==
  ASSUME Inductive, Inductive', NEW by \in Principals, NEW x \in Scopes, ScopeDelete(by, x)
  PROVE  GoneAsSeen
<1>1. x \in live \cap Workspaces /\ MayDelete(by, x) /\ live' = live \ {x}
  BY DEF ScopeDelete, Forget
<1>2. x \in Shared
  BY <1>1, PersonalKinds
<1>3. Seen!MayDeleteScope(by, x)
  BY <1>1, <1>2, SeenAdmin DEF Seen!MayDeleteScope, Workspaces
<1>4. audit'.by = by /\ audit'.action = "scope_delete"
  BY Recording DEF ScopeDelete
<1>5. ASSUME NEW p \in Principals, NEW t \in live'
      PROVE  RoleOf(p, t)' = RoleOf(p, t)
  <2>1. t \in live \cap live'
    BY <1>1
  <2>2. CASE t \in Shared
    BY <2>1, <2>2, DeleteRoles DEF RolesKept
  <2>3. CASE t \notin Shared
    BY <2>1, <2>3, FixedRoles
  <2> QED
    BY <2>2, <2>3
<1> QED
  BY <1>1, <1>3, <1>4, <1>5 DEF GoneAsSeen

LEMMA SeenMerge ==
  ASSUME Inductive, NEW by \in Principals, NEW x \in Scopes, NEW y \in Scopes,
         ScopeMerge(by, x, y)
  PROVE  GoneAsSeen
<1>1. /\ by = OrgAdmin /\ {x, y} \subseteq live /\ x # y
      /\ Kind[x] = "department" /\ Kind[y] = "department" /\ MayDelete(by, x)
  BY DEF ScopeMerge
<1>2. x \in Shared /\ live' = live \ {x}
  BY Merges DEF Forget
<1>3. Seen!MayDelete(by, x)
  BY <1>1, <1>2, SeenAdmin
<1>4. Seen!MayMergeScopes(by, x, y)
  BY <1>1, <1>3 DEF Seen!MayMergeScopes
<1>5. audit'.by = by /\ audit'.action = "scope_merge" /\ audit'.scope = y
  BY DEF ScopeMerge, Record
<1> QED
  BY <1>2, <1>4, <1>5 DEF GoneAsSeen

LEMMA SeenStep == Inductive /\ Inductive' /\ [Next]_vars => GoneAsSeen
<1> SUFFICES ASSUME Inductive, Inductive', [Next]_vars
             PROVE  GoneAsSeen
  OBVIOUS
<1>1. ASSUME live \subseteq live' PROVE GoneAsSeen
  BY <1>1 DEF GoneAsSeen
<1>2. ASSUME UNCHANGED vars PROVE GoneAsSeen
  BY <1>1, <1>2 DEF vars
<1>3. ASSUME NEW by \in Principals, Operation(by)
      PROVE  GoneAsSeen
  <2>1. ASSUME PersonalScope(by) PROVE GoneAsSeen
    BY <1>1, <2>1 DEF PersonalScope, EnsurePersonal
  <2>2. ASSUME PrincipalList(by) PROVE GoneAsSeen
    BY <1>1, <2>2 DEF PrincipalList, EnsurePersonal
  <2>3. ASSUME NEW p \in Principals, PrincipalCreate(by, p) PROVE GoneAsSeen
    BY <1>1, <2>3 DEF PrincipalCreate, EnsurePersonal
  <2>4. ASSUME NEW p \in Principals, PrincipalRevoke(by, p) PROVE GoneAsSeen
    BY <1>1, <2>4 DEF PrincipalRevoke
  <2>5. ASSUME NEW s \in Scopes, NEW above \in Scopes, ScopeCreate(by, s, above)
        PROVE  GoneAsSeen
    BY <1>1, <2>5 DEF ScopeCreate
  <2>6. ASSUME NEW s \in Scopes, NEW above \in Scopes, ScopeMove(by, s, above)
        PROVE  GoneAsSeen
    BY <1>1, <2>6 DEF ScopeMove
  <2>7. ASSUME NEW p \in Grantees, NEW s \in Scopes, NEW role \in GrantedRoles,
               GrantRole(by, p, s, role)
        PROVE  GoneAsSeen
    BY <1>1, <2>7 DEF GrantRole
  <2>8. ASSUME NEW p \in Principals, NEW s \in Scopes, GrantRevoke(by, p, s) PROVE GoneAsSeen
    BY <1>1, <2>8 DEF GrantRevoke
  <2>9. ASSUME NEW p \in Principals, NEW s \in Scopes, OwnerSet(by, p, s) PROVE GoneAsSeen
    BY <1>1, <2>9 DEF OwnerSet
  <2>10. ASSUME NEW p \in Grantees, NEW s \in Scopes, NEW flags \in PolicyChoices,
                PolicySet(by, p, s, flags)
         PROVE  GoneAsSeen
    BY <1>1, <2>10 DEF PolicySet
  <2>11. ASSUME NEW s \in Scopes, ScopeDelete(by, s) PROVE GoneAsSeen
    BY <2>11, SeenDelete
  <2>12. ASSUME NEW source \in Scopes, NEW target \in Scopes, ScopeMerge(by, source, target)
         PROVE  GoneAsSeen
    BY <2>12, SeenMerge
  <2>13. ASSUME Exports(by) PROVE GoneAsSeen
    BY <1>1, <2>13, ExportsReport
  <2> QED
    BY <1>3, <2>1, <2>2, <2>3, <2>4, <2>5, <2>6, <2>7, <2>8, <2>9, <2>10, <2>11, <2>12,
       <2>13 DEF Operation
<1> QED
  BY <1>2, <1>3 DEF Next

\* What Memory and Jobs take an organisation for is what this one does: a scope
\* goes by a deletion or a merge that their guards allow to the very actor, with
\* no role changed elsewhere by a deletion, and roles change only as they let them.
THEOREM TreeIsOrganisation == Spec => OrganisationFollows
<1>1. Inductive /\ [Next]_vars => Inductive'
  BY NextStep
<1>2. Inductive /\ Inductive' => RolesAsSeen
  BY SeenRoles
<1>3. Inductive /\ [Next]_vars => [GoneAsSeen /\ RolesAsSeen]_vars
  BY <1>1, <1>2, SeenStep
<1> QED
  BY <1>3, InductiveHolds, PTL DEF Spec, OrganisationFollows
=============================================================================
