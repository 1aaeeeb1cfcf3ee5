----------------------------- MODULE SetTheorems -----------------------------
(***************************************************************************)
(* Facts about finite sets that the proofs of several modules need: that   *)
(* there are least subsets, and the laws of SumFunctionOnSet, the sum of a *)
(* function over a finite set.                                             *)
(*                                                                         *)
(* The community modules define the sum by recursion over the subsets of   *)
(* the set.  The theorems of induction that the library has take a         *)
(* predicate as a parameter; each proof here looks at a least subset that  *)
(* does not have the property wanted, instead.                             *)
(***************************************************************************)
EXTENDS Functions, FiniteSetTheorems, TLAPS

\* The element a fold takes out of a set.
Pick(s) == CHOOSE x \in s : TRUE

\* g sums f over the subsets of S as the definition says.
Unfolds(g, f, S) ==
    g = [s \in SUBSET S |-> IF s = {} THEN 0 ELSE f[Pick(s)] + g[s \ {Pick(s)}]]

\* A set of subsets of a finite set has a least element.
LEMMA LeastSubset ==
    ASSUME NEW S, IsFiniteSet(S), NEW bad, bad \subseteq SUBSET S, bad # {}
    PROVE  \E T \in bad : \A U \in bad : U \subseteq T => U = T
  <1>1. IsWellFoundedOn(StrictSubsetOrdering(S), SUBSET S)
    BY FS_StrictSubsetOrderingWellFounded, FS_FiniteSubsetsOfFinite
  <1>2. PICK T \in bad : \A U \in bad : ~(<<U, T>> \in StrictSubsetOrdering(S))
    BY <1>1, WFMin
  <1>3. \A U \in bad : U \subseteq T => U = T
    BY <1>2 DEF StrictSubsetOrdering
  <1> QED
    BY <1>3

LEMMA PickIn ==
    ASSUME NEW s, s # {}
    PROVE  Pick(s) \in s
  BY DEF Pick

LEMMA SumIsChosen ==
    ASSUME NEW f, NEW S
    PROVE  SumFunctionOnSet(f, S) = (CHOOSE g : Unfolds(g, f, S))[S]
  BY DEF SumFunctionOnSet, FoldFunctionOnSet, MapThenFoldSet, Unfolds, Pick

\* What the equation says of one subset.
LEMMA Unfolded ==
    ASSUME NEW f, NEW S, NEW g, Unfolds(g, f, S), NEW T, T \subseteq S
    PROVE  /\ T = {} => g[T] = 0
           /\ T # {} => g[T] = f[Pick(T)] + g[T \ {Pick(T)}]
  BY DEF Unfolds

\* Two functions that satisfy the equation agree where both are defined.
LEMMA UnfoldsAgree ==
    ASSUME NEW f, NEW S, IsFiniteSet(S), NEW g, Unfolds(g, f, S),
           NEW R, NEW h, Unfolds(h, f, R), NEW T, T \subseteq S, T \subseteq R
    PROVE  g[T] = h[T]
  <1> DEFINE bad == {U \in SUBSET T : g[U] # h[U]}
  <1> SUFFICES ASSUME bad # {} PROVE FALSE
    OBVIOUS
  <1>1. PICK U \in bad : \A V \in bad : V \subseteq U => V = U
    <2>1. bad \subseteq SUBSET S
      OBVIOUS
    <2> HIDE DEF bad
    <2> QED
      BY <2>1, LeastSubset
  <1>2. CASE U = {}
    BY <1>1, <1>2, Unfolded
  <1>3. CASE U # {}
    <2>1. Pick(U) \in U
      BY <1>3, PickIn
    <2>2. g[U \ {Pick(U)}] = h[U \ {Pick(U)}]
      BY <1>1, <2>1
    <2>3. g[U] = f[Pick(U)] + g[U \ {Pick(U)}] /\ h[U] = f[Pick(U)] + h[U \ {Pick(U)}]
      BY <1>1, <1>3, Unfolded
    <2> QED
      BY <1>1, <2>2, <2>3
  <1> QED
    BY <1>2, <1>3

\* If a function satisfies the equation for a set, it gives the sum over each
\* of its subsets.
LEMMA SumByUnfolding ==
    ASSUME NEW f, NEW S, IsFiniteSet(S), NEW g, Unfolds(g, f, S),
           NEW T, T \subseteq S
    PROVE  SumFunctionOnSet(f, T) = g[T]
  <1> DEFINE k == [s \in SUBSET T |-> g[s]]
             h == CHOOSE x : Unfolds(x, f, T)
  <1>1. Unfolds(k, f, T)
    <2>1. \A s \in SUBSET T : s \ {Pick(s)} \in SUBSET T
      OBVIOUS
    <2>2. \A s \in SUBSET T :
             g[s] = IF s = {} THEN 0 ELSE f[Pick(s)] + g[s \ {Pick(s)}]
      BY Unfolded
    <2>3. \A s \in SUBSET T :
             k[s] = IF s = {} THEN 0 ELSE f[Pick(s)] + k[s \ {Pick(s)}]
      BY <2>1, <2>2
    <2> QED
      BY <2>3 DEF Unfolds
  <1>2. Unfolds(h, f, T)
    BY <1>1
  <1>3. g[T] = h[T]
    BY <1>2, UnfoldsAgree
  <1> QED
    BY <1>3, SumIsChosen

\* Over a finite set there is such a function.
LEMMA UnfoldingExists ==
    ASSUME NEW f, NEW S, IsFiniteSet(S)
    PROVE  \E g : Unfolds(g, f, S)
  <1> DEFINE Sum(s) == SumFunctionOnSet(f, s)
             bad == {T \in SUBSET S : ~\E g : Unfolds(g, f, T)}
  <1> SUFFICES ASSUME bad # {} PROVE FALSE
    OBVIOUS
  <1>1. PICK T \in bad : \A U \in bad : U \subseteq T => U = T
    <2>1. bad \subseteq SUBSET S
      OBVIOUS
    <2> HIDE DEF bad
    <2> QED
      BY <2>1, LeastSubset
  <1> DEFINE g == [s \in SUBSET T |-> IF s = {} THEN 0
                                      ELSE f[Pick(s)] + Sum(s \ {Pick(s)})]
  <1>2. ASSUME NEW s \in SUBSET T, s # {}
        PROVE  g[s \ {Pick(s)}] = Sum(s \ {Pick(s)})
    <2> DEFINE U == s \ {Pick(s)}
    <2>1. U \subseteq T /\ U # T /\ IsFiniteSet(U)
      BY <1>2, PickIn, FS_Subset
    <2>2. PICK h : Unfolds(h, f, U)
      BY <1>1, <2>1
    <2> HIDE DEF U
    <2>3. Sum(U) = h[U]
      BY <2>1, <2>2, SumByUnfolding
    <2>4. Sum(U \ {Pick(U)}) = h[U \ {Pick(U)}]
      BY <2>1, <2>2, SumByUnfolding
    <2>5. h[U] = IF U = {} THEN 0 ELSE f[Pick(U)] + h[U \ {Pick(U)}]
      BY <2>2, Unfolded
    <2> HIDE DEF Sum
    <2>6. g[U] = Sum(U)
      BY <2>1, <2>3, <2>4, <2>5
    <2> QED
      BY <2>6 DEF U
  <1>3. Unfolds(g, f, T)
    BY <1>2 DEF Unfolds
  <1> QED
    BY <1>1, <1>3

-----------------------------------------------------------------------------
(* The laws.                                                               *)

LEMMA SumEmpty ==
    ASSUME NEW f
    PROVE  SumFunctionOnSet(f, {}) = 0
  <1>1. PICK g : Unfolds(g, f, {})
    BY FS_EmptySet, UnfoldingExists
  <1>2. SumFunctionOnSet(f, {}) = g[{}]
    BY <1>1, FS_EmptySet, SumByUnfolding
  <1>3. g[{}] = 0
    BY <1>1, Unfolded
  <1> QED
    BY <1>2, <1>3

LEMMA SumPick ==
    ASSUME NEW f, NEW S, IsFiniteSet(S), S # {}
    PROVE  SumFunctionOnSet(f, S) = f[Pick(S)] + SumFunctionOnSet(f, S \ {Pick(S)})
  <1>1. PICK g : Unfolds(g, f, S)
    BY UnfoldingExists
  <1>2. SumFunctionOnSet(f, S) = g[S]
    BY <1>1, SumByUnfolding
  <1>3. SumFunctionOnSet(f, S \ {Pick(S)}) = g[S \ {Pick(S)}]
    BY <1>1, SumByUnfolding
  <1> QED
    BY <1>1, <1>2, <1>3, Unfolded

\* A sum of naturals is one.
LEMMA SumType ==
    ASSUME NEW f, NEW S, IsFiniteSet(S), \A x \in S : f[x] \in Nat
    PROVE  SumFunctionOnSet(f, S) \in Nat
  <1> DEFINE Sum(s) == SumFunctionOnSet(f, s)
             bad == {T \in SUBSET S : Sum(T) \notin Nat}
  <1> SUFFICES ASSUME bad # {} PROVE FALSE
    OBVIOUS
  <1>1. PICK T \in bad : \A U \in bad : U \subseteq T => U = T
    <2>1. bad \subseteq SUBSET S
      OBVIOUS
    <2> HIDE DEF bad
    <2> QED
      BY <2>1, LeastSubset
  <1>2. T # {}
    <2>1. Sum(T) \notin Nat
      BY <1>1
    <2>2. T = {} => Sum(T) = 0
      BY SumEmpty
    <2> HIDE DEF Sum, bad
    <2> QED
      BY <2>1, <2>2
  <1>3. Pick(T) \in T /\ IsFiniteSet(T)
    BY <1>2, PickIn, FS_Subset
  <1>4. Sum(T) = f[Pick(T)] + Sum(T \ {Pick(T)})
    BY <1>2, <1>3, SumPick
  <1> HIDE DEF Sum
  <1>5. Sum(T \ {Pick(T)}) \in Nat
    BY <1>1, <1>3
  <1> QED
    BY <1>1, <1>3, <1>4, <1>5

\* Any element can be taken out.
LEMMA SumRemove ==
    ASSUME NEW f, NEW S, IsFiniteSet(S), \A x \in S : f[x] \in Nat, NEW e \in S
    PROVE  SumFunctionOnSet(f, S) = f[e] + SumFunctionOnSet(f, S \ {e})
  <1> DEFINE Sum(s) == SumFunctionOnSet(f, s)
             bad == {T \in SUBSET S : \E x \in T : Sum(T) # f[x] + Sum(T \ {x})}
  <1> SUFFICES ASSUME bad # {} PROVE FALSE
    OBVIOUS
  <1>1. PICK T \in bad : \A U \in bad : U \subseteq T => U = T
    <2>1. bad \subseteq SUBSET S
      OBVIOUS
    <2> HIDE DEF bad
    <2> QED
      BY <2>1, LeastSubset
  <1>2. T \subseteq S /\ \A U \in SUBSET T : \A x \in U : U # T => Sum(U) = f[x] + Sum(U \ {x})
    BY <1>1
  <1>3. PICK x \in T : Sum(T) # f[x] + Sum(T \ {x})
    BY <1>1
  <1> DEFINE y == Pick(T)
             W == (T \ {y}) \ {x}
  <1>4. y \in T /\ IsFiniteSet(T) /\ IsFiniteSet(W)
    BY <1>2, <1>3, PickIn, FS_Subset
  <1>5. Sum(T) = f[y] + Sum(T \ {y})
    BY <1>3, <1>4, SumPick
  <1> HIDE DEF bad, y
  <1>6. x # y
    BY <1>3, <1>5
  <1>7. Sum(T \ {y}) = f[x] + Sum(W)
    <2>1. T \ {y} \in SUBSET T /\ T \ {y} # T /\ x \in T \ {y}
      BY <1>4, <1>6
    <2> HIDE DEF Sum
    <2> QED
      BY <1>2, <2>1
  <1>8. Sum(T \ {x}) = f[y] + Sum(W)
    <2>1. T \ {x} \in SUBSET T /\ T \ {x} # T /\ y \in T \ {x}
      BY <1>4, <1>6
    <2>2. (T \ {x}) \ {y} = W
      OBVIOUS
    <2> HIDE DEF Sum, W
    <2> QED
      BY <1>2, <2>1, <2>2
  <1>9. Sum(W) \in Nat /\ f[x] \in Nat /\ f[y] \in Nat
    BY <1>2, <1>4, SumType
  <1>10. Sum(T) = f[x] + Sum(T \ {x})
    BY <1>5, <1>7, <1>8, <1>9
  <1> QED
    BY <1>3, <1>10

\* An element can be put in.
LEMMA SumAdd ==
    ASSUME NEW f, NEW S, IsFiniteSet(S), NEW x, x \notin S,
           \A y \in S \cup {x} : f[y] \in Nat
    PROVE  SumFunctionOnSet(f, S \cup {x}) = f[x] + SumFunctionOnSet(f, S)
  <1>1. IsFiniteSet(S \cup {x}) /\ (S \cup {x}) \ {x} = S /\ x \in S \cup {x}
    BY FS_AddElement
  <1>2. SumFunctionOnSet(f, S \cup {x}) = f[x] + SumFunctionOnSet(f, (S \cup {x}) \ {x})
    BY <1>1, SumRemove
  <1> QED
    BY <1>1, <1>2

\* The sum depends only on the values at the elements.
LEMMA SumSame ==
    ASSUME NEW S, IsFiniteSet(S), NEW f, NEW g, \A x \in S : f[x] = g[x]
    PROVE  SumFunctionOnSet(f, S) = SumFunctionOnSet(g, S)
  <1> DEFINE F(s) == SumFunctionOnSet(f, s)
             G(s) == SumFunctionOnSet(g, s)
             bad == {T \in SUBSET S : F(T) # G(T)}
  <1> SUFFICES ASSUME bad # {} PROVE FALSE
    OBVIOUS
  <1>1. PICK T \in bad : \A U \in bad : U \subseteq T => U = T
    <2>1. bad \subseteq SUBSET S
      OBVIOUS
    <2> HIDE DEF bad
    <2> QED
      BY <2>1, LeastSubset
  <1>2. T \in SUBSET S /\ F(T) # G(T)
    BY <1>1
  <1>3. T # {}
    <2>1. T = {} => F(T) = 0 /\ G(T) = 0
      BY SumEmpty
    <2> HIDE DEF F, G, bad
    <2> QED
      BY <1>2, <2>1
  <1>4. Pick(T) \in T /\ IsFiniteSet(T)
    BY <1>2, <1>3, PickIn, FS_Subset
  <1>5. F(T) = f[Pick(T)] + F(T \ {Pick(T)}) /\ G(T) = g[Pick(T)] + G(T \ {Pick(T)})
    BY <1>3, <1>4, SumPick
  <1> HIDE DEF F, G
  <1>6. F(T \ {Pick(T)}) = G(T \ {Pick(T)})
    BY <1>1, <1>2, <1>4
  <1> QED
    BY <1>2, <1>4, <1>5, <1>6

\* The function changes at one element.
LEMMA SumChange ==
    ASSUME NEW S, IsFiniteSet(S), NEW x \in S, NEW f, NEW g,
           \A y \in S : f[y] \in Nat /\ g[y] \in Nat,
           \A y \in S \ {x} : f[y] = g[y]
    PROVE  SumFunctionOnSet(g, S) + f[x] = SumFunctionOnSet(f, S) + g[x]
  <1>1. IsFiniteSet(S \ {x})
    BY FS_RemoveElement
  <1>2. SumFunctionOnSet(f, S) = f[x] + SumFunctionOnSet(f, S \ {x})
    BY SumRemove
  <1>3. SumFunctionOnSet(g, S) = g[x] + SumFunctionOnSet(g, S \ {x})
    BY SumRemove
  <1>4. SumFunctionOnSet(f, S \ {x}) = SumFunctionOnSet(g, S \ {x})
    BY <1>1, SumSame
  <1>5. SumFunctionOnSet(f, S \ {x}) \in Nat
    BY <1>1, SumType
  <1> QED
    BY <1>2, <1>3, <1>4, <1>5
=============================================================================
