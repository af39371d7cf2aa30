---------------------------- MODULE Totals_proofs ----------------------------
(***************************************************************************)
(* Lemmas about sums over finite sets.  Induction is over sets of numbers  *)
(* and of sets: a set that is not all of them has a least number missing.  *)
(***************************************************************************)
EXTENDS Totals, Integers, FiniteSetTheorems, WellFoundedInduction, TLAPS

-----------------------------------------------------------------------------
(***************************************************************************)
(* Induction.                                                              *)
(***************************************************************************)
LEMMA LeastNatural ==
    ASSUME NEW T \in SUBSET Nat, T # {}
    PROVE  \E x \in T : \A y \in T : x <= y
<1>1. PICK x \in T : \A y \in T : ~(<<y, x>> \in OpToRel(<, Nat))
  BY NatLessThanWellFounded, WFMin
<1>2. \A y \in T : ~(y < x)
  BY <1>1 DEF OpToRel
<1> QED
  BY <1>2

LEMMA NaturalInduction ==
    ASSUME NEW T \in SUBSET Nat, 0 \in T, \A n \in T : n + 1 \in T
    PROVE  T = Nat
<1>1. SUFFICES ASSUME Nat \ T # {} PROVE FALSE
  OBVIOUS
<1>2. PICK m \in Nat \ T : \A n \in Nat \ T : m <= n
  BY <1>1, LeastNatural
<1>3. m - 1 \in T
  BY <1>2
<1> QED
  BY <1>2, <1>3

\* A collection that has a subset of S whenever it has it without any one of its
\* elements has S.
LEMMA SetInduction ==
    ASSUME NEW S, IsFiniteSet(S), NEW T,
           \A s \in SUBSET S : (\A x \in s : s \ {x} \in T) => s \in T
    PROVE  S \in T
<1> DEFINE Has(n) == \A s \in SUBSET S : Cardinality(s) = n => s \in T
           N == {n \in Nat : Has(n)}
<1>0. \A s \in SUBSET S : IsFiniteSet(s)
  BY FS_Subset
<1>1. Has(0)
  <2> SUFFICES ASSUME NEW s \in SUBSET S, Cardinality(s) = 0 PROVE s \in T
    OBVIOUS
  <2>1. s = {}
    BY <1>0, FS_EmptySet
  <2> QED
    BY <2>1
<1>2. ASSUME NEW n \in Nat, Has(n) PROVE Has(n + 1)
  <2> SUFFICES ASSUME NEW s \in SUBSET S, Cardinality(s) = n + 1 PROVE s \in T
    OBVIOUS
  <2>1. ASSUME NEW x \in s PROVE s \ {x} \in T
    <3>1. Cardinality(s \ {x}) = Cardinality(s) - 1
      BY <1>0, FS_RemoveElement
    <3>2. Cardinality(s \ {x}) = n
      BY <3>1
    <3> QED
      BY <1>2, <3>2
  <2> QED
    BY <2>1
<1>3. N = Nat
  <2> HIDE DEF Has
  <2>1. N \in SUBSET Nat /\ 0 \in N /\ \A n \in N : n + 1 \in N
    BY <1>1, <1>2
  <2> HIDE DEF N
  <2> QED
    BY <2>1, NaturalInduction
<1>4. Cardinality(S) \in N
  BY <1>3, FS_CardinalityType
<1> QED
  BY <1>4

-----------------------------------------------------------------------------
(***************************************************************************)
(* The fold of MapThenSumSet is well defined.                              *)
(***************************************************************************)
Pick(s) == CHOOSE x \in s : TRUE

\* g sums f over the members of D.
Sums(g, f, D) ==
    \A s \in D : g[s] = IF s = {} THEN 0 ELSE f[Pick(s)] + g[s \ {Pick(s)}]

Iterates(g, f, S) ==
    g = [s \in SUBSET S |-> IF s = {} THEN 0 ELSE f[Pick(s)] + g[s \ {Pick(s)}]]

LEMMA IterationExists == ASSUME NEW f, NEW S, IsFiniteSet(S) PROVE \E g : Iterates(g, f, S)
<1> DEFINE D(n) == {s \in SUBSET S : Cardinality(s) <= n}
           Summed(n) == \E g : g = [s \in SUBSET S |-> g[s]] /\ Sums(g, f, D(n))
           N == {n \in Nat : Summed(n)}
<1>0. \A s \in SUBSET S : IsFiniteSet(s) /\ Cardinality(s) \in Nat
  BY FS_Subset, FS_CardinalityType
<1>1. 0 \in N
  <2> DEFINE g == [s \in SUBSET S |-> 0]
  <2>1. \A s \in D(0) : s = {}
    BY <1>0, FS_EmptySet
  <2>2. Sums(g, f, D(0))
    BY <2>1 DEF Sums
  <2>3. g = [s \in SUBSET S |-> g[s]]
    OBVIOUS
  <2> HIDE DEF g
  <2> QED
    BY <2>2, <2>3
<1>2. ASSUME NEW n \in Nat, Summed(n) PROVE Summed(n + 1)
  <2>1. PICK g : g = [s \in SUBSET S |-> g[s]] /\ Sums(g, f, D(n))
    BY <1>2
  <2> DEFINE h == [s \in SUBSET S |-> IF Cardinality(s) <= n THEN g[s]
                                      ELSE IF s = {} THEN 0 ELSE f[Pick(s)] + g[s \ {Pick(s)}]]
  <2>2. ASSUME NEW s \in SUBSET S, s # {}
        PROVE  /\ s \ {Pick(s)} \in SUBSET S
               /\ Cardinality(s \ {Pick(s)}) = Cardinality(s) - 1
    <3>1. Pick(s) \in s
      BY <2>2 DEF Pick
    <3> QED
      BY <1>0, <3>1, FS_RemoveElement
  <2>3. ASSUME NEW s \in D(n + 1), s # {}
        PROVE  h[s \ {Pick(s)}] = g[s \ {Pick(s)}]
    <3>1. Cardinality(s \ {Pick(s)}) <= n
      BY <1>0, <2>2, <2>3
    <3> QED
      BY <2>2, <2>3, <3>1
  <2>4. ASSUME NEW s \in D(n + 1)
        PROVE  h[s] = IF s = {} THEN 0 ELSE f[Pick(s)] + h[s \ {Pick(s)}]
    <3>1. CASE Cardinality(s) <= n
      BY <2>1, <2>3, <3>1 DEF Sums
    <3>2. CASE ~(Cardinality(s) <= n)
      BY <2>3, <3>2
    <3> QED
      BY <3>1, <3>2
  <2>5. Sums(h, f, D(n + 1)) /\ h = [s \in SUBSET S |-> h[s]]
    BY <2>4 DEF Sums
  <2> HIDE DEF h, D
  <2> QED
    BY <2>5
<1>3. N = Nat
  <2> HIDE DEF Summed
  <2>1. N \in SUBSET Nat /\ \A n \in N : n + 1 \in N
    BY <1>2
  <2> HIDE DEF N
  <2> QED
    BY <1>1, <2>1, NaturalInduction
<1>4. Cardinality(S) \in N
  BY <1>3, FS_CardinalityType
<1>5. PICK g : g = [s \in SUBSET S |-> g[s]] /\ Sums(g, f, D(Cardinality(S)))
  BY <1>4
<1>6. D(Cardinality(S)) = SUBSET S
  BY FS_Subset
<1>7. g = [s \in SUBSET S |-> IF s = {} THEN 0 ELSE f[Pick(s)] + g[s \ {Pick(s)}]]
  BY <1>5, <1>6 DEF Sums
<1> QED
  BY <1>7 DEF Iterates

LEMMA TotalIterates ==
    ASSUME NEW f, NEW S, IsFiniteSet(S)
    PROVE  \E g : Iterates(g, f, S) /\ Total(f, S) = g[S]
<1> DEFINE iter == CHOOSE g : Iterates(g, f, S)
<1>1. Iterates(iter, f, S)
  BY IterationExists
<1>2. Total(f, S) = iter[S]
  BY DEF Total, MapThenSumSet, MapThenFoldSet, Pick, Iterates
<1> HIDE DEF iter
<1> QED
  BY <1>1, <1>2

\* The sum over a part is the value of the iteration there, whatever the whole.
LEMMA IterationAgrees ==
    ASSUME NEW f, NEW S, IsFiniteSet(S), NEW T, IsFiniteSet(T),
           NEW g, Iterates(g, f, S), NEW h, Iterates(h, f, T), T \subseteq S
    PROVE  g[T] = h[T]
<1> DEFINE Agree == {s \in SUBSET T : g[s] = h[s]}
<1>1. \A s \in SUBSET T : /\ g[s] = IF s = {} THEN 0 ELSE f[Pick(s)] + g[s \ {Pick(s)}]
                          /\ h[s] = IF s = {} THEN 0 ELSE f[Pick(s)] + h[s \ {Pick(s)}]
  BY DEF Iterates
<1>2. ASSUME NEW s \in SUBSET T, \A x \in s : s \ {x} \in Agree PROVE s \in Agree
  <2>1. CASE s = {}
    BY <1>1, <2>1
  <2>2. CASE s # {}
    <3>1. Pick(s) \in s
      BY <2>2 DEF Pick
    <3> QED
      BY <1>1, <1>2, <2>2, <3>1
  <2> QED
    BY <2>1, <2>2
<1>3. T \in Agree
  <2> HIDE DEF Agree
  <2> QED
    BY <1>2, SetInduction
<1> QED
  BY <1>3

LEMMA TotalStep ==
    ASSUME NEW f, NEW S, IsFiniteSet(S)
    PROVE  /\ Total(f, {}) = 0
           /\ S # {} => Total(f, S) = f[Pick(S)] + Total(f, S \ {Pick(S)})
<1>1. Total(f, {}) = 0
  <2>1. PICK g : Iterates(g, f, {}) /\ Total(f, {}) = g[{}]
    BY TotalIterates, FS_EmptySet
  <2> QED
    BY <2>1 DEF Iterates
<1>2. ASSUME S # {} PROVE Total(f, S) = f[Pick(S)] + Total(f, S \ {Pick(S)})
  <2> DEFINE T == S \ {Pick(S)}
  <2>1. IsFiniteSet(T) /\ T \subseteq S
    BY FS_RemoveElement
  <2>2. PICK g : Iterates(g, f, S) /\ Total(f, S) = g[S]
    BY TotalIterates
  <2>3. PICK h : Iterates(h, f, T) /\ Total(f, T) = h[T]
    BY <2>1, TotalIterates
  <2>4. g[T] = h[T]
    BY <2>1, <2>2, <2>3, IterationAgrees
  <2>5. g[S] = f[Pick(S)] + g[T]
    BY <1>2, <2>2 DEF Iterates
  <2> QED
    BY <2>2, <2>3, <2>4, <2>5
<1> QED
  BY <1>1, <1>2

-----------------------------------------------------------------------------
(***************************************************************************)
(* What the sum of a function into the natural numbers obeys.              *)
(***************************************************************************)
LEMMA TotalType ==
    ASSUME NEW S, IsFiniteSet(S), NEW f, \A x \in S : f[x] \in Nat
    PROVE  Total(f, S) \in Nat
<1> DEFINE Typed == {s \in SUBSET S : Total(f, s) \in Nat}
<1>1. ASSUME NEW s \in SUBSET S, \A x \in s : s \ {x} \in Typed PROVE s \in Typed
  <2>0. IsFiniteSet(s)
    BY FS_Subset
  <2>1. CASE s = {}
    <3>1. Total(f, {}) = 0
      BY <2>0, TotalStep
    <3> QED
      BY <2>1, <3>1
  <2>2. CASE s # {}
    <3>1. Pick(s) \in s
      BY <2>2 DEF Pick
    <3>2. Total(f, s \ {Pick(s)}) \in Nat /\ f[Pick(s)] \in Nat
      BY <1>1, <3>1
    <3> QED
      BY <2>0, <2>2, <3>2, TotalStep
  <2> QED
    BY <2>1, <2>2
<1>2. S \in Typed
  <2> HIDE DEF Typed
  <2> QED
    BY <1>1, SetInduction
<1> QED
  BY <1>2

LEMMA TotalZero ==
    ASSUME NEW S, IsFiniteSet(S), NEW f, \A x \in S : f[x] = 0
    PROVE  Total(f, S) = 0
<1> DEFINE Zeros == {s \in SUBSET S : Total(f, s) = 0}
<1>1. ASSUME NEW s \in SUBSET S, \A x \in s : s \ {x} \in Zeros PROVE s \in Zeros
  <2>0. IsFiniteSet(s)
    BY FS_Subset
  <2>1. CASE s = {}
    <3>1. Total(f, {}) = 0
      BY <2>0, TotalStep
    <3> QED
      BY <2>1, <3>1
  <2>2. CASE s # {}
    <3>1. Pick(s) \in s
      BY <2>2 DEF Pick
    <3>2. Total(f, s \ {Pick(s)}) = 0 /\ f[Pick(s)] = 0
      BY <1>1, <3>1
    <3> QED
      BY <2>0, <2>2, <3>2, TotalStep
  <2> QED
    BY <2>1, <2>2
<1>2. S \in Zeros
  <2> HIDE DEF Zeros
  <2> QED
    BY <1>1, SetInduction
<1> QED
  BY <1>2

\* Any element may be taken out first.
LEMMA TotalRemove ==
    ASSUME NEW S, IsFiniteSet(S), NEW f, \A x \in S : f[x] \in Nat, NEW x \in S
    PROVE  Total(f, S) = f[x] + Total(f, S \ {x})
<1> DEFINE Any == {s \in SUBSET S : \A y \in s : Total(f, s) = f[y] + Total(f, s \ {y})}
<1>1. ASSUME NEW s \in SUBSET S, \A y \in s : s \ {y} \in Any, NEW y \in s
      PROVE  Total(f, s) = f[y] + Total(f, s \ {y})
  <2>1. IsFiniteSet(s) /\ s # {} /\ Pick(s) \in s
    BY FS_Subset DEF Pick
  <2> DEFINE p == Pick(s)
  <2>2. Total(f, s) = f[p] + Total(f, s \ {p})
    BY <2>1, TotalStep
  <2>3. CASE y = p
    BY <2>2, <2>3
  <2>4. CASE y # p
    <3>1. Total(f, s \ {p}) = f[y] + Total(f, (s \ {p}) \ {y})
      BY <1>1, <2>1, <2>4
    <3>2. Total(f, s \ {y}) = f[p] + Total(f, (s \ {y}) \ {p})
      BY <1>1, <2>1, <2>4
    <3>3. (s \ {p}) \ {y} = (s \ {y}) \ {p} /\ IsFiniteSet((s \ {p}) \ {y})
      BY FS_Subset
    <3>4. Total(f, (s \ {p}) \ {y}) \in Nat /\ f[p] \in Nat /\ f[y] \in Nat
      BY <2>1, <3>3, TotalType
    <3> HIDE DEF p
    <3> QED
      BY <2>2, <3>1, <3>2, <3>3, <3>4
  <2> QED
    BY <2>3, <2>4
<1>2. S \in Any
  <2>1. \A s \in SUBSET S : (\A y \in s : s \ {y} \in Any) => s \in Any
    BY <1>1
  <2> HIDE DEF Any
  <2> QED
    BY <2>1, SetInduction
<1> QED
  BY <1>2

\* Term by term comparison.
LEMMA TotalMonotone ==
    ASSUME NEW S, IsFiniteSet(S), NEW f, NEW g,
           \A x \in S : f[x] \in Nat /\ g[x] \in Nat /\ f[x] <= g[x]
    PROVE  Total(f, S) <= Total(g, S)
<1> DEFINE Below == {s \in SUBSET S : Total(f, s) <= Total(g, s)}
<1>1. ASSUME NEW s \in SUBSET S, \A x \in s : s \ {x} \in Below PROVE s \in Below
  <2>0. IsFiniteSet(s)
    BY FS_Subset
  <2>1. CASE s = {}
    <3>1. Total(f, {}) = 0 /\ Total(g, {}) = 0
      BY <2>0, TotalStep
    <3> QED
      BY <2>1, <3>1
  <2>2. CASE s # {}
    <3>1. PICK x : x = Pick(s) /\ x \in s
      BY <2>2 DEF Pick
    <3>2. Total(f, s \ {x}) <= Total(g, s \ {x}) /\ f[x] <= g[x] /\ f[x] \in Nat /\ g[x] \in Nat
      BY <1>1, <3>1
    <3>3. Total(f, s) = f[x] + Total(f, s \ {x}) /\ Total(g, s) = g[x] + Total(g, s \ {x})
      BY <2>0, <2>2, <3>1, TotalStep
    <3>4. IsFiniteSet(s \ {x})
      BY <2>0, FS_Subset
    <3>5. Total(f, s \ {x}) \in Nat /\ Total(g, s \ {x}) \in Nat
      BY <3>4, TotalType
    <3>6. Total(f, s) <= Total(g, s)
      BY <3>2, <3>3, <3>5
    <3> QED
      BY <3>6
  <2> QED
    BY <2>1, <2>2
<1>2. S \in Below
  <2> HIDE DEF Below
  <2> QED
    BY <1>1, SetInduction
<1> QED
  BY <1>2

LEMMA TotalSame ==
    ASSUME NEW S, IsFiniteSet(S), NEW f, NEW g,
           \A x \in S : f[x] \in Nat /\ f[x] = g[x]
    PROVE  Total(f, S) = Total(g, S)
<1>1. Total(f, S) <= Total(g, S) /\ Total(g, S) <= Total(f, S)
  BY TotalMonotone
<1>2. Total(f, S) \in Nat /\ Total(g, S) \in Nat
  BY TotalType
<1> QED
  BY <1>1, <1>2

LEMMA TotalBump ==
    ASSUME NEW S, IsFiniteSet(S), NEW f \in [S -> Nat], NEW x \in S
    PROVE  Total([f EXCEPT ![x] = @ + 1], S) = Total(f, S) + 1
<1> DEFINE g == [f EXCEPT ![x] = @ + 1]
<1>1. g \in [S -> Nat] /\ g[x] = f[x] + 1 /\ \A y \in S \ {x} : g[y] = f[y]
  OBVIOUS
<1>2. IsFiniteSet(S \ {x})
  BY FS_Subset
<1> HIDE DEF g
<1>3. Total(g, S) = g[x] + Total(g, S \ {x}) /\ Total(f, S) = f[x] + Total(f, S \ {x})
  BY <1>1, TotalRemove
<1>4. Total(g, S \ {x}) = Total(f, S \ {x}) /\ Total(f, S \ {x}) \in Nat
  BY <1>1, <1>2, TotalSame, TotalType
<1>5. Total(g, S) = Total(f, S) + 1
  BY <1>1, <1>3, <1>4
<1> QED
  BY <1>5 DEF g

\* A sum over keys, each of which has a place of its own, is at most the sum over
\* all places.
LEMMA TotalInjective ==
    ASSUME NEW K, IsFiniteSet(K), NEW S, IsFiniteSet(S), NEW at, \A k \in K : at[k] \in S,
           \A j, k \in K : at[j] = at[k] => j = k,
           NEW f, \A k \in K : f[k] \in Nat, NEW g, \A x \in S : g[x] \in Nat,
           \A k \in K : f[k] <= g[at[k]]
    PROVE  Total(f, K) <= Total(g, S)
<1> DEFINE Placed(s) == \A t \in SUBSET S :
                            (\A k \in s : at[k] \in t) => Total(f, s) <= Total(g, t)
           Fit == {s \in SUBSET K : Placed(s)}
<1>1. ASSUME NEW s \in SUBSET K, \A k \in s : s \ {k} \in Fit PROVE Placed(s)
  <2> SUFFICES ASSUME NEW t \in SUBSET S, \A k \in s : at[k] \in t
               PROVE  Total(f, s) <= Total(g, t)
    OBVIOUS
  <2>0. IsFiniteSet(s) /\ IsFiniteSet(t)
    BY FS_Subset
  <2>1. Total(g, t) \in Nat
    BY <2>0, TotalType
  <2>2. CASE s = {}
    <3>1. Total(f, {}) = 0
      BY <2>0, TotalStep
    <3> QED
      BY <2>1, <2>2, <3>1
  <2>3. CASE s # {}
    <3>1. PICK k \in s : TRUE
      BY <2>3
    <3>2. \A j \in s \ {k} : at[j] \in t \ {at[k]}
      OBVIOUS
    <3>3. Total(f, s \ {k}) <= Total(g, t \ {at[k]})
      BY <1>1, <3>2
    <3>4. Total(f, s) = f[k] + Total(f, s \ {k})
      BY <2>0, TotalRemove
    <3>5. Total(g, t) = g[at[k]] + Total(g, t \ {at[k]})
      BY <2>0, TotalRemove
    <3>6. IsFiniteSet(s \ {k}) /\ IsFiniteSet(t \ {at[k]})
      BY <2>0, FS_Subset
    <3>7. Total(f, s \ {k}) \in Nat /\ Total(g, t \ {at[k]}) \in Nat
      BY <3>6, TotalType
    <3>8. f[k] \in Nat /\ g[at[k]] \in Nat /\ f[k] <= g[at[k]]
      OBVIOUS
    <3> QED
      BY <3>3, <3>4, <3>5, <3>7, <3>8
  <2> QED
    BY <2>2, <2>3
<1>2. K \in Fit
  <2>1. \A s \in SUBSET K : (\A k \in s : s \ {k} \in Fit) => s \in Fit
    BY <1>1
  <2> HIDE DEF Fit
  <2> QED
    BY <2>1, SetInduction
<1> QED
  BY <1>2

\* Elements that count for nothing may be left out.
LEMMA TotalSupport ==
    ASSUME NEW S, IsFiniteSet(S), NEW f, NEW T \in SUBSET S,
           \A x \in T : f[x] \in Nat, \A x \in S \ T : f[x] = 0
    PROVE  Total(f, S) = Total(f, T)
<1> DEFINE Left == {s \in SUBSET (S \ T) : Total(f, T \cup s) = Total(f, T)}
<1>1. ASSUME NEW s \in SUBSET (S \ T), \A x \in s : s \ {x} \in Left PROVE s \in Left
  <2>1. CASE s = {}
    <3>1. T \cup s = T
      BY <2>1
    <3> QED
      BY <3>1
  <2>2. CASE s # {}
    <3>1. PICK x \in s : TRUE
      BY <2>2
    <3>2. Total(f, T \cup (s \ {x})) = Total(f, T) /\ f[x] = 0
      BY <1>1, <3>1
    <3>3. (T \cup s) \ {x} = T \cup (s \ {x})
      OBVIOUS
    <3>4. IsFiniteSet(T \cup s) /\ IsFiniteSet(T \cup (s \ {x}))
      BY FS_Subset
    <3>5. \A y \in T \cup s : f[y] \in Nat
      OBVIOUS
    <3>6. Total(f, T \cup s) = f[x] + Total(f, (T \cup s) \ {x})
      BY <3>4, <3>5, TotalRemove
    <3>7. Total(f, T \cup (s \ {x})) \in Nat
      BY <3>4, <3>5, TotalType
    <3> QED
      BY <3>2, <3>3, <3>6, <3>7
  <2> QED
    BY <2>1, <2>2
<1>2. S \ T \in Left
  <2>1. IsFiniteSet(S \ T)
    BY FS_Subset
  <2> HIDE DEF Left
  <2> QED
    BY <1>1, <2>1, SetInduction
<1>3. T \cup (S \ T) = S
  OBVIOUS
<1> QED
  BY <1>2, <1>3
=============================================================================
