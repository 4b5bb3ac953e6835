------------------------ MODULE Reconciliation_proofs -----------------------
(***************************************************************************)
(* Proofs about the matching of GstrReconciliation, for any finite lists,  *)
(* any keys and any order of the lists, and about the sums that summarize  *)
(* it; and about Reconciliation, for any number of requests, any sources,  *)
(* invoices and files, and any tolerances.                                 *)
(***************************************************************************)
EXTENDS Reconciliation, FiniteSetTheorems, FunctionTheorems, TLAPS

-----------------------------------------------------------------------------
(* Sums over finite sets: what the folds of the community modules add up,  *)
(* whatever the order in which they choose.                                *)

\* A set of subsets of a finite set has a minimal member: sums are reasoned
\* about by the smallest set that would be a counterexample.
LEMMA MinimalSubset ==
    ASSUME NEW S, IsFiniteSet(S), NEW C, C \subseteq SUBSET S, C # {}
    PROVE  \E T \in C : \A U \in C : ~ (U \subseteq T /\ U # T)
<1>1. FiniteSubsetsOf(S) = SUBSET S
      BY FS_FiniteSubsetsOfFinite
<1>2. IsWellFoundedOn(StrictSubsetOrdering(S), SUBSET S)
      BY <1>1, FS_StrictSubsetOrderingWellFounded
<1>3. \E T \in C : \A U \in C : ~ (<<U, T>> \in StrictSubsetOrdering(S))
      BY <1>2, WFMin
<1> QED  BY <1>3 DEF StrictSubsetOrdering

\* The element a sum adds next.
Pick(s) == CHOOSE x \in s : TRUE

\* g gives the sum of f over each subset of S.
Sums(f, S, g) ==
    g = [s \in SUBSET S |-> IF s = {} THEN 0 ELSE f[Pick(s)] + g[s \ {Pick(s)}]]

LEMMA SumsStep ==
    ASSUME NEW S, NEW f, NEW g, Sums(f, S, g)
    PROVE  /\ g[{}] = 0
           /\ \A s \in SUBSET S : s # {} =>
                  g[s] = f[Pick(s)] + g[s \ {Pick(s)}] /\ Pick(s) \in s
<1>1. g[{}] = 0
  <2>1. {} \in SUBSET S
        OBVIOUS
  <2> QED  BY <2>1 DEF Sums
<1>2. ASSUME NEW s \in SUBSET S, s # {}
      PROVE  g[s] = f[Pick(s)] + g[s \ {Pick(s)}] /\ Pick(s) \in s
  <2>1. Pick(s) \in s
        BY <1>2 DEF Pick
  <2>2. g[s] = f[Pick(s)] + g[s \ {Pick(s)}]
        BY <1>2 DEF Sums
  <2> QED  BY <2>1, <2>2
<1> QED  BY <1>1, <1>2

LEMMA SumsAgree ==
    ASSUME NEW S, IsFiniteSet(S), NEW f, NEW g, NEW h, NEW R, R \subseteq S,
           Sums(f, S, g), Sums(f, R, h)
    PROVE  \A s \in SUBSET R : g[s] = h[s]
<1>h. ASSUME NEW s \in SUBSET R, s # {}
      PROVE  h[s] = f[Pick(s)] + h[s \ {Pick(s)}]
      BY <1>h, SumsStep
<1> DEFINE C == {s \in SUBSET R : g[s] # h[s]}
<1> SUFFICES ASSUME C # {}
             PROVE FALSE
    OBVIOUS
<1>1. IsFiniteSet(R)
      BY FS_Subset
<1>2. C \subseteq SUBSET R
      OBVIOUS
<1>3. PICK T \in C : \A U \in C : ~ (U \subseteq T /\ U # T)
  <2> HIDE DEF C
  <2> QED  BY <1>1, <1>2, MinimalSubset
<1>4. T # {}
  <2>1. g[{}] = h[{}]
        BY SumsStep
  <2> QED  BY <2>1
<1> DEFINE U == T \ {Pick(T)}
<1>5. /\ g[T] = f[Pick(T)] + g[U] /\ h[T] = f[Pick(T)] + h[U]
      /\ Pick(T) \in T
  <2>1. T \in SUBSET R /\ T \in SUBSET S
        OBVIOUS
  <2> HIDE DEF C
  <2>2. g[T] = f[Pick(T)] + g[U] /\ Pick(T) \in T
        BY <1>4, <2>1, SumsStep
  <2>4. h[T] = f[Pick(T)] + h[U]
        BY <1>4, <1>h, <2>1
  <2> QED  BY <2>2, <2>4
<1>6. U \notin C
  <2>1. U \subseteq T /\ U # T
        BY <1>5
  <2> HIDE DEF U, C
  <2> QED  BY <1>3, <2>1
<1>7. g[U] = h[U]
      BY <1>6
<1>8. g[T] = h[T]
      BY <1>5, <1>7
<1> QED  BY <1>8

LEMMA SumsExist ==
    ASSUME NEW S, IsFiniteSet(S), NEW f
    PROVE  \E g : Sums(f, S, g)
<1> DEFINE C == {s \in SUBSET S : ~ \E g : Sums(f, s, g)}
<1> SUFFICES ASSUME C # {}
             PROVE FALSE
    OBVIOUS
<1>1. PICK T \in C : \A U \in C : ~ (U \subseteq T /\ U # T)
  <2>1. C \subseteq SUBSET S
        OBVIOUS
  <2> HIDE DEF C
  <2> QED  BY <2>1, MinimalSubset
<1> DEFINE G(s) == CHOOSE g : Sums(f, s, g)
           h == [s \in SUBSET T |->
                    IF s = {} THEN 0
                    ELSE f[Pick(s)] + G(s \ {Pick(s)})[s \ {Pick(s)}]]
<1>2. ASSUME NEW s \in SUBSET T, s # T
      PROVE  Sums(f, s, G(s)) /\ IsFiniteSet(s)
  <2>1. s \in SUBSET S /\ s \notin C
        BY <1>1, <1>2
  <2>2. \E g : Sums(f, s, g)
        BY <2>1
  <2>3. IsFiniteSet(s)
        BY <2>1, FS_Subset
  <2> QED  BY <2>2, <2>3
<1> HIDE DEF G
<1>3. \A s \in SUBSET T : s # {} => Pick(s) \in s
      BY DEF Pick
<1>4. ASSUME NEW s \in SUBSET T, s # T
      PROVE  G(s)[s] = h[s]
  <2>1. Sums(f, s, G(s)) /\ IsFiniteSet(s)
        BY <1>2, <1>4
  <2>2. CASE s = {}
    <3>1. G(s)[{}] = 0
          BY <2>1, SumsStep
    <3> QED  BY <2>2, <3>1
  <2>3. CASE s # {}
    <3> DEFINE r == s \ {Pick(s)}
    <3>1. r \in SUBSET s /\ r \in SUBSET T /\ r # T
          BY <1>3, <1>4, <2>3
    <3>2. Sums(f, r, G(r))
          BY <1>2, <3>1
    <3>3. G(s)[s] = f[Pick(s)] + G(s)[r]
      <4>1. s \in SUBSET s
            OBVIOUS
      <4> QED  BY <2>1, <2>3, <4>1, SumsStep
    <3>4. h[s] = f[Pick(s)] + G(r)[r]
          BY <2>3
    <3> HIDE DEF r, h
    <3>5. G(s)[r] = G(r)[r]
          BY <2>1, <3>1, <3>2, SumsAgree
    <3> QED  BY <3>3, <3>4, <3>5
  <2> QED  BY <2>2, <2>3
<1>5. Sums(f, T, h)
  <2>1. ASSUME NEW s \in SUBSET T, s # {}
        PROVE  h[s] = f[Pick(s)] + h[s \ {Pick(s)}]
    <3>1. s \ {Pick(s)} \in SUBSET T /\ s \ {Pick(s)} # T
          BY <1>3, <2>1
    <3> QED  BY <1>4, <2>1, <3>1
  <2>2. h[{}] = 0
    <3>1. {} \in SUBSET T
          OBVIOUS
    <3> QED  BY <3>1
  <2>3. h = [s \in SUBSET T |-> h[s]]
        OBVIOUS
  <2> HIDE DEF h
  <2>4. h = [s \in SUBSET T |-> IF s = {} THEN 0 ELSE f[Pick(s)] + h[s \ {Pick(s)}]]
        BY <2>1, <2>2, <2>3
  <2> QED  BY <2>4 DEF Sums
<1>6. T \in C
      BY <1>1
<1> HIDE DEF h
<1> QED  BY <1>5, <1>6

\* The sum of f over S.
Total(f, S) == (CHOOSE g : Sums(f, S, g))[S]

LEMMA TotalIs ==
    ASSUME NEW S, IsFiniteSet(S), NEW f, NEW g, Sums(f, S, g), NEW T \in SUBSET S
    PROVE  g[T] = Total(f, T)
<1>1. IsFiniteSet(T)
      BY FS_Subset
<1>2. \E h : Sums(f, T, h)
      BY <1>1, SumsExist
<1>3. Sums(f, T, CHOOSE h : Sums(f, T, h))
      BY <1>2
<1> DEFINE h == CHOOSE h : Sums(f, T, h)
<1> HIDE DEF h
<1>4. T \in SUBSET T
      OBVIOUS
<1>5. g[T] = h[T]
      BY <1>3, <1>4, SumsAgree DEF h
<1> QED  BY <1>5 DEF Total, h

LEMMA TotalStep ==
    ASSUME NEW S, IsFiniteSet(S), NEW f
    PROVE  /\ Total(f, {}) = 0
           /\ S # {} => Pick(S) \in S /\ Total(f, S) = f[Pick(S)] + Total(f, S \ {Pick(S)})
<1>1. PICK g : Sums(f, S, g)
      BY SumsExist
<1>2. \A T \in SUBSET S : g[T] = Total(f, T)
      BY <1>1, TotalIs
<1>3. {} \in SUBSET S /\ S \in SUBSET S /\ S \ {Pick(S)} \in SUBSET S
      OBVIOUS
<1> QED  BY <1>1, <1>2, <1>3, SumsStep

\* Only the values on S count.
LEMMA TotalSame ==
    ASSUME NEW S, IsFiniteSet(S), NEW f, NEW g, \A x \in S : f[x] = g[x]
    PROVE  Total(f, S) = Total(g, S)
<1>1. PICK h : Sums(f, S, h)
      BY SumsExist
<1>2. Sums(g, S, h)
  <2>1. \A s \in SUBSET S : s # {} => f[Pick(s)] = g[Pick(s)]
        BY DEF Pick
  <2>2. h = [s \in SUBSET S |-> IF s = {} THEN 0 ELSE f[Pick(s)] + h[s \ {Pick(s)}]]
        BY <1>1 DEF Sums
  <2>3. h = [s \in SUBSET S |-> IF s = {} THEN 0 ELSE g[Pick(s)] + h[s \ {Pick(s)}]]
        BY <2>1, <2>2
  <2> QED  BY <2>3 DEF Sums
<1>3. S \in SUBSET S
      OBVIOUS
<1> QED  BY <1>1, <1>2, <1>3, TotalIs

LEMMA TotalInt ==
    ASSUME NEW S, IsFiniteSet(S), NEW f, \A x \in S : f[x] \in Int
    PROVE  \A s \in SUBSET S : Total(f, s) \in Int
<1> DEFINE C == {s \in SUBSET S : Total(f, s) \notin Int}
<1> SUFFICES ASSUME C # {}
             PROVE FALSE
    OBVIOUS
<1>1. PICK T \in C : \A U \in C : ~ (U \subseteq T /\ U # T)
  <2>1. C \subseteq SUBSET S
        OBVIOUS
  <2> HIDE DEF C
  <2> QED  BY <2>1, MinimalSubset
<1>2. IsFiniteSet(T)
      BY FS_Subset
<1> DEFINE U == T \ {Pick(T)}
<1>3. T # {} /\ Pick(T) \in T /\ Total(f, T) = f[Pick(T)] + Total(f, U)
  <2>1. Total(f, {}) = 0
        BY <1>2, TotalStep
  <2>2. T # {}
        BY <2>1
  <2> QED  BY <1>2, <2>2, TotalStep
<1>4. Total(f, U) \in Int
      BY <1>1, <1>3
<1> QED  BY <1>3, <1>4

\* An element more adds its value, whichever element the fold chooses.
LEMMA TotalAdd ==
    ASSUME NEW S, IsFiniteSet(S), NEW f, \A x \in S : f[x] \in Int, NEW a \in S
    PROVE  Total(f, S) = f[a] + Total(f, S \ {a})
<1> DEFINE C == {s \in SUBSET S :
                    \E x \in s : Total(f, s) # f[x] + Total(f, s \ {x})}
<1> SUFFICES ASSUME C # {}
             PROVE FALSE
  <2>1. S \in SUBSET S
        OBVIOUS
  <2> QED  BY <2>1
<1>1. PICK T \in C : \A U \in C : ~ (U \subseteq T /\ U # T)
  <2>1. C \subseteq SUBSET S
        OBVIOUS
  <2> HIDE DEF C
  <2> QED  BY <2>1, MinimalSubset
<1>2. PICK x \in T : Total(f, T) # f[x] + Total(f, T \ {x})
      BY <1>1
<1> DEFINE b == Pick(T)
           U == T \ {b}
           V == T \ {x}
<1>3. IsFiniteSet(T) /\ T # {} /\ T \in SUBSET S
      BY <1>2, FS_Subset
<1>4. b \in T /\ Total(f, T) = f[b] + Total(f, U)
      BY <1>3, TotalStep
<1> HIDE DEF b
<1>5. b # x
      BY <1>2, <1>4
<1>6. Total(f, U) = f[x] + Total(f, U \ {x})
  <2>1. U \in SUBSET S /\ U \notin C /\ x \in U
        BY <1>1, <1>2, <1>3, <1>4, <1>5
  <2> QED  BY <2>1
<1>7. Total(f, V) = f[b] + Total(f, V \ {b})
  <2>1. V \in SUBSET S /\ V \notin C /\ b \in V
        BY <1>1, <1>2, <1>3, <1>4, <1>5
  <2> QED  BY <2>1
<1>8. U \ {x} = V \ {b} /\ U \ {x} \in SUBSET S
      BY <1>3
<1>9. f[x] \in Int /\ f[b] \in Int /\ Total(f, U \ {x}) \in Int
      BY <1>2, <1>3, <1>4, <1>8, TotalInt
<1>10. \A m, n, k \in Int : m + (n + k) = n + (m + k)
      OBVIOUS
<1> DEFINE W == U \ {x}
<1>11. Total(f, T) = f[b] + (f[x] + Total(f, W))
      BY <1>4, <1>6
<1>12. Total(f, V) = f[b] + Total(f, W)
      BY <1>7, <1>8
<1> HIDE DEF U, V, W
<1>13. Total(f, T) = f[x] + Total(f, V)
      BY <1>9, <1>10, <1>11, <1>12 DEF W
<1> QED  BY <1>2, <1>13 DEF V

\* Induction: what holds of the empty set, and of a set with one element more
\* than a set it holds of, holds of every subset.
LEMMA SubsetInduction ==
    ASSUME NEW S, IsFiniteSet(S), NEW C, {} \in C,
           \A s \in SUBSET S : \A x \in S \ s : s \in C => s \cup {x} \in C
    PROVE  S \in C
<1> DEFINE D == (SUBSET S) \ C
<1> SUFFICES ASSUME D # {}
             PROVE FALSE
    OBVIOUS
<1>1. PICK T \in D : \A U \in D : ~ (U \subseteq T /\ U # T)
  <2>1. D \subseteq SUBSET S
        OBVIOUS
  <2> HIDE DEF D
  <2> QED  BY <2>1, MinimalSubset
<1>2. PICK x \in T : TRUE
      OBVIOUS
<1>3. T \ {x} \in SUBSET S /\ T \ {x} \in C /\ x \in S \ (T \ {x})
      BY <1>1
<1>4. (T \ {x}) \cup {x} = T
      OBVIOUS
<1>5. (T \ {x}) \cup {x} \in C
      BY <1>3
<1> QED  BY <1>4, <1>5

\* The sum over a set with one element more.
LEMMA TotalWith ==
    ASSUME NEW S, IsFiniteSet(S), NEW f, \A y \in S : f[y] \in Int,
           NEW s \in SUBSET S, NEW x \in S \ s
    PROVE  Total(f, s \cup {x}) = f[x] + Total(f, s) /\ Total(f, s) \in Int
<1> DEFINE T == s \cup {x}
<1>1. IsFiniteSet(T) /\ x \in T /\ \A y \in T : f[y] \in Int
      BY FS_Subset
<1>2. T \ {x} = s
      OBVIOUS
<1> HIDE DEF T
<1>3. Total(f, T) = f[x] + Total(f, T \ {x})
      BY <1>1, TotalAdd
<1> QED  BY <1>2, <1>3, TotalInt DEF T

LEMMA TotalPlus ==
    ASSUME NEW S, IsFiniteSet(S), NEW f, NEW g, NEW h,
           \A x \in S : f[x] \in Int /\ g[x] \in Int /\ h[x] = f[x] + g[x]
    PROVE  Total(h, S) = Total(f, S) + Total(g, S)
<1> DEFINE C == {s \in SUBSET S : Total(h, s) = Total(f, s) + Total(g, s)}
<1>1. {} \in C
  <2>1. Total(f, {}) = 0 /\ Total(g, {}) = 0 /\ Total(h, {}) = 0
        BY TotalStep
  <2> QED  BY <2>1
<1>2. ASSUME NEW s \in SUBSET S, NEW x \in S \ s, s \in C
      PROVE  s \cup {x} \in C
  <2>0. \A y \in S : f[y] \in Int /\ g[y] \in Int /\ h[y] \in Int
        OBVIOUS
  <2>a. Total(f, s \cup {x}) = f[x] + Total(f, s) /\ Total(f, s) \in Int
        BY <2>0, TotalWith
  <2>b. Total(g, s \cup {x}) = g[x] + Total(g, s) /\ Total(g, s) \in Int
        BY <2>0, TotalWith
  <2>c. Total(h, s \cup {x}) = h[x] + Total(h, s)
        BY <2>0, TotalWith
  <2>2. f[x] \in Int /\ g[x] \in Int /\ h[x] = f[x] + g[x]
        OBVIOUS
  <2>3. Total(h, s) = Total(f, s) + Total(g, s)
        BY <1>2
  <2>4. Total(h, s \cup {x}) = Total(f, s \cup {x}) + Total(g, s \cup {x})
        BY <2>a, <2>b, <2>c, <2>2, <2>3
  <2> QED  BY <2>4
<1>3. S \in C
  <2> HIDE DEF C
  <2> QED  BY <1>1, <1>2, SubsetInduction
<1> QED  BY <1>3

LEMMA TotalLeq ==
    ASSUME NEW S, IsFiniteSet(S), NEW f, NEW g,
           \A x \in S : f[x] \in Int /\ g[x] \in Int /\ f[x] <= g[x]
    PROVE  Total(f, S) <= Total(g, S)
<1> DEFINE C == {s \in SUBSET S : Total(f, s) <= Total(g, s)}
<1>1. {} \in C
  <2>1. Total(f, {}) = 0 /\ Total(g, {}) = 0
        BY TotalStep
  <2> QED  BY <2>1
<1>2. ASSUME NEW s \in SUBSET S, NEW x \in S \ s, s \in C
      PROVE  s \cup {x} \in C
  <2>a. Total(f, s \cup {x}) = f[x] + Total(f, s) /\ Total(f, s) \in Int
        BY TotalWith
  <2>b. Total(g, s \cup {x}) = g[x] + Total(g, s) /\ Total(g, s) \in Int
    <3>1. \A y \in S : g[y] \in Int
          OBVIOUS
    <3> HIDE DEF C
    <3> QED  BY <3>1, TotalWith
  <2>2. f[x] \in Int /\ g[x] \in Int /\ f[x] <= g[x]
        OBVIOUS
  <2>3. Total(f, s) <= Total(g, s)
        BY <1>2
  <2>4. Total(f, s \cup {x}) <= Total(g, s \cup {x})
        BY <2>a, <2>b, <2>2, <2>3
  <2> QED  BY <2>4
<1>3. S \in C
  <2> HIDE DEF C
  <2> QED  BY <1>1, <1>2, SubsetInduction
<1> QED  BY <1>3

\* The same value k for each element of A counts them.
LEMMA TotalCount ==
    ASSUME NEW S, IsFiniteSet(S), NEW f, NEW k \in Int, NEW A,
           \A x \in S : f[x] = IF x \in A THEN k ELSE 0
    PROVE  Total(f, S) = k * Cardinality(S \cap A)
<1> DEFINE C == {s \in SUBSET S : Total(f, s) = k * Cardinality(s \cap A)}
<1>1. {} \in C
  <2>1. Total(f, {}) = 0 /\ Cardinality({}) = 0 /\ {} \cap A = {}
        BY TotalStep, FS_EmptySet
  <2> QED  BY <2>1
<1>2. ASSUME NEW s \in SUBSET S, NEW x \in S \ s, s \in C
      PROVE  s \cup {x} \in C
  <2>1. /\ Total(f, s \cup {x}) = f[x] + Total(f, s) /\ Total(f, s) \in Int
        BY TotalWith
  <2>2. IsFiniteSet(s \cap A)
        BY FS_Subset
  <2>3. Total(f, s) = k * Cardinality(s \cap A)
        BY <1>2
  <2>4. Cardinality(s \cap A) \in Nat
        BY <2>2, FS_CardinalityType
  <2>5. CASE x \in A
    <3>1. (s \cup {x}) \cap A = (s \cap A) \cup {x} /\ x \notin s \cap A
          BY <2>5
    <3>2. Cardinality((s \cup {x}) \cap A) = Cardinality(s \cap A) + 1
          BY <2>2, <3>1, FS_AddElement
    <3>3. f[x] = k
          BY <2>5
    <3> DEFINE n == Cardinality(s \cap A)
    <3> HIDE DEF n
    <3>4. n \in Int => k + k * n = k * (n + 1)
          OBVIOUS
    <3>5. Total(f, s \cup {x}) = k * Cardinality((s \cup {x}) \cap A)
          BY <2>1, <2>3, <2>4, <3>2, <3>3, <3>4 DEF n
    <3> QED  BY <3>5
  <2>6. CASE x \notin A
    <3>1. (s \cup {x}) \cap A = s \cap A /\ f[x] = 0
          BY <2>6
    <3>2. Total(f, s \cup {x}) = Total(f, s)
          BY <2>1, <3>1
    <3>3. Total(f, s \cup {x}) = k * Cardinality((s \cup {x}) \cap A)
          BY <2>3, <3>1, <3>2
    <3> QED  BY <3>3
  <2> QED  BY <2>5, <2>6
<1>3. S \in C
  <2> HIDE DEF C
  <2> QED  BY <1>1, <1>2, SubsetInduction
<1> QED  BY <1>3

\* k names each element of B by one element of S.
Names(k, S, B) == /\ \A x, y \in S : k[x] \in B /\ k[x] = k[y] => x = y
                  /\ \A i \in B : \E x \in S : k[x] = i

\* Elements that k maps one to one onto B, and others that add nothing, add up
\* to the sum over B.
LEMMA TotalOver ==
    ASSUME NEW S, IsFiniteSet(S), NEW k, NEW B, IsFiniteSet(B), Names(k, S, B),
           NEW f, NEW t, \A i \in B : t[i] \in Int,
           \A x \in S : f[x] = IF k[x] \in B THEN t[k[x]] ELSE 0
    PROVE  Total(f, S) = Total(t, B)
<1> DEFINE Of(s) == {i \in B : \E x \in s : k[x] = i}
           C == {s \in SUBSET S : Total(f, s) = Total(t, Of(s))}
<1>0. \A x \in S : f[x] \in Int
      OBVIOUS
<1>a. /\ \A x, y \in S : k[x] \in B /\ k[x] = k[y] => x = y
      /\ \A i \in B : \E x \in S : k[x] = i
      BY DEF Names
<1>1. {} \in C
  <2>1. Of({}) = {}
        OBVIOUS
  <2>2. Total(f, {}) = 0 /\ Total(t, {}) = 0
        BY TotalStep
  <2> QED  BY <2>1, <2>2
<1>2. ASSUME NEW s \in SUBSET S, NEW x \in S \ s, s \in C
      PROVE  s \cup {x} \in C
  <2>1. Total(f, s \cup {x}) = f[x] + Total(f, s) /\ Total(f, s) \in Int
        BY <1>0, TotalWith
  <2>2. Total(f, s) = Total(t, Of(s))
        BY <1>2
  <2>3. CASE k[x] \in B
    <3>1. Of(s \cup {x}) = Of(s) \cup {k[x]} /\ k[x] \notin Of(s)
          BY <1>a, <2>3
    <3>2. Of(s) \in SUBSET B /\ k[x] \in B \ Of(s)
          BY <2>3, <3>1
    <3> HIDE DEF Of
    <3>3. Total(t, Of(s) \cup {k[x]}) = t[k[x]] + Total(t, Of(s))
          BY <3>2, TotalWith
    <3>4. Total(f, s \cup {x}) = Total(t, Of(s \cup {x}))
          BY <2>1, <2>2, <2>3, <3>1, <3>3
    <3> QED  BY <3>4
  <2>4. CASE k[x] \notin B
    <3>1. Of(s \cup {x}) = Of(s) /\ f[x] = 0
          BY <2>4
    <3>2. Total(f, s \cup {x}) = Total(f, s)
          BY <2>1, <3>1
    <3> HIDE DEF Of
    <3>3. Total(f, s \cup {x}) = Total(t, Of(s \cup {x}))
          BY <2>2, <3>1, <3>2
    <3> QED  BY <3>3
  <2> QED  BY <2>3, <2>4
<1>3. S \in C
  <2> HIDE DEF C
  <2> QED  BY <1>1, <1>2, SubsetInduction
<1>4. Of(S) = B
      BY <1>a
<1> QED  BY <1>3, <1>4

-----------------------------------------------------------------------------
(* The lists and their ranks. *)

\* A finite list: entries with a position each, no position twice.
IsList(list, order) ==
    /\ IsFiniteSet(DOMAIN list)
    /\ order \in [DOMAIN list -> Int]
    /\ \A x, y \in DOMAIN list : order[x] = order[y] => x = y

LEMMA OrdersAreLists ==
    ASSUME NEW list, IsFiniteSet(DOMAIN list), NEW order \in Orders(DOMAIN list)
    PROVE  IsList(list, order)
<1>1. order \in [DOMAIN list -> 1..Cardinality(DOMAIN list)]
      BY DEF Orders, Injection
<1>2. Cardinality(DOMAIN list) \in Nat
      BY FS_CardinalityType
<1>3. \A x, y \in DOMAIN list : order[x] = order[y] => x = y
      BY <1>1 DEF Orders, Injection, IsInjective
<1> QED  BY <1>1, <1>2, <1>3 DEF IsList

\* Within a key the position in the list decides the rank.
LEMMA RankGrows ==
    ASSUME NEW list, NEW order, IsList(list, order),
           NEW x \in DOMAIN list, NEW y \in DOMAIN list,
           list[x].key = list[y].key, order[x] < order[y]
    PROVE  Rank(list, order, x) # Rank(list, order, y)
<1> DEFINE Upto(z) == {w \in DOMAIN list : /\ list[w].key = list[z].key
                                           /\ order[w] <= order[z]}
<1>1. Upto(x) \in SUBSET Upto(y)
      BY DEF IsList
<1>2. y \in Upto(y) /\ y \notin Upto(x)
      BY DEF IsList
<1>3. IsFiniteSet(Upto(y))
      BY FS_Subset DEF IsList
<1>4. Cardinality(Upto(x)) # Cardinality(Upto(y))
  <2> HIDE DEF Upto
  <2> QED  BY <1>1, <1>2, <1>3, FS_Subset
<1> QED  BY <1>4 DEF Rank

LEMMA RankIsInjective ==
    ASSUME NEW list, NEW order, IsList(list, order),
           NEW x \in DOMAIN list, NEW y \in DOMAIN list,
           list[x].key = list[y].key, Rank(list, order, x) = Rank(list, order, y)
    PROVE  x = y
<1>1. order[x] \in Int /\ order[y] \in Int
      BY DEF IsList
<1>2. ~ (order[x] < order[y]) /\ ~ (order[y] < order[x])
      BY RankGrows
<1> QED  BY <1>1, <1>2 DEF IsList

-----------------------------------------------------------------------------
\* The results that have i for their invoice, or j for their record.
OfBook(results, i) == {r \in results : r.book = i}
OfRecord(results, j) == {r \in results : r.record = j}

NoneDropped(results, B, R) ==
    /\ \A i \in B : \E r : OfBook(results, i) = {r}
    /\ \A j \in R : \E r : OfRecord(results, j) = {r}

\* What the results are: a pair for each two that are paired, and one for each
\* invoice and each record that is not.
LEMMA ResultShape ==
    ASSUME NEW ours, NEW bookOrder, NEW theirs, NEW recordOrder
    PROVE  LET P(i, j) == Paired(ours, bookOrder, theirs, recordOrder, i, j)
               B == DOMAIN ours
               R == DOMAIN theirs
               results == Reconcile(ours, bookOrder, theirs, recordOrder) IN
           \A r : r \in results <=>
               \/ \E i \in B, j \in R : P(i, j) /\ r = Pair(i, ours[i], j, theirs[j])
               \/ \E i \in B : /\ \A j \in R : ~ P(i, j)
                              /\ r = MissingInReturn(i, ours[i])
               \/ \E j \in R : /\ \A i \in B : ~ P(i, j)
                              /\ r = MissingInBooks(j, theirs[j])
<1> DEFINE P(i, j) == Paired(ours, bookOrder, theirs, recordOrder, i, j)
           B == DOMAIN ours
           R == DOMAIN theirs
           results == Reconcile(ours, bookOrder, theirs, recordOrder)
           M(i, j) == Pair(i, ours[i], j, theirs[j])
           A(i) == MissingInReturn(i, ours[i])
           C(j) == MissingInBooks(j, theirs[j])
<1>0. SUFFICES \A r : r \in results <=>
         \/ \E i \in B, j \in R : P(i, j) /\ r = M(i, j)
         \/ \E i \in B : (\A j \in R : ~ P(i, j)) /\ r = A(i)
         \/ \E j \in R : (\A i \in B : ~ P(i, j)) /\ r = C(j)
    OBVIOUS
<1> DEFINE X == {M(p[1], p[2]) : p \in {p \in B \X R : P(p[1], p[2])}}
           Y == {A(i) : i \in {i \in B : \A j \in R : ~ P(i, j)}}
           Z == {C(j) : j \in {j \in R : \A i \in B : ~ P(i, j)}}
<1>1. results = X \cup Y \cup Z
      BY DEF Reconcile
<1>2. \A r : r \in X <=> \E i \in B, j \in R : P(i, j) /\ r = M(i, j)
  <2> HIDE DEF P, M
  <2>1. ASSUME NEW i \in B, NEW j \in R, P(i, j)
        PROVE  M(i, j) \in X
    <3>1. /\ <<i, j>> \in {p \in B \X R : P(p[1], p[2])}
          /\ M(i, j) = M(<<i, j>>[1], <<i, j>>[2])
          BY <2>1
    <3> QED  BY <3>1
  <2> QED  BY <2>1
<1>3. \A r : r \in Y <=> \E i \in B : (\A j \in R : ~ P(i, j)) /\ r = A(i)
  <2> HIDE DEF P, A
  <2> QED  OBVIOUS
<1>4. \A r : r \in Z <=> \E j \in R : (\A i \in B : ~ P(i, j)) /\ r = C(j)
  <2> HIDE DEF P, C
  <2> QED  OBVIOUS
<1> HIDE DEF X, Y, Z, P, M, A, C, results
<1> QED  BY <1>1, <1>2, <1>3, <1>4

\* "Any count mismatch within a key falls through as missing/extra rows rather
\* than being silently dropped" (rules/gstr_reconciliation.py): every invoice
\* and every record is in exactly one result, whatever the keys, the amounts,
\* the tolerances and the order of the two lists.
THEOREM EachOnce ==
    ASSUME NEW ours, NEW bookOrder, IsList(ours, bookOrder),
           NEW theirs, NEW recordOrder, IsList(theirs, recordOrder),
           NoBook \notin DOMAIN ours, NoRecord \notin DOMAIN theirs
    PROVE  NoneDropped(Reconcile(ours, bookOrder, theirs, recordOrder),
                       DOMAIN ours, DOMAIN theirs)
<1> DEFINE P(i, j) == Paired(ours, bookOrder, theirs, recordOrder, i, j)
           B == DOMAIN ours
           R == DOMAIN theirs
           results == Reconcile(ours, bookOrder, theirs, recordOrder)
           M(i, j) == Pair(i, ours[i], j, theirs[j])
           A(i) == MissingInReturn(i, ours[i])
           C(j) == MissingInBooks(j, theirs[j])
<1>1. \A r : r \in results <=>
         \/ \E i \in B, j \in R : P(i, j) /\ r = M(i, j)
         \/ \E i \in B : (\A j \in R : ~ P(i, j)) /\ r = A(i)
         \/ \E j \in R : (\A i \in B : ~ P(i, j)) /\ r = C(j)
      BY ResultShape
<1>2. \A i \in B, j, k \in R : P(i, j) /\ P(i, k) => j = k
      BY RankIsInjective DEF Paired
<1>3. \A i, k \in B, j \in R : P(i, j) /\ P(k, j) => i = k
      BY RankIsInjective DEF Paired
<1>4. \A i \in B, j \in R : M(i, j).book = i /\ M(i, j).record = j
      BY DEF Pair
<1>5. \A i \in B : A(i).book = i /\ A(i).record = NoRecord
      BY DEF MissingInReturn
<1>6. \A j \in R : C(j).book = NoBook /\ C(j).record = j
      BY DEF MissingInBooks
<1> SUFFICES /\ \A i \in B : \E r : OfBook(results, i) = {r}
             /\ \A j \in R : \E r : OfRecord(results, j) = {r}
    BY DEF NoneDropped
<1> HIDE DEF results, P, M, A, C
<1>7. ASSUME NEW i \in B
      PROVE  \E r : OfBook(results, i) = {r}
  <2>1. CASE \E j \in R : P(i, j)
    <3>1. PICK j \in R : P(i, j)
          BY <2>1
    <3>2. \A r : r \in results /\ r.book = i <=> r = M(i, j)
          BY <1>1, <1>2, <1>4, <1>5, <1>6, <3>1
    <3>3. OfBook(results, i) = {M(i, j)}
          BY <3>2 DEF OfBook
    <3> QED  BY <3>3
  <2>2. CASE \A j \in R : ~ P(i, j)
    <3>1. \A r : r \in results /\ r.book = i <=> r = A(i)
          BY <1>1, <1>4, <1>5, <1>6, <2>2
    <3>2. OfBook(results, i) = {A(i)}
          BY <3>1 DEF OfBook
    <3> QED  BY <3>2
  <2> QED  BY <2>1, <2>2
<1>8. ASSUME NEW j \in R
      PROVE  \E r : OfRecord(results, j) = {r}
  <2>1. CASE \E i \in B : P(i, j)
    <3>1. PICK i \in B : P(i, j)
          BY <2>1
    <3>2. \A r : r \in results /\ r.record = j <=> r = M(i, j)
          BY <1>1, <1>3, <1>4, <1>5, <1>6, <3>1
    <3>3. OfRecord(results, j) = {M(i, j)}
          BY <3>2 DEF OfRecord
    <3> QED  BY <3>3
  <2>2. CASE \A i \in B : ~ P(i, j)
    <3>1. \A r : r \in results /\ r.record = j <=> r = C(j)
          BY <1>1, <1>4, <1>5, <1>6, <2>2
    <3>2. OfRecord(results, j) = {C(j)}
          BY <3>1 DEF OfRecord
    <3> QED  BY <3>2
  <2> QED  BY <2>1, <2>2
<1> QED  BY <1>7, <1>8

-----------------------------------------------------------------------------
(* What the results add up to. *)

\* The folds of the summary are such sums.
LEMMA SumOfRisk ==
    ASSUME NEW S, IsFiniteSet(S), NEW f, \A x \in S : f[x] = x.risk
    PROVE  MapThenSumSet(LAMBDA r : r.risk, S) = Total(f, S)
<1> DEFINE iter == CHOOSE g : g = [s \in SUBSET S |->
                       IF s = {} THEN 0 ELSE Pick(s).risk + g[s \ {Pick(s)}]]
<1>1. \A g : Sums(f, S, g) <=>
         g = [s \in SUBSET S |->
                 IF s = {} THEN 0 ELSE Pick(s).risk + g[s \ {Pick(s)}]]
  <2>1. \A s \in SUBSET S : s # {} => f[Pick(s)] = Pick(s).risk
        BY DEF Pick
  <2> QED  BY <2>1 DEF Sums
<1>2. \E g : Sums(f, S, g)
      BY SumsExist
<1>3. Sums(f, S, iter)
      BY <1>1, <1>2
<1>4. MapThenSumSet(LAMBDA r : r.risk, S) = iter[S]
      BY DEF MapThenSumSet, MapThenFoldSet, Pick
<1> HIDE DEF iter
<1>5. S \in SUBSET S
      OBVIOUS
<1> QED  BY <1>3, <1>4, <1>5, TotalIs

LEMMA SumOfUnclaimed ==
    ASSUME NEW S, IsFiniteSet(S), NEW f, \A x \in S : f[x] = x.unclaimed
    PROVE  MapThenSumSet(LAMBDA r : r.unclaimed, S) = Total(f, S)
<1> DEFINE iter == CHOOSE g : g = [s \in SUBSET S |->
                       IF s = {} THEN 0 ELSE Pick(s).unclaimed + g[s \ {Pick(s)}]]
<1>1. \A g : Sums(f, S, g) <=>
         g = [s \in SUBSET S |->
                 IF s = {} THEN 0 ELSE Pick(s).unclaimed + g[s \ {Pick(s)}]]
  <2>1. \A s \in SUBSET S : s # {} => f[Pick(s)] = Pick(s).unclaimed
        BY DEF Pick
  <2> QED  BY <2>1 DEF Sums
<1>2. \E g : Sums(f, S, g)
      BY SumsExist
<1>3. Sums(f, S, iter)
      BY <1>1, <1>2
<1>4. MapThenSumSet(LAMBDA r : r.unclaimed, S) = iter[S]
      BY DEF MapThenSumSet, MapThenFoldSet, Pick
<1> HIDE DEF iter
<1>5. S \in SUBSET S
      OBVIOUS
<1> QED  BY <1>3, <1>4, <1>5, TotalIs

\* Each result names a book of its own, or a record of its own.
LEMMA ResultsAreApart ==
    ASSUME NEW ours, NEW bookOrder, IsList(ours, bookOrder),
           NEW theirs, NEW recordOrder, IsList(theirs, recordOrder),
           NoBook \notin DOMAIN ours, NoRecord \notin DOMAIN theirs
    PROVE  LET results == Reconcile(ours, bookOrder, theirs, recordOrder)
               B == DOMAIN ours
               R == DOMAIN theirs IN
           /\ IsFiniteSet(results)
           /\ \A x, y \in results : x.book \in B /\ x.book = y.book => x = y
           /\ \A x, y \in results : x.record \in R /\ x.record = y.record => x = y
           /\ \A i \in B : \E x \in results : x.book = i
           /\ \A j \in R : \E x \in results : x.record = j
<1> DEFINE results == Reconcile(ours, bookOrder, theirs, recordOrder)
           B == DOMAIN ours
           R == DOMAIN theirs
<1>1. \A r \in results :
         \/ r.book \in B /\ r.record \in R
         \/ r.book \in B /\ r.record = NoRecord
         \/ r.book = NoBook /\ r.record \in R
  <2> SUFFICES ASSUME NEW r \in results
               PROVE  \/ r.book \in B /\ r.record \in R
                      \/ r.book \in B /\ r.record = NoRecord
                      \/ r.book = NoBook /\ r.record \in R
      OBVIOUS
  <2> DEFINE P(i, j) == Paired(ours, bookOrder, theirs, recordOrder, i, j)
  <2>1. \/ \E i \in B, j \in R : P(i, j) /\ r = Pair(i, ours[i], j, theirs[j])
        \/ \E i \in B : /\ \A j \in R : ~ P(i, j)
                        /\ r = MissingInReturn(i, ours[i])
        \/ \E j \in R : /\ \A i \in B : ~ P(i, j)
                        /\ r = MissingInBooks(j, theirs[j])
        BY ResultShape
  <2> HIDE DEF results, P
  <2> QED  BY <2>1 DEF Pair, MissingInReturn, MissingInBooks
<1>2. NoneDropped(results, B, R)
      BY EachOnce
<1>0. IsFiniteSet(B) /\ IsFiniteSet(R)
      BY DEF IsList
<1> SUFFICES /\ IsFiniteSet(results)
             /\ \A x, y \in results : x.book \in B /\ x.book = y.book => x = y
             /\ \A x, y \in results : x.record \in R /\ x.record = y.record => x = y
             /\ \A i \in B : \E x \in results : x.book = i
             /\ \A j \in R : \E x \in results : x.record = j
    OBVIOUS
<1> HIDE DEF results, B, R
<1>3. /\ \A x, y \in results : x.book \in B /\ x.book = y.book => x = y
      /\ \A i \in B : \E x \in results : x.book = i
  <2>1. \A i \in B : \E r : OfBook(results, i) = {r}
        BY <1>2 DEF NoneDropped
  <2>2. ASSUME NEW x \in results, NEW y \in results, x.book \in B, x.book = y.book
        PROVE  x = y
    <3>1. PICK r : OfBook(results, x.book) = {r}
          BY <2>1, <2>2
    <3>2. x \in OfBook(results, x.book) /\ y \in OfBook(results, x.book)
          BY <2>2 DEF OfBook
    <3> QED  BY <3>1, <3>2
  <2>3. ASSUME NEW i \in B
        PROVE  \E x \in results : x.book = i
    <3>1. PICK r : OfBook(results, i) = {r}
          BY <2>1
    <3>2. r \in OfBook(results, i)
          BY <3>1
    <3> QED  BY <3>2 DEF OfBook
  <2> QED  BY <2>2, <2>3
<1>4. /\ \A x, y \in results : x.record \in R /\ x.record = y.record => x = y
      /\ \A j \in R : \E x \in results : x.record = j
  <2>1. \A j \in R : \E r : OfRecord(results, j) = {r}
        BY <1>2 DEF NoneDropped
  <2>2. ASSUME NEW x \in results, NEW y \in results, x.record \in R, x.record = y.record
        PROVE  x = y
    <3>1. PICK r : OfRecord(results, x.record) = {r}
          BY <2>1, <2>2
    <3>2. x \in OfRecord(results, x.record) /\ y \in OfRecord(results, x.record)
          BY <2>2 DEF OfRecord
    <3> QED  BY <3>1, <3>2
  <2>3. ASSUME NEW j \in R
        PROVE  \E x \in results : x.record = j
    <3>1. PICK r : OfRecord(results, j) = {r}
          BY <2>1
    <3>2. r \in OfRecord(results, j)
          BY <3>1
    <3> QED  BY <3>2 DEF OfRecord
  <2> QED  BY <2>2, <2>3
<1>5. IsFiniteSet(results)
  <2> DEFINE T == (B \cup {NoBook}) \X (R \cup {NoRecord})
             f == [r \in results |-> <<r.book, r.record>>]
  <2>1. IsFiniteSet(B \cup {NoBook}) /\ IsFiniteSet(R \cup {NoRecord})
        BY <1>0, FS_AddElement
  <2>2. IsFiniteSet(T)
        BY <2>1, FS_Product
  <2>3. f \in [results -> T]
        BY <1>1
  <2>4. ASSUME NEW x \in results, NEW y \in results, f[x] = f[y]
        PROVE  x = y
    <3>1. x.book = y.book /\ x.record = y.record
          BY <2>4
    <3> QED  BY <1>1, <1>3, <1>4, <3>1
  <2>5. f \in Injection(results, T)
        BY <2>3, <2>4 DEF Injection, IsInjective
  <2> HIDE DEF f, T
  <2> QED  BY <2>2, <2>5, FS_Injection
<1> QED  BY <1>3, <1>4, <1>5

\* What one result adds to the credit and to its cover: the claim of its book
\* and the credit not claimed are covered by what its record reports, the risk
\* and, if they are matched, the tolerance.
LEMMA ResultCovers ==
    ASSUME NEW ours, NEW bookOrder, NEW theirs, NEW recordOrder,
           \A i \in DOMAIN ours : ours[i] \in Entry,
           \A j \in DOMAIN theirs : theirs[j] \in Entry,
           NoBook \notin DOMAIN ours, NoRecord \notin DOMAIN theirs,
           NEW r \in Reconcile(ours, bookOrder, theirs, recordOrder)
    PROVE  LET claim == IF r.book \in DOMAIN ours THEN ours[r.book].tax ELSE 0
               report == IF r.record \in DOMAIN theirs THEN theirs[r.record].tax ELSE 0
               slack == IF r.status = "matched" THEN TaxTolerance ELSE 0 IN
           /\ claim \in Int /\ report \in Int /\ slack \in Int
           /\ r.risk \in Int /\ r.unclaimed \in Int
           /\ claim + r.unclaimed <= report + (r.risk + slack)
<1> DEFINE B == DOMAIN ours
           R == DOMAIN theirs
           P(i, j) == Paired(ours, bookOrder, theirs, recordOrder, i, j)
           claim == IF r.book \in B THEN ours[r.book].tax ELSE 0
           report == IF r.record \in R THEN theirs[r.record].tax ELSE 0
           slack == IF r.status = "matched" THEN TaxTolerance ELSE 0
<1> SUFFICES /\ claim \in Int /\ report \in Int /\ slack \in Int
             /\ r.risk \in Int /\ r.unclaimed \in Int
             /\ claim + r.unclaimed <= report + (r.risk + slack)
    OBVIOUS
<1>0. TaxTolerance \in Nat
      BY ReconciliationAssumption
<1>1. \/ \E i \in B, j \in R : P(i, j) /\ r = Pair(i, ours[i], j, theirs[j])
      \/ \E i \in B : /\ \A j \in R : ~ P(i, j)
                      /\ r = MissingInReturn(i, ours[i])
      \/ \E j \in R : /\ \A i \in B : ~ P(i, j)
                      /\ r = MissingInBooks(j, theirs[j])
      BY ResultShape
<1>2. /\ \A i \in B : ours[i].tax \in Int
      /\ \A j \in R : theirs[j].tax \in Int
      BY DEF Entry
<1>3. CASE \E i \in B, j \in R : P(i, j) /\ r = Pair(i, ours[i], j, theirs[j])
  <2>1. PICK i \in B, j \in R : r = Pair(i, ours[i], j, theirs[j])
        BY <1>3
  <2> DEFINE a == ours[i].tax
             b == theirs[j].tax
  <2>2. a \in Int /\ b \in Int
        BY <1>2
  <2>3. CASE Within(ours[i], theirs[j])
    <3>1. /\ r.status = "matched" /\ r.book = i /\ r.record = j
          /\ r.risk = 0 /\ r.unclaimed = 0
          BY <2>1, <2>3 DEF Pair
    <3>2. claim = a /\ report = b /\ slack = TaxTolerance
          BY <3>1
    <3>3. Differ(a, b) <= TaxTolerance
          BY <2>3 DEF Within
    <3> HIDE DEF a, b, claim, report, slack
    <3> QED  BY <1>0, <2>2, <3>1, <3>2, <3>3 DEF Differ
  <2>4. CASE ~ Within(ours[i], theirs[j])
    <3>1. /\ r.status = "mismatch" /\ r.book = i /\ r.record = j
          /\ r.risk = (IF a > b THEN a - b ELSE 0) /\ r.unclaimed = 0
          BY <2>1, <2>4 DEF Pair
    <3>2. claim = a /\ report = b /\ slack = 0
          BY <3>1
    <3> HIDE DEF a, b, claim, report, slack
    <3> QED  BY <2>2, <3>1, <3>2
  <2> QED  BY <2>3, <2>4
<1>4. CASE \E i \in B : r = MissingInReturn(i, ours[i])
  <2>1. PICK i \in B : r = MissingInReturn(i, ours[i])
        BY <1>4
  <2> DEFINE a == ours[i].tax
  <2>2. /\ r.status = "missing_in_return" /\ r.book = i /\ r.record = NoRecord
        /\ r.risk = a /\ r.unclaimed = 0
        BY <2>1 DEF MissingInReturn
  <2>3. claim = a /\ report = 0 /\ slack = 0 /\ a \in Int
        BY <1>2, <2>2
  <2> HIDE DEF a, claim, report, slack
  <2> QED  BY <2>2, <2>3
<1>5. CASE \E j \in R : r = MissingInBooks(j, theirs[j])
  <2>1. PICK j \in R : r = MissingInBooks(j, theirs[j])
        BY <1>5
  <2> DEFINE b == theirs[j].tax
  <2>2. /\ r.status = "missing_in_books" /\ r.book = NoBook /\ r.record = j
        /\ r.risk = 0 /\ r.unclaimed = b
        BY <2>1 DEF MissingInBooks
  <2>3. claim = 0 /\ report = b /\ slack = 0 /\ b \in Int
        BY <1>2, <2>2
  <2> HIDE DEF b, claim, report, slack
  <2> QED  BY <2>2, <2>3
<1> QED  BY <1>1, <1>3, <1>4, <1>5

\* The tax claimed in the books, less what the suppliers of paired invoices
\* have reported (all but the unclaimed credit), is at risk up to the
\* tolerance of each matched pair, whatever the lists, their order, the amounts
\* and the tolerances.
THEOREM CreditIsCovered ==
    ASSUME NEW ours, NEW bookOrder, IsList(ours, bookOrder),
           NEW theirs, NEW recordOrder, IsList(theirs, recordOrder),
           NoBook \notin DOMAIN ours, NoRecord \notin DOMAIN theirs,
           \A i \in DOMAIN ours : ours[i] \in Entry,
           \A j \in DOMAIN theirs : theirs[j] \in Entry,
           NEW claims, \A i \in DOMAIN ours : claims[i] = ours[i].tax,
           NEW reports, \A j \in DOMAIN theirs : reports[j] = theirs[j].tax
    PROVE  LET sum == Summarize(Reconcile(ours, bookOrder, theirs, recordOrder)) IN
           Total(claims, DOMAIN ours) - (Total(reports, DOMAIN theirs) - sum.unclaimed)
               <= sum.itc_at_risk + TaxTolerance * sum.matched
<1> DEFINE B == DOMAIN ours
           R == DOMAIN theirs
           F == Reconcile(ours, bookOrder, theirs, recordOrder)
           sum == Summarize(F)
           M == {r \in F : r.status = "matched"}
           claim == [r \in F |-> IF r.book \in B THEN ours[r.book].tax ELSE 0]
           report == [r \in F |-> IF r.record \in R THEN theirs[r.record].tax ELSE 0]
           slack == [r \in F |-> IF r.status = "matched" THEN TaxTolerance ELSE 0]
           risk == [r \in F |-> r.risk]
           unclaimed == [r \in F |-> r.unclaimed]
           excess == [r \in F |-> claim[r] + unclaimed[r]]
           safety == [r \in F |-> risk[r] + slack[r]]
           cover == [r \in F |-> report[r] + safety[r]]
<1> SUFFICES Total(claims, B) - (Total(reports, R) - sum.unclaimed)
                 <= sum.itc_at_risk + TaxTolerance * sum.matched
    OBVIOUS
<1>1. /\ IsFiniteSet(F)
      /\ \A x, y \in F : x.book \in B /\ x.book = y.book => x = y
      /\ \A x, y \in F : x.record \in R /\ x.record = y.record => x = y
      /\ \A i \in B : \E x \in F : x.book = i
      /\ \A j \in R : \E x \in F : x.record = j
  <2> HIDE DEF F
  <2> QED  BY ResultsAreApart DEF F
<1>2. IsFiniteSet(B) /\ IsFiniteSet(R)
      BY DEF IsList
<1>3. \A r \in F : /\ claim[r] \in Int /\ report[r] \in Int /\ slack[r] \in Int
                   /\ risk[r] \in Int /\ unclaimed[r] \in Int
                   /\ claim[r] + unclaimed[r] <= report[r] + (risk[r] + slack[r])
  <2> SUFFICES ASSUME NEW r \in F
               PROVE  /\ claim[r] \in Int /\ report[r] \in Int /\ slack[r] \in Int
                      /\ risk[r] \in Int /\ unclaimed[r] \in Int
                      /\ claim[r] + unclaimed[r] <= report[r] + (risk[r] + slack[r])
      OBVIOUS
  <2> DEFINE c == IF r.book \in B THEN ours[r.book].tax ELSE 0
             p == IF r.record \in R THEN theirs[r.record].tax ELSE 0
             s == IF r.status = "matched" THEN TaxTolerance ELSE 0
  <2>1. /\ c \in Int /\ p \in Int /\ s \in Int
        /\ r.risk \in Int /\ r.unclaimed \in Int
        /\ c + r.unclaimed <= p + (r.risk + s)
        BY ResultCovers
  <2>2. /\ claim[r] = c /\ report[r] = p /\ slack[r] = s
        /\ risk[r] = r.risk /\ unclaimed[r] = r.unclaimed
    <3> HIDE DEF F
    <3> QED  OBVIOUS
  <2> HIDE DEF F, c, p, s, claim, report, slack, risk, unclaimed
  <2> QED  BY <2>1, <2>2
<1>4. /\ \A r \in F : excess[r] = claim[r] + unclaimed[r]
      /\ \A r \in F : safety[r] = risk[r] + slack[r]
      /\ \A r \in F : cover[r] = report[r] + safety[r]
  <2> HIDE DEF F, claim, report, slack, risk, unclaimed
  <2> QED  OBVIOUS
<1>5. Total(claim, F) = Total(claims, B)
  <2> DEFINE k == [r \in F |-> r.book]
  <2>1. Names(k, F, B)
    <3> HIDE DEF F
    <3> QED  BY <1>1 DEF Names
  <2>2. \A i \in B : claims[i] \in Int
    <3> HIDE DEF F
    <3> QED  BY <1>1 DEF Entry
  <2>3. \A x \in F : claim[x] = IF k[x] \in B THEN claims[k[x]] ELSE 0
    <3> HIDE DEF F
    <3> QED  OBVIOUS
  <2> HIDE DEF F, B, k, claim
  <2>4. IsFiniteSet(F)
        BY <1>1
  <2> QED  BY <1>2, <2>1, <2>2, <2>3, <2>4, TotalOver
<1>6. Total(report, F) = Total(reports, R)
  <2> DEFINE k == [r \in F |-> r.record]
  <2>1. Names(k, F, R)
    <3> HIDE DEF F
    <3> QED  BY <1>1 DEF Names
  <2>2. \A j \in R : reports[j] \in Int
    <3> HIDE DEF F
    <3> QED  BY <1>1 DEF Entry
  <2>3. \A x \in F : report[x] = IF k[x] \in R THEN reports[k[x]] ELSE 0
    <3> HIDE DEF F
    <3> QED  OBVIOUS
  <2> HIDE DEF F, R, k, report
  <2>4. IsFiniteSet(F)
        BY <1>1
  <2> QED  BY <1>2, <2>1, <2>2, <2>3, <2>4, TotalOver
<1>7. sum.itc_at_risk = Total(risk, F) /\ sum.unclaimed = Total(unclaimed, F)
  <2>1. /\ \A x \in F : risk[x] = x.risk
        /\ \A x \in F : unclaimed[x] = x.unclaimed
    <3> HIDE DEF F
    <3> QED  OBVIOUS
  <2>2. /\ sum.itc_at_risk = MapThenSumSet(LAMBDA r : r.risk, F)
        /\ sum.unclaimed = MapThenSumSet(LAMBDA r : r.unclaimed, F)
    <3> HIDE DEF F
    <3> QED  BY DEF Summarize
  <2> HIDE DEF F, sum, risk, unclaimed
  <2>3. MapThenSumSet(LAMBDA r : r.risk, F) = Total(risk, F)
        BY <1>1, <2>1, SumOfRisk
  <2>4. MapThenSumSet(LAMBDA r : r.unclaimed, F) = Total(unclaimed, F)
        BY <1>1, <2>1, SumOfUnclaimed
  <2> QED  BY <2>2, <2>3, <2>4
<1>8. TaxTolerance * sum.matched = Total(slack, F) /\ sum.matched \in Nat
  <2>1. \A x \in F : slack[x] = IF x \in M THEN TaxTolerance ELSE 0
    <3> HIDE DEF F
    <3> QED  OBVIOUS
  <2>2. F \cap M = M /\ M \subseteq F
        OBVIOUS
  <2>3. sum.matched = Cardinality(M)
    <3> HIDE DEF F
    <3> QED  BY DEF Summarize, Count
  <2>4. TaxTolerance \in Int
        BY ReconciliationAssumption
  <2> HIDE DEF F, M, sum, slack
  <2>5. Total(slack, F) = TaxTolerance * Cardinality(F \cap M)
    <3>1. IsFiniteSet(F)
          BY <1>1
    <3> QED  BY <2>1, <2>4, <3>1, TotalCount
  <2>6. Cardinality(M) \in Nat
        BY <1>1, <2>2, FS_Subset, FS_CardinalityType
  <2> QED  BY <2>2, <2>3, <2>5, <2>6
<1> HIDE DEF F, B, R, M, sum, claim, report, slack, risk, unclaimed, excess, safety, cover
<1>9. \A r \in F : /\ excess[r] \in Int /\ safety[r] \in Int /\ cover[r] \in Int
                   /\ excess[r] <= cover[r]
      BY <1>3, <1>4
<1>10. Total(excess, F) = Total(claim, F) + Total(unclaimed, F)
  <2>1. \A r \in F : /\ claim[r] \in Int /\ unclaimed[r] \in Int
                     /\ excess[r] = claim[r] + unclaimed[r]
        BY <1>3, <1>4
  <2> QED  BY <1>1, <2>1, TotalPlus
<1>11. Total(safety, F) = Total(risk, F) + Total(slack, F)
  <2>1. \A r \in F : /\ risk[r] \in Int /\ slack[r] \in Int
                     /\ safety[r] = risk[r] + slack[r]
        BY <1>3, <1>4
  <2> QED  BY <1>1, <2>1, TotalPlus
<1>12. Total(cover, F) = Total(report, F) + Total(safety, F)
  <2>1. \A r \in F : /\ report[r] \in Int /\ safety[r] \in Int
                     /\ cover[r] = report[r] + safety[r]
        BY <1>3, <1>4, <1>9
  <2> QED  BY <1>1, <2>1, TotalPlus
<1>13. Total(excess, F) <= Total(cover, F)
  <2>1. \A r \in F : /\ excess[r] \in Int /\ cover[r] \in Int
                     /\ excess[r] <= cover[r]
        BY <1>9
  <2> QED  BY <1>1, <2>1, TotalLeq
<1>14. /\ Total(claim, F) \in Int /\ Total(unclaimed, F) \in Int
       /\ Total(risk, F) \in Int /\ Total(slack, F) \in Int
       /\ Total(report, F) \in Int
  <2>0. F \in SUBSET F
        OBVIOUS
  <2>1. Total(claim, F) \in Int
    <3>1. \A r \in F : claim[r] \in Int
          BY <1>3
    <3> QED  BY <1>1, <2>0, <3>1, TotalInt
  <2>2. Total(unclaimed, F) \in Int
    <3>1. \A r \in F : unclaimed[r] \in Int
          BY <1>3
    <3> QED  BY <1>1, <2>0, <3>1, TotalInt
  <2>3. Total(risk, F) \in Int
    <3>1. \A r \in F : risk[r] \in Int
          BY <1>3
    <3> QED  BY <1>1, <2>0, <3>1, TotalInt
  <2>4. Total(slack, F) \in Int
    <3>1. \A r \in F : slack[r] \in Int
          BY <1>3
    <3> QED  BY <1>1, <2>0, <3>1, TotalInt
  <2>5. Total(report, F) \in Int
    <3>1. \A r \in F : report[r] \in Int
          BY <1>3
    <3> QED  BY <1>1, <2>0, <3>1, TotalInt
  <2> QED  BY <2>1, <2>2, <2>3, <2>4, <2>5
<1>15. Total(claim, F) + Total(unclaimed, F)
           <= Total(report, F) + (Total(risk, F) + Total(slack, F))
       BY <1>10, <1>11, <1>12, <1>13
<1>16. \A a, b, c, d, e \in Int : a + b <= c + (d + e) => a - (c - b) <= d + e
       OBVIOUS
<1> QED  BY <1>5, <1>6, <1>7, <1>8, <1>14, <1>15, <1>16

-----------------------------------------------------------------------------
(* The requests, statement by statement. *)

\* t is a record with the fields of a request.
IsRequest(t) ==
    t \in [op : {t.op}, source : {t.source}, file : {t.file}, books : {t.books},
           records : {t.records}, seen : {t.seen}, results : {t.results},
           row : {t.row}, old : {t.old}]

\* S holds the files of imports that are over, each with all its rows.
FilesOf(f, S) ==
    \A r \in S : /\ r \in Record
                 /\ f[r[1]].op = "done"
                 /\ f[r[1]].file \in Files
                 /\ r[2] \in DOMAIN f[r[1]].file
                 /\ \A n \in DOMAIN f[r[1]].file : <<r[1], n>> \in S

FromSource(f, S, s) == \A r \in S : f[r[1]].source = s

OneFile(S) == \A r, s \in S : r[1] = s[1]

\* Every book and every record that t has read is in one of its results.
Exact(t) == /\ \A i \in t.books : Cardinality({r \in t.results : r.book = i}) = 1
            /\ \A j \in t.records : Cardinality({r \in t.results : r.record = j}) = 1

\* S holds matches of runs that are over, each with all its results.
MatchesOf(f, S) ==
    \A m \in S : /\ m \in [by : Requests, result : f[m.by].results]
                 /\ f[m.by].op = "done"
                 /\ Exact(f[m.by])
                 /\ \A r \in f[m.by].results : [by |-> m.by, result |-> r] \in S

Importing == {"delete", "unlink", "insert_records"}
Computed == {"snapshot", "replace", "flush", "insert_matches"}
Running == {"records", "find"} \cup Computed

\* What a request t knows when the requests are f.
Knows(f, t) ==
    /\ t.op \in Importing => /\ t.file \in Files
                             /\ FilesOf(f, t.records)
                             /\ FromSource(f, t.records, t.source)
    /\ t.op \in Importing \cup Running => t.source \in Sources
    /\ t.op \in Running => t.books \subseteq Invoices
    /\ t.op \in {"find"} \cup Computed => /\ t.records # {}
                                          /\ FilesOf(f, t.records)
                                          /\ FromSource(f, t.records, t.source)
                                          /\ OneFile(t.records)
    /\ t.op \in Computed => Exact(t)
    /\ MatchesOf(f, t.old)

RequestsInv(f) == /\ f = [q \in Requests |-> f[q]]
                  /\ \A q \in Requests : IsRequest(f[q]) /\ Knows(f, f[q])

\* The imported rows of a source are those of one file: a corrected export
\* "never leaves stale rows behind", even when two imports overlap.
UploadsNeverMix ==
    \A r, s \in records : req[r[1]].source = req[s[1]].source => r[1] = s[1]

StoredInv == /\ FilesOf(req, records)
             /\ UploadsNeverMix
             /\ MatchesOf(req, matches)

\* What is over stays.
LEMMA OverStays ==
    ASSUME NEW f, NEW q \in Requests, NEW t,
           f = [p \in Requests |-> f[p]], f[q].op # "done",
           NEW g, g = [f EXCEPT ![q] = t]
    PROVE  /\ \A p \in Requests \ {q} : g[p] = f[p]
           /\ g[q] = t
           /\ \A S : FilesOf(f, S) => FilesOf(g, S)
           /\ \A S, s : FilesOf(f, S) /\ FromSource(f, S, s) => FromSource(g, S, s)
           /\ \A S : MatchesOf(f, S) => MatchesOf(g, S)
<1>1. /\ \A p \in Requests \ {q} : g[p] = f[p]
      /\ g[q] = t
      OBVIOUS
<1>2. \A r \in Record : r[1] \in Requests
      BY DEF Record
<1>3. \A r \in Record : f[r[1]].op = "done" => g[r[1]] = f[r[1]]
      BY <1>1, <1>2
<1>4. \A S : FilesOf(f, S) => FilesOf(g, S)
      BY <1>3 DEF FilesOf
<1>5. \A S, s : FilesOf(f, S) /\ FromSource(f, S, s) => FromSource(g, S, s)
      BY <1>3 DEF FilesOf, FromSource
<1>6. ASSUME NEW S, MatchesOf(f, S)
      PROVE  MatchesOf(g, S)
  <2> SUFFICES ASSUME NEW m \in S
               PROVE  /\ m \in [by : Requests, result : g[m.by].results]
                      /\ g[m.by].op = "done"
                      /\ Exact(g[m.by])
                      /\ \A r \in g[m.by].results : [by |-> m.by, result |-> r] \in S
      BY DEF MatchesOf
  <2>1. /\ m \in [by : Requests, result : f[m.by].results]
        /\ f[m.by].op = "done"
        /\ Exact(f[m.by])
        /\ \A r \in f[m.by].results : [by |-> m.by, result |-> r] \in S
        BY <1>6 DEF MatchesOf
  <2>2. m.by \in Requests
        BY <2>1
  <2>3. g[m.by] = f[m.by]
        BY <1>1, <2>1, <2>2
  <2> QED  BY <2>1, <2>3
<1> QED  BY <1>1, <1>4, <1>5, <1>6

\* A step of one request, which knows what it should.
LEMMA RequestStep ==
    ASSUME NEW f, NEW q \in Requests, NEW t,
           RequestsInv(f), f[q].op # "done",
           NEW g, g = [f EXCEPT ![q] = t],
           IsRequest(t), Knows(f, t)
    PROVE  RequestsInv(g)
<1>1. f = [p \in Requests |-> f[p]]
      BY DEF RequestsInv
<1>2. /\ \A p \in Requests \ {q} : g[p] = f[p]
      /\ g[q] = t
      /\ \A S : FilesOf(f, S) => FilesOf(g, S)
      /\ \A S, s : FilesOf(f, S) /\ FromSource(f, S, s) => FromSource(g, S, s)
      /\ \A S : MatchesOf(f, S) => MatchesOf(g, S)
      BY <1>1, OverStays
<1>3. \A u : Knows(f, u) => Knows(g, u)
      BY <1>2 DEF Knows
<1>4. g = [p \in Requests |-> g[p]]
      BY <1>1
<1>5. \A p \in Requests : IsRequest(g[p]) /\ Knows(g, g[p])
  <2> SUFFICES ASSUME NEW p \in Requests
               PROVE  IsRequest(g[p]) /\ Knows(g, g[p])
      OBVIOUS
  <2>1. CASE p = q
        BY <1>2, <1>3, <2>1
  <2>2. CASE p # q
        BY <1>2, <1>3, <2>2 DEF RequestsInv
  <2> QED  BY <2>1, <2>2
<1> QED  BY <1>4, <1>5 DEF RequestsInv

-----------------------------------------------------------------------------
Inv == RequestsInv(req) /\ StoredInv

\* A step that commits nothing.
LEMMA QuietStep ==
    ASSUME Inv, NEW q \in Requests, NEW t, Move(q, t), req[q].op # "done",
           IsRequest(t), Knows(req, t), UNCHANGED <<records, matches>>
    PROVE  Inv'
<1>1. RequestsInv(req')
      BY RequestStep DEF Inv, Move
<1>2. req = [p \in Requests |-> req[p]]
      BY DEF Inv, RequestsInv
<1>3. /\ \A p \in Requests \ {q} : req'[p] = req[p]
      /\ \A S : FilesOf(req, S) => FilesOf(req', S)
      /\ \A S : MatchesOf(req, S) => MatchesOf(req', S)
      BY <1>2, OverStays DEF Move
<1>4. FilesOf(req', records') /\ MatchesOf(req', matches')
      BY <1>3 DEF Inv, StoredInv
<1>5. \A r \in records : req'[r[1]] = req[r[1]]
  <2>1. \A r \in records : r[1] \in Requests /\ r[1] # q
        BY DEF Inv, StoredInv, FilesOf, Record
  <2> QED  BY <1>3, <2>1
<1>6. UploadsNeverMix'
      BY <1>5 DEF Inv, StoredInv, UploadsNeverMix
<1> QED  BY <1>1, <1>4, <1>6 DEF Inv, StoredInv

\* What holds of a request of the current state.
LEMMA Known ==
    ASSUME Inv, NEW q \in Requests
    PROVE  /\ req = [p \in Requests |-> req[p]]
           /\ IsRequest(req[q])
           /\ Knows(req, req[q])
           /\ FilesOf(req, records)
           /\ UploadsNeverMix
           /\ MatchesOf(req, matches)
BY DEF Inv, RequestsInv, StoredInv

\* What lets a request execute its next statement.
LEMMA Executed ==
    \A q, op : Executes(q, op) =>
        /\ req[q].op = op
        /\ op = "records" => RecordsOf(req[q].source) # {}
        /\ op = "insert_records" => RowsFree(q)
        /\ op = "flush" /\ req[q].seen = NoRun => run = NoRun
        /\ op = "insert_matches" => ReferencesHold(q)
BY DEF Executes, Refused

\* The statements at which a request waits.
LEMMA WaitsAt ==
    \A q, p : Waits(q, p) =>
        req[q].op \in {"delete", "unlink", "replace", "flush", "insert_matches"}
BY DEF Waits

\* A request that is refused or deadlocked is not over.
LEMMA Stopped ==
    \A q : Refused(q) \/ Deadlocked(q) => req[q].op # "done"
BY WaitsAt DEF Refused, Deadlocked, Waiting

LEMMA IsRequestExcept ==
    ASSUME NEW t, IsRequest(t)
    PROVE  /\ \A x : IsRequest([t EXCEPT !.op = x])
           /\ \A x, y : IsRequest([t EXCEPT !.op = x, !.records = y])
           /\ \A x, y : IsRequest([t EXCEPT !.op = x, !.old = y])
           /\ \A x, y, z, u : IsRequest([t EXCEPT !.op = x, !.seen = y, !.results = z, !.row = u])
           /\ \A x, y, z, u, v, w, o : IsRequest([t EXCEPT !.op = x, !.books = y, !.records = z,
                                 !.seen = u, !.results = v, !.row = w, !.old = o])
<1>1. ASSUME NEW x
      PROVE  IsRequest([t EXCEPT !.op = x])
      BY DEF IsRequest
<1>2. ASSUME NEW x, NEW y
      PROVE  IsRequest([t EXCEPT !.op = x, !.records = y])
      BY DEF IsRequest
<1>3. ASSUME NEW x, NEW y
      PROVE  IsRequest([t EXCEPT !.op = x, !.old = y])
      BY DEF IsRequest
<1>4. ASSUME NEW x, NEW y, NEW z, NEW u
      PROVE  IsRequest([t EXCEPT !.op = x, !.seen = y, !.results = z, !.row = u])
      BY DEF IsRequest
<1>5. ASSUME NEW x, NEW y, NEW z, NEW u, NEW v, NEW w, NEW o
      PROVE  IsRequest([t EXCEPT !.op = x, !.books = y, !.records = z,
                                 !.seen = u, !.results = v, !.row = w, !.old = o])
      BY DEF IsRequest
<1> QED  BY <1>1, <1>2, <1>3, <1>4, <1>5

LEMMA NewIsRequest ==
    /\ IsRequest(New)
    /\ \A x, y, z, u : IsRequest([New EXCEPT !.op = x, !.source = y, !.file = z,
                                              !.records = u])
    /\ \A x, y, z : IsRequest([New EXCEPT !.op = x, !.source = y, !.books = z])
<1>1. IsRequest(New)
      BY DEF IsRequest, New
<1>2. ASSUME NEW x, NEW y, NEW z, NEW u
      PROVE  IsRequest([New EXCEPT !.op = x, !.source = y, !.file = z, !.records = u])
      BY DEF IsRequest, New
<1>3. ASSUME NEW x, NEW y, NEW z
      PROVE  IsRequest([New EXCEPT !.op = x, !.source = y, !.books = z])
      BY DEF IsRequest, New
<1> QED  BY <1>1, <1>2, <1>3

LEMMA Nothing == \A f, s : FilesOf(f, {}) /\ FromSource(f, {}, s) /\ MatchesOf(f, {})
BY DEF FilesOf, FromSource, MatchesOf

-----------------------------------------------------------------------------
LEMMA InitInv == Init => Inv
<1> SUFFICES ASSUME Init
             PROVE  Inv
    OBVIOUS
<1>1. \A q \in Requests : IsRequest(req[q]) /\ Knows(req, req[q])
      BY NewIsRequest, Nothing DEF Init, New, Knows, Importing, Running, Computed
<1>2. RequestsInv(req)
      BY <1>1 DEF Init, RequestsInv
<1>3. StoredInv
      BY Nothing DEF Init, StoredInv, UploadsNeverMix
<1> QED  BY <1>2, <1>3 DEF Inv

\* The rows of a source are the whole of one file.
LEMMA RecordsOfSource ==
    ASSUME Inv, NEW s
    PROVE  /\ FilesOf(req, RecordsOf(s))
           /\ FromSource(req, RecordsOf(s), s)
           /\ OneFile(RecordsOf(s))
<1>1. FilesOf(req, records) /\ UploadsNeverMix
      BY DEF Inv, StoredInv
<1>2. ASSUME NEW r \in RecordsOf(s), NEW n \in DOMAIN req[r[1]].file
      PROVE  <<r[1], n>> \in RecordsOf(s)
  <2>1. <<r[1], n>> \in records /\ req[r[1]].source = s
        BY <1>1 DEF FilesOf, RecordsOf
  <2>2. <<r[1], n>>[1] = r[1]
        OBVIOUS
  <2> QED  BY <2>1, <2>2 DEF RecordsOf
<1>3. FilesOf(req, RecordsOf(s))
      BY <1>1, <1>2 DEF FilesOf, RecordsOf
<1> QED  BY <1>1, <1>3 DEF FromSource, OneFile, UploadsNeverMix, RecordsOf

LEMMA BeginImportInv ==
    ASSUME Inv, NEW q \in Requests, BeginImport(q)
    PROVE  Inv'
<1>1. PICK s \in Sources, f \in Files :
          Move(q, [New EXCEPT !.op = "delete", !.source = s, !.file = f,
                              !.records = RecordsOf(s)])
      BY DEF BeginImport
<1> DEFINE t == [New EXCEPT !.op = "delete", !.source = s, !.file = f,
                            !.records = RecordsOf(s)]
<1>2. IsRequest(t)
      BY NewIsRequest
<1>3. /\ t.op = "delete" /\ t.source = s /\ t.file = f
      /\ t.records = RecordsOf(s) /\ t.old = {}
      BY DEF New
<1>4. Knows(req, t)
      BY <1>3, RecordsOfSource, Nothing DEF Knows, Importing, Running, Computed
<1>5. req[q].op # "done" /\ UNCHANGED <<records, matches>>
      BY DEF BeginImport, IsNext, New
<1> HIDE DEF t
<1> QED  BY <1>1, <1>2, <1>4, <1>5, QuietStep DEF t

\* The rows that a snapshot names and that are still there are whole files.
LEMMA StillThere ==
    ASSUME NEW f, NEW S, NEW T, FilesOf(f, S), FilesOf(f, T)
    PROVE  FilesOf(f, S \cap T) /\ FilesOf(f, S \ T)
<1>1. FilesOf(f, S \cap T)
      BY DEF FilesOf
<1>2. ASSUME NEW r \in S \ T, NEW n \in DOMAIN f[r[1]].file
      PROVE  <<r[1], n>> \in S \ T
  <2>1. r \in Record /\ r[2] \in DOMAIN f[r[1]].file /\ <<r[1], n>> \in S
        BY DEF FilesOf
  <2>2. <<r[1], r[2]>> = r
        BY <2>1 DEF Record
  <2>3. <<r[1], n>>[1] = r[1]
        OBVIOUS
  <2>4. ASSUME <<r[1], n>> \in T
        PROVE  FALSE
    <3>1. \A k \in DOMAIN f[r[1]].file : <<r[1], k>> \in T
          BY <2>3, <2>4 DEF FilesOf
    <3> QED  BY <2>1, <2>2, <3>1
  <2> QED  BY <2>1, <2>4
<1>3. FilesOf(f, S \ T)
      BY <1>2 DEF FilesOf
<1> QED  BY <1>1, <1>3

LEMMA DeleteRecordsInv ==
    ASSUME Inv, NEW q \in Requests, DeleteRecords(q)
    PROVE  Inv'
<1> DEFINE t == [req[q] EXCEPT !.op = "unlink", !.records = req[q].records \cap records]
<1>1. /\ IsRequest(req[q]) /\ Knows(req, req[q]) /\ FilesOf(req, records)
      /\ req[q].op = "delete"
      BY Known, Executed DEF DeleteRecords
<1>2. IsRequest(t)
      BY <1>1, IsRequestExcept
<1>3. /\ t.op = "unlink" /\ t.source = req[q].source /\ t.file = req[q].file
      /\ t.records = req[q].records \cap records /\ t.old = req[q].old
      BY <1>1 DEF IsRequest
<1>4. Knows(req, t)
  <2>1. /\ req[q].file \in Files /\ req[q].source \in Sources
        /\ FilesOf(req, req[q].records) /\ FromSource(req, req[q].records, req[q].source)
        /\ MatchesOf(req, req[q].old)
        BY <1>1 DEF Knows, Importing
  <2>2. FilesOf(req, req[q].records \cap records)
        BY <1>1, <2>1, StillThere
  <2>3. FromSource(req, req[q].records \cap records, req[q].source)
        BY <2>1 DEF FromSource
  <2> HIDE DEF t
  <2> QED  BY <1>3, <2>1, <2>2, <2>3 DEF Knows, Importing, Running, Computed
<1>5. Move(q, t) /\ req[q].op # "done" /\ UNCHANGED <<records, matches>>
      BY Executed DEF DeleteRecords
<1> HIDE DEF t
<1> QED  BY <1>2, <1>4, <1>5, QuietStep

LEMMA UnlinkMatchesInv ==
    ASSUME Inv, NEW q \in Requests, UnlinkMatches(q)
    PROVE  Inv'
<1> DEFINE t == [req[q] EXCEPT !.op = "insert_records"]
<1>1. IsRequest(req[q]) /\ Knows(req, req[q]) /\ req[q].op = "unlink"
      BY Known, Executed DEF UnlinkMatches
<1>2. IsRequest(t)
      BY <1>1, IsRequestExcept
<1>3. /\ t.op = "insert_records" /\ t.source = req[q].source /\ t.file = req[q].file
      /\ t.records = req[q].records /\ t.old = req[q].old
      BY <1>1 DEF IsRequest
<1>4. Knows(req, t)
      BY <1>1, <1>3 DEF Knows, Importing, Running, Computed
<1>5. Move(q, t) /\ req[q].op # "done" /\ UNCHANGED <<records, matches>>
      BY Executed DEF UnlinkMatches
<1> HIDE DEF t
<1> QED  BY <1>2, <1>4, <1>5, QuietStep

\* The unique index lets an import commit only when the rows of its source
\* are all deleted: those of another file would have a row 1, too.
LEMMA CommitImportInv ==
    ASSUME Inv, NEW q \in Requests, CommitImport(q)
    PROVE  Inv'
<1> DEFINE t == [req[q] EXCEPT !.op = "done", !.records = {}]
           file == req[q].file
           kept == records \ req[q].records
           new == {<<q, n>> : n \in DOMAIN file}
<1>1. /\ req = [p \in Requests |-> req[p]] /\ IsRequest(req[q]) /\ Knows(req, req[q])
      /\ FilesOf(req, records) /\ UploadsNeverMix /\ MatchesOf(req, matches)
      /\ req[q].op = "insert_records"
      BY Known, Executed DEF CommitImport
<1>2. /\ file \in Files /\ req[q].source \in Sources
      /\ FilesOf(req, req[q].records) /\ FromSource(req, req[q].records, req[q].source)
      /\ MatchesOf(req, req[q].old)
      BY <1>1 DEF Knows, Importing
<1>3. /\ req' = [req EXCEPT ![q] = t] /\ RowsFree(q)
      /\ records' = kept \cup new /\ matches' = matches
      BY Executed DEF CommitImport, Move
<1>4. IsRequest(t)
      BY <1>1, IsRequestExcept
<1>5. /\ t.op = "done" /\ t.source = req[q].source /\ t.file = file
      /\ t.records = {} /\ t.old = req[q].old
      BY <1>1 DEF IsRequest
<1>6. Knows(req, t)
  <2> HIDE DEF t
  <2> QED  BY <1>2, <1>5 DEF Knows, Importing, Running, Computed
<1> HIDE DEF t
<1>7. RequestsInv(req')
      BY <1>1, <1>3, <1>4, <1>6, RequestStep DEF Inv
<1>8. /\ \A p \in Requests \ {q} : req'[p] = req[p]
      /\ req'[q] = t
      /\ \A S : FilesOf(req, S) => FilesOf(req', S)
      /\ \A S : MatchesOf(req, S) => MatchesOf(req', S)
      BY <1>1, <1>3, OverStays
<1>9. FilesOf(req', kept)
      BY <1>1, <1>2, <1>8, StillThere
<1>10. file \in Seq(Entry) /\ file # <<>>
       BY <1>2, RequestsAssumption
<1>11. DOMAIN file \subseteq Nat /\ 1 \in DOMAIN file
       BY <1>10
<1>12. FilesOf(req', new)
  <2> SUFFICES ASSUME NEW n \in DOMAIN file, NEW r, r = <<q, n>>
               PROVE  /\ r \in Record
                      /\ req'[r[1]].op = "done"
                      /\ req'[r[1]].file \in Files
                      /\ r[2] \in DOMAIN req'[r[1]].file
                      /\ \A k \in DOMAIN req'[r[1]].file : <<r[1], k>> \in new
      BY DEF FilesOf
  <2>1. r[1] = q /\ r[2] = n /\ r \in Record
        BY <1>11 DEF Record
  <2> QED  BY <1>2, <1>5, <1>8, <2>1
<1>13. FilesOf(req', records')
  <2>1. \A f, S, T : FilesOf(f, S) /\ FilesOf(f, T) => FilesOf(f, S \cup T)
        BY DEF FilesOf
  <2> HIDE DEF kept, new
  <2> QED  BY <1>3, <1>9, <1>12, <2>1
<1>14. \A r \in kept : req[r[1]].source # req[q].source
  <2> SUFFICES ASSUME NEW r \in kept, req[r[1]].source = req[q].source
               PROVE  FALSE
      OBVIOUS
  <2>1. FilesOf(req, kept)
        BY <1>1, <1>2, StillThere
  <2>2. req[r[1]].file \in Seq(Entry) /\ req[r[1]].file # <<>>
        BY <2>1, RequestsAssumption DEF FilesOf
  <2>3. 1 \in DOMAIN req[r[1]].file
        BY <2>2
  <2>4. <<r[1], 1>> \in kept
        BY <2>1, <2>3 DEF FilesOf
  <2>5. <<r[1], 1>> \in RecordsOf(req[q].source) \ req[q].records
        BY <2>4 DEF RecordsOf
  <2> QED  BY <1>3, <1>11, <2>5 DEF RowsFree
<1>15. UploadsNeverMix'
  <2> SUFFICES ASSUME NEW r \in kept \cup new, NEW u \in kept \cup new,
                      req'[r[1]].source = req'[u[1]].source
               PROVE  r[1] = u[1]
      BY <1>3 DEF UploadsNeverMix
  <2>1. \A v \in kept : req'[v[1]].source = req[v[1]].source
    <3>1. \A v \in kept : v[1] \in Requests /\ v[1] # q
          BY <1>1 DEF FilesOf, Record
    <3> QED  BY <1>8, <3>1
  <2>2. \A v \in new : v[1] = q
        OBVIOUS
  <2>3. req'[q].source = req[q].source
        BY <1>5, <1>8
  <2> HIDE DEF new
  <2> QED  BY <1>1, <1>14, <2>1, <2>2, <2>3 DEF UploadsNeverMix
<1>16. MatchesOf(req', matches')
       BY <1>1, <1>3, <1>8
<1> QED  BY <1>7, <1>13, <1>15, <1>16 DEF Inv, StoredInv

-----------------------------------------------------------------------------
LEMMA BeginRunInv ==
    ASSUME Inv, books \subseteq Invoices, NEW q \in Requests, BeginRun(q)
    PROVE  Inv'
<1>1. PICK s \in Sources : Move(q, [New EXCEPT !.op = "records", !.source = s,
                                               !.books = books])
      BY DEF BeginRun
<1> DEFINE t == [New EXCEPT !.op = "records", !.source = s, !.books = books]
<1>2. IsRequest(t)
      BY NewIsRequest
<1>3. t.op = "records" /\ t.source = s /\ t.books = books /\ t.old = {}
      BY DEF New
<1>4. Knows(req, t)
      BY <1>3, Nothing DEF Knows, Importing, Running, Computed
<1>5. req[q].op # "done" /\ UNCHANGED <<records, matches>>
      BY DEF BeginRun, IsNext, New
<1> HIDE DEF t
<1> QED  BY <1>1, <1>2, <1>4, <1>5, QuietStep DEF t

LEMMA ReadRecordsInv ==
    ASSUME Inv, NEW q \in Requests, ReadRecords(q)
    PROVE  Inv'
<1> DEFINE S == RecordsOf(req[q].source)
           t == [req[q] EXCEPT !.op = "find", !.records = S]
<1>1. IsRequest(req[q]) /\ Knows(req, req[q]) /\ req[q].op = "records" /\ S # {}
      BY Known, Executed DEF ReadRecords
<1>2. IsRequest(t)
      BY <1>1, IsRequestExcept
<1>3. /\ t.op = "find" /\ t.source = req[q].source /\ t.books = req[q].books
      /\ t.records = S /\ t.old = req[q].old
      BY <1>1 DEF IsRequest
<1>4. FilesOf(req, S) /\ FromSource(req, S, req[q].source) /\ OneFile(S)
      BY RecordsOfSource
<1>5. Knows(req, t)
  <2> HIDE DEF t, S
  <2> QED  BY <1>1, <1>3, <1>4 DEF Knows, Importing, Running, Computed
<1>6. Move(q, t) /\ req[q].op # "done" /\ UNCHANGED <<records, matches>>
      BY Executed DEF ReadRecords
<1> HIDE DEF t
<1> QED  BY <1>2, <1>5, <1>6, QuietStep

LEMMA OneFileIsFinite ==
    ASSUME NEW f, NEW S, FilesOf(f, S), OneFile(S)
    PROVE  IsFiniteSet(S)
<1>1. CASE S = {}
      BY <1>1, FS_EmptySet
<1>2. CASE S # {}
  <2>1. PICK u \in S : TRUE
        BY <1>2
  <2> DEFINE file == f[u[1]].file
  <2>2. file \in Seq(Entry)
        BY RequestsAssumption DEF FilesOf
  <2>3. Len(file) \in Nat /\ DOMAIN file = 1..Len(file)
        BY <2>2
  <2>4. IsFiniteSet(1..Len(file))
        BY <2>3, FS_Interval
  <2>5. IsFiniteSet({u[1]})
        BY FS_Singleton
  <2>6. IsFiniteSet({u[1]} \X DOMAIN file)
        BY <2>3, <2>4, <2>5, FS_Product
  <2>7. S \subseteq {u[1]} \X DOMAIN file
    <3> SUFFICES ASSUME NEW r \in S
                 PROVE  r \in {u[1]} \X DOMAIN file
        OBVIOUS
    <3>1. r \in Requests \X Nat /\ r[1] = u[1] /\ r[2] \in DOMAIN f[r[1]].file
          BY DEF FilesOf, OneFile, Record
    <3> QED  BY <3>1
  <2> QED  BY <2>6, <2>7, FS_Subset
<1> QED  BY <1>1, <1>2

\* What a run computes has each invoice and each record it has read once.
LEMMA ResultsAreExact ==
    ASSUME Inv, NEW q \in Requests, req[q].op = "find", NEW results \in ResultsOf(q)
    PROVE  /\ \A i \in req[q].books : Cardinality({r \in results : r.book = i}) = 1
           /\ \A j \in req[q].records : Cardinality({r \in results : r.record = j}) = 1
<1> DEFINE inv == [i \in req[q].books |-> BookEntry[i]]
           rec == [r \in req[q].records |-> RecordEntry(r)]
<1>0. Knows(req, req[q])
      BY Known
<1>1. /\ req[q].books \subseteq Invoices
      /\ FilesOf(req, req[q].records) /\ OneFile(req[q].records)
      BY <1>0 DEF Knows, Running, Computed
<1>2. DOMAIN inv = req[q].books /\ DOMAIN rec = req[q].records
      OBVIOUS
<1>3. PICK bo \in Orders(req[q].books), ro \in Orders(req[q].records) :
          results = Reconcile(inv, bo, rec, ro)
      BY <1>2 DEF ResultsOf, Outcomes
<1>4. IsFiniteSet(req[q].books) /\ IsFiniteSet(req[q].records)
      BY <1>1, OneFileIsFinite, FS_Subset, RequestsAssumption
<1>5. NoBook \notin req[q].books /\ NoRecord \notin req[q].records
      BY <1>1, RequestsAssumption DEF FilesOf, Record
<1> HIDE DEF inv, rec
<1>6. IsList(inv, bo) /\ IsList(rec, ro)
      BY <1>2, <1>4, OrdersAreLists
<1>7. NoBook \notin DOMAIN inv /\ NoRecord \notin DOMAIN rec
      BY <1>2, <1>5
<1>8. /\ \A i \in DOMAIN inv : \E r : OfBook(results, i) = {r}
      /\ \A j \in DOMAIN rec : \E r : OfRecord(results, j) = {r}
  <2>1. NoneDropped(Reconcile(inv, bo, rec, ro), DOMAIN inv, DOMAIN rec)
        BY <1>6, <1>7, EachOnce
  <2> QED  BY <1>3, <2>1 DEF NoneDropped
<1>9. ASSUME NEW i \in req[q].books
      PROVE  Cardinality({r \in results : r.book = i}) = 1
  <2>1. PICK r : OfBook(results, i) = {r}
        BY <1>2, <1>8
  <2>2. Cardinality({r}) = 1
        BY FS_Singleton
  <2> QED  BY <2>1, <2>2 DEF OfBook
<1>10. ASSUME NEW j \in req[q].records
       PROVE  Cardinality({r \in results : r.record = j}) = 1
  <2>1. PICK r : OfRecord(results, j) = {r}
        BY <1>2, <1>8
  <2>2. Cardinality({r}) = 1
        BY FS_Singleton
  <2> QED  BY <2>1, <2>2 DEF OfRecord
<1> QED  BY <1>9, <1>10

LEMMA FindRunInv ==
    ASSUME Inv, NEW q \in Requests, FindRun(q)
    PROVE  Inv'
<1>1. PICK results \in ResultsOf(q) :
          Move(q, [req[q] EXCEPT !.op = IF run = NoRun THEN "flush" ELSE "snapshot",
                                 !.seen = run, !.results = results,
                                 !.row = RowOf(req[q].source, results)])
      BY DEF FindRun
<1> DEFINE next == IF run = NoRun THEN "flush" ELSE "snapshot"
           row == RowOf(req[q].source, results)
           t == [req[q] EXCEPT !.op = next, !.seen = run, !.results = results, !.row = row]
<1>2. IsRequest(req[q]) /\ Knows(req, req[q]) /\ req[q].op = "find"
      BY Known, Executed DEF FindRun
<1>3. IsRequest(t)
  <2> HIDE DEF next, row
  <2> QED  BY <1>2, IsRequestExcept
<1>4. /\ t.op \in Computed /\ t.source = req[q].source /\ t.books = req[q].books
      /\ t.records = req[q].records /\ t.results = results /\ t.old = req[q].old
  <2>1. next \in Computed
        BY DEF Computed
  <2> HIDE DEF next, row
  <2> QED  BY <1>2, <2>1 DEF IsRequest
<1>5. Exact(t)
  <2> HIDE DEF t
  <2> QED  BY <1>2, <1>4, ResultsAreExact DEF Exact
<1>6. Knows(req, t)
  <2> HIDE DEF t
  <2> QED  BY <1>2, <1>4, <1>5 DEF Knows, Importing, Running, Computed
<1>7. Move(q, t) /\ req[q].op # "done" /\ UNCHANGED <<records, matches>>
      BY <1>1, Executed DEF FindRun
<1> HIDE DEF t
<1> QED  BY <1>3, <1>6, <1>7, QuietStep

\* A run that has its results goes on with them.
LEMMA GoesOn ==
    ASSUME Inv, NEW q \in Requests, req[q].op \in Computed,
           NEW t, IsRequest(t), t.op \in Computed,
           t.source = req[q].source, t.books = req[q].books,
           t.records = req[q].records, t.results = req[q].results,
           MatchesOf(req, t.old),
           Move(q, t), UNCHANGED <<records, matches>>
    PROVE  Inv'
<1>1. Knows(req, req[q])
      BY Known
<1>2. Knows(req, t)
      BY <1>1 DEF Knows, Importing, Running, Computed, Exact
<1>3. req[q].op # "done"
      BY DEF Computed
<1> QED  BY <1>2, <1>3, QuietStep

LEMMA SnapshotMatchesInv ==
    ASSUME Inv, NEW q \in Requests, SnapshotMatches(q)
    PROVE  Inv'
<1> DEFINE t == [req[q] EXCEPT !.op = "replace", !.old = matches]
<1>1. IsRequest(req[q]) /\ MatchesOf(req, matches) /\ req[q].op = "snapshot"
      BY Known, Executed DEF SnapshotMatches
<1>2. IsRequest(t)
      BY <1>1, IsRequestExcept
<1>3. /\ t.op = "replace" /\ t.source = req[q].source /\ t.books = req[q].books
      /\ t.records = req[q].records /\ t.results = req[q].results /\ t.old = matches
      BY <1>1 DEF IsRequest
<1>4. Move(q, t) /\ UNCHANGED <<records, matches>>
      BY DEF SnapshotMatches
<1>5. req[q].op \in Computed /\ t.op \in Computed
      BY <1>1, <1>3 DEF Computed
<1> HIDE DEF t
<1> QED  BY <1>1, <1>2, <1>3, <1>4, <1>5, GoesOn

LEMMA StillMatched ==
    ASSUME NEW f, NEW S, NEW T, MatchesOf(f, S), MatchesOf(f, T)
    PROVE  MatchesOf(f, S \cap T) /\ MatchesOf(f, S \ T)
<1>1. MatchesOf(f, S \cap T)
      BY DEF MatchesOf
<1>2. ASSUME NEW m \in S \ T, NEW r \in f[m.by].results
      PROVE  [by |-> m.by, result |-> r] \in S \ T
  <2>1. /\ m \in [by : Requests, result : f[m.by].results]
        /\ [by |-> m.by, result |-> r] \in S
        BY DEF MatchesOf
  <2>2. ASSUME [by |-> m.by, result |-> r] \in T
        PROVE  FALSE
    <3>1. \A u \in f[m.by].results : [by |-> m.by, result |-> u] \in T
          BY <2>2 DEF MatchesOf
    <3>2. m = [by |-> m.by, result |-> m.result] /\ m.result \in f[m.by].results
          BY <2>1
    <3> QED  BY <3>1, <3>2
  <2> QED  BY <2>1, <2>2
<1>3. MatchesOf(f, S \ T)
      BY <1>2 DEF MatchesOf
<1> QED  BY <1>1, <1>3

LEMMA DeleteMatchesInv ==
    ASSUME Inv, NEW q \in Requests, DeleteMatches(q)
    PROVE  Inv'
<1> DEFINE t == [req[q] EXCEPT !.op = "flush", !.old = req[q].old \cap matches]
<1>1. /\ IsRequest(req[q]) /\ Knows(req, req[q]) /\ MatchesOf(req, matches)
      /\ req[q].op = "replace"
      BY Known, Executed DEF DeleteMatches
<1>2. IsRequest(t)
      BY <1>1, IsRequestExcept
<1>3. /\ t.op = "flush" /\ t.source = req[q].source /\ t.books = req[q].books
      /\ t.records = req[q].records /\ t.results = req[q].results
      /\ t.old = req[q].old \cap matches
      BY <1>1 DEF IsRequest
<1>4. MatchesOf(req, t.old)
  <2>1. MatchesOf(req, req[q].old)
        BY <1>1 DEF Knows
  <2>2. MatchesOf(req, req[q].old \cap matches)
        BY <1>1, <2>1, StillMatched
  <2> HIDE DEF t
  <2> QED  BY <1>3, <2>2
<1>5. Move(q, t) /\ UNCHANGED <<records, matches>>
      BY DEF DeleteMatches
<1>6. req[q].op \in Computed /\ t.op \in Computed
      BY <1>1, <1>3 DEF Computed
<1> HIDE DEF t
<1> QED  BY <1>2, <1>3, <1>4, <1>5, <1>6, GoesOn

LEMMA FlushRunInv ==
    ASSUME Inv, NEW q \in Requests, FlushRun(q)
    PROVE  Inv'
<1> DEFINE t == [req[q] EXCEPT !.op = "insert_matches"]
<1>1. IsRequest(req[q]) /\ Knows(req, req[q]) /\ req[q].op = "flush"
      BY Known, Executed DEF FlushRun
<1>2. IsRequest(t)
      BY <1>1, IsRequestExcept
<1>3. /\ t.op = "insert_matches" /\ t.source = req[q].source /\ t.books = req[q].books
      /\ t.records = req[q].records /\ t.results = req[q].results /\ t.old = req[q].old
      BY <1>1 DEF IsRequest
<1>4. MatchesOf(req, t.old)
      BY <1>1, <1>3 DEF Knows
<1>5. Move(q, t) /\ UNCHANGED <<records, matches>>
      BY DEF FlushRun
<1>6. req[q].op \in Computed /\ t.op \in Computed
      BY <1>1, <1>3 DEF Computed
<1> HIDE DEF t
<1> QED  BY <1>2, <1>3, <1>4, <1>5, <1>6, GoesOn

LEMMA CommitRunInv ==
    ASSUME Inv, NEW q \in Requests, CommitRun(q)
    PROVE  Inv'
<1> DEFINE t == [req[q] EXCEPT !.op = "done", !.old = {}]
           kept == matches \ req[q].old
           new == [by : {q}, result : req[q].results]
<1>1. /\ req = [p \in Requests |-> req[p]] /\ IsRequest(req[q]) /\ Knows(req, req[q])
      /\ FilesOf(req, records) /\ UploadsNeverMix /\ MatchesOf(req, matches)
      /\ req[q].op = "insert_matches"
      BY Known, Executed DEF CommitRun
<1>2. Exact(req[q]) /\ MatchesOf(req, req[q].old)
      BY <1>1 DEF Knows, Computed
<1>3. /\ req' = [req EXCEPT ![q] = t] /\ records' = records
      /\ matches' = kept \cup new
      BY DEF CommitRun, Move
<1>4. IsRequest(t)
      BY <1>1, IsRequestExcept
<1>5. /\ t.op = "done" /\ t.results = req[q].results /\ t.books = req[q].books
      /\ t.records = req[q].records /\ t.old = {}
      BY <1>1 DEF IsRequest
<1>6. Knows(req, t)
  <2> HIDE DEF t
  <2> QED  BY <1>5, Nothing DEF Knows, Importing, Running, Computed
<1> HIDE DEF t
<1>7. RequestsInv(req')
      BY <1>1, <1>3, <1>4, <1>6, RequestStep DEF Inv
<1>8. /\ \A p \in Requests \ {q} : req'[p] = req[p]
      /\ req'[q] = t
      /\ \A S : FilesOf(req, S) => FilesOf(req', S)
      /\ \A S : MatchesOf(req, S) => MatchesOf(req', S)
      BY <1>1, <1>3, OverStays
<1>9. MatchesOf(req', kept)
      BY <1>1, <1>2, <1>8, StillMatched
<1>10. MatchesOf(req', new)
  <2>1. Exact(t)
        BY <1>2, <1>5 DEF Exact
  <2> SUFFICES ASSUME NEW m \in new
               PROVE  /\ m \in [by : Requests, result : req'[m.by].results]
                      /\ req'[m.by].op = "done"
                      /\ Exact(req'[m.by])
                      /\ \A r \in req'[m.by].results : [by |-> m.by, result |-> r] \in new
      BY DEF MatchesOf
  <2>2. m.by = q
        OBVIOUS
  <2> QED  BY <1>5, <1>8, <2>1, <2>2
<1>11. MatchesOf(req', matches')
  <2>1. \A f, S, T : MatchesOf(f, S) /\ MatchesOf(f, T) => MatchesOf(f, S \cup T)
        BY DEF MatchesOf
  <2> HIDE DEF kept, new
  <2> QED  BY <1>3, <1>9, <1>10, <2>1
<1>12. UploadsNeverMix'
  <2>1. \A r \in records : r[1] \in Requests /\ r[1] # q
        BY <1>1 DEF FilesOf, Record
  <2>2. \A r \in records : req'[r[1]] = req[r[1]]
        BY <1>8, <2>1
  <2> QED  BY <1>1, <1>3, <2>2 DEF UploadsNeverMix
<1> QED  BY <1>1, <1>3, <1>7, <1>8, <1>11, <1>12 DEF Inv, StoredInv

-----------------------------------------------------------------------------
LEMMA OverInv ==
    ASSUME Inv, NEW q \in Requests, req[q].op # "done", Move(q, Over(q)),
           UNCHANGED <<records, matches>>
    PROVE  Inv'
<1>1. IsRequest(req[q])
      BY Known
<1>2. IsRequest(Over(q))
      BY <1>1, IsRequestExcept DEF Over
<1>3. Over(q).op = "done" /\ Over(q).old = {}
      BY <1>1 DEF Over, IsRequest
<1>4. Knows(req, Over(q))
      BY <1>3, Nothing DEF Knows, Importing, Running, Computed
<1> QED  BY <1>2, <1>4, QuietStep

LEMMA NextInv ==
    ASSUME Inv, books \subseteq Invoices, [Next]_vars
    PROVE  Inv'
<1>1. CASE UNCHANGED vars
  <2>1. UNCHANGED <<req, records, matches>>
        BY <1>1 DEF vars
  <2> QED  BY <2>1 DEF Inv, StoredInv, UploadsNeverMix
<1>2. ASSUME NEW i \in Invoices, Extract(i)
      PROVE  Inv'
  <2>1. UNCHANGED <<req, records, matches>>
        BY <1>2 DEF Extract
  <2> QED  BY <2>1 DEF Inv, StoredInv, UploadsNeverMix
<1>3. ASSUME NEW q \in Requests, Refuse(q) \/ Deadlock(q) \/ Fail(q)
      PROVE  Inv'
  <2>1. req[q].op # "done"
        BY <1>3, Stopped DEF Refuse, Deadlock, Fail
  <2>2. Move(q, Over(q)) /\ UNCHANGED <<records, matches>>
        BY <1>3 DEF Refuse, Deadlock, Fail
  <2> QED  BY <2>1, <2>2, OverInv
<1>4. ASSUME NEW q \in Requests, BeginImport(q) \/ BeginRun(q)
      PROVE  Inv'
      BY <1>4, BeginImportInv, BeginRunInv
<1>5. ASSUME NEW q \in Requests, Work(q)
      PROVE  Inv'
      BY <1>3, <1>5, DeleteRecordsInv, UnlinkMatchesInv, CommitImportInv, ReadRecordsInv,
         FindRunInv, SnapshotMatchesInv, DeleteMatchesInv, FlushRunInv, CommitRunInv
      DEF Work
<1> QED  BY <1>1, <1>2, <1>3, <1>4, <1>5 DEF Next

LEMMA BooksType == Spec => [](books \subseteq Invoices)
<1>1. Init => books \subseteq Invoices
      BY DEF Init
<1>2. books \subseteq Invoices /\ [Next]_vars => (books \subseteq Invoices)'
      BY DEF Next, vars, Work, BeginImport, DeleteRecords, UnlinkMatches, CommitImport,
             BeginRun, ReadRecords, FindRun, SnapshotMatches, DeleteMatches, FlushRun,
             CommitRun, Refuse, Deadlock, Fail, Extract
<1> QED  BY <1>1, <1>2, PTL DEF Spec

LEMMA Invariance == Spec => []Inv
<1>1. Inv /\ books \subseteq Invoices /\ [Next]_vars => Inv'
      BY NextInv
<1> QED  BY <1>1, InitInv, BooksType, PTL DEF Spec

-----------------------------------------------------------------------------
\* However imports overlap, the rows of a source are those of one file.
THEOREM UploadsAreWhole == Spec => []UploadsNeverMix
<1>1. Inv => UploadsNeverMix
      BY DEF Inv, StoredInv
<1> QED  BY <1>1, Invariance, PTL

\* Each invoice and each record that a run has read is in exactly one of its
\* matches, for any books, files, tolerances and orders of the queries.
THEOREM MatchesAreComplete == Spec => []NothingDropped
<1>1. ASSUME Inv
      PROVE  NothingDropped
  <2> SUFFICES ASSUME NEW q \in Requests, Made(q) # {}
               PROVE  /\ \A i \in req[q].books :
                             Cardinality({r \in Made(q) : r.book = i}) = 1
                      /\ \A j \in req[q].records :
                             Cardinality({r \in Made(q) : r.record = j}) = 1
      BY DEF NothingDropped
  <2>1. PICK m \in matches : m.by = q
        BY DEF Made
  <2>2. MatchesOf(req, matches)
        BY <1>1 DEF Inv, StoredInv
  <2>3. Exact(req[q]) /\ \A r \in req[q].results : [by |-> q, result |-> r] \in matches
        BY <2>1, <2>2 DEF MatchesOf
  <2>4. Made(q) = req[q].results
    <3>1. \A n \in matches : n.by = q => n.result \in req[q].results
          BY <2>2 DEF MatchesOf
    <3>2. \A r \in req[q].results : \E n \in matches : n.by = q /\ n.result = r
          BY <2>3
    <3> QED  BY <3>1, <3>2 DEF Made
  <2> QED  BY <2>3, <2>4 DEF Exact
<1> QED  BY <1>1, Invariance, PTL

-----------------------------------------------------------------------------
\* The foreign key lets a run commit only when its records are still there,
\* and then they are all that the source has.
LEMMA CommitIsCurrent ==
    ASSUME Inv, NEW q \in Requests, CommitRun(q)
    PROVE  req[q].records = RecordsOf(req[q].source)
<1> DEFINE S == req[q].records
<1>1. /\ Knows(req, req[q]) /\ FilesOf(req, records) /\ UploadsNeverMix
      /\ req[q].op = "insert_matches" /\ Referenced(q) \subseteq records
      BY Known, Executed DEF CommitRun, ReferencesHold
<1>2. /\ S # {} /\ FilesOf(req, S) /\ FromSource(req, S, req[q].source) /\ Exact(req[q])
      BY <1>1 DEF Knows, Computed
<1>3. ASSUME NEW j \in S
      PROVE  j \in RecordsOf(req[q].source)
  <2>1. {r \in req[q].results : r.record = j} # {}
        BY <1>2, FS_EmptySet DEF Exact
  <2>2. j # NoRecord
        BY <1>2, RequestsAssumption DEF FilesOf, Record
  <2>3. j \in records
        BY <1>1, <2>1, <2>2 DEF Referenced
  <2> QED  BY <1>2, <2>3 DEF FromSource, RecordsOf
<1>4. ASSUME NEW r \in RecordsOf(req[q].source)
      PROVE  r \in S
  <2>1. PICK u \in S : TRUE
        BY <1>2
  <2>2. u \in records /\ r \in records /\ req[u[1]].source = req[r[1]].source
        BY <1>3, <2>1 DEF RecordsOf
  <2>3. u[1] = r[1]
        BY <1>1, <2>2 DEF UploadsNeverMix
  <2>4. r \in Requests \X Nat /\ r[2] \in DOMAIN req[u[1]].file
        BY <1>1, <2>2, <2>3 DEF FilesOf, Record
  <2>5. <<u[1], r[2]>> \in S
        BY <1>2, <2>1, <2>4 DEF FilesOf
  <2> QED  BY <2>3, <2>4, <2>5
<1> QED  BY <1>3, <1>4

\* A run that commits is about the records its source has at that moment: an
\* import that commits after the run has read them makes the run fail.
RunIsCurrent ==
    [][\A q \in Requests :
          req[q].op = "insert_matches" /\ matches' # matches /\ req'[q].op = "done"
             => req[q].records = RecordsOf(req[q].source)]_vars

\* A run that commits is about the records its source has at that moment.
THEOREM RunsAreCurrent == Spec => RunIsCurrent
<1>1. ASSUME Inv, [Next]_vars, NEW q \in Requests,
             req[q].op = "insert_matches", matches' # matches, req'[q].op = "done"
      PROVE  req[q].records = RecordsOf(req[q].source)
  <2>1. PICK p \in Requests : CommitRun(p)
        BY <1>1 DEF Next, vars, Work, BeginImport, DeleteRecords, UnlinkMatches,
             CommitImport, BeginRun, ReadRecords, FindRun, SnapshotMatches,
             DeleteMatches, FlushRun, Refuse, Deadlock, Fail, Extract
  <2>2. req = [u \in Requests |-> req[u]]
        BY <1>1 DEF Inv, RequestsInv
  <2>3. CASE p = q
        BY <1>1, <2>1, <2>3, CommitIsCurrent
  <2>4. CASE p # q
    <3>1. req'[q] = req[q]
          BY <2>1, <2>2, <2>4 DEF CommitRun, Move
    <3> QED  BY <1>1, <3>1
  <2> QED  BY <2>3, <2>4
<1>2. Inv /\ [Next]_vars =>
         [\A q \in Requests :
             req[q].op = "insert_matches" /\ matches' # matches /\ req'[q].op = "done"
                => req[q].records = RecordsOf(req[q].source)]_vars
      BY <1>1
<1> QED  BY <1>2, Invariance, PTL DEF Spec, RunIsCurrent

-----------------------------------------------------------------------------
(* The row of the run and its matches, as long as no two runs overlap. *)

OneRun == \A p, q \in Requests : IsRun(p) /\ IsRun(q) => p = q

Summarized ==
    /\ matches # {} => run # NoRun
    /\ \A m, n \in matches : m.by = n.by
    /\ \A m \in matches : run = RowOf(req[m.by].source, req[m.by].results)

\* What a run knows of the stored row and matches.
UpToDate(t) ==
    /\ t.op \in {"records", "find"} => t.old = {}
    /\ t.op \in Computed => t.seen = run /\ t.row = RowOf(t.source, t.results)
    /\ t.op \in {"replace", "flush", "insert_matches"} => t.old = matches

SerialInv ==
    /\ run = [c \in Columns |-> run[c]]
    /\ ~ raced => OneRun /\ Summarized /\ \A q \in Requests : UpToDate(req[q])

LEMMA IsRunDef == \A q : IsRun(q) <=> req[q].op \in Running
BY DEF IsRun, Running, Computed

LEMMA SerialStep ==
    ASSUME Inv, SerialInv, NEW q \in Requests, NEW t, Move(q, t), req[q].op # "done",
           UNCHANGED <<run, matches, raced>>,
           t.op \in Running => req[q].op \in Running,
           ~ raced => UpToDate(t)
    PROVE  SerialInv'
<1> SUFFICES ASSUME ~ raced
             PROVE  OneRun' /\ Summarized' /\ (\A p \in Requests : UpToDate(req[p]))'
    BY DEF SerialInv
<1>1. req = [p \in Requests |-> req[p]] /\ MatchesOf(req, matches)
      BY Known
<1>2. /\ \A p \in Requests \ {q} : req'[p] = req[p]
      /\ req'[q] = t
      BY <1>1 DEF Move
<1>3. OneRun'
  <2>1. \A p \in Requests : req'[p].op \in Running => req[p].op \in Running
        BY <1>2
  <2> QED  BY <2>1 DEF SerialInv, OneRun, IsRun, Running, Computed
<1>4. \A m \in matches : req'[m.by] = req[m.by]
  <2>1. \A m \in matches : m.by \in Requests /\ m.by # q
        BY <1>1 DEF MatchesOf
  <2> QED  BY <1>2, <2>1
<1>5. Summarized'
      BY <1>4 DEF SerialInv, Summarized
<1>6. ASSUME NEW p \in Requests
      PROVE  UpToDate(req[p])'
  <2>1. CASE p = q
        BY <1>2, <2>1 DEF SerialInv, UpToDate
  <2>2. CASE p # q
        BY <1>2, <2>2 DEF SerialInv, UpToDate
  <2> QED  BY <2>1, <2>2
<1> QED  BY <1>3, <1>5, <1>6

LEMMA SerialImport ==
    ASSUME Inv, SerialInv, NEW q \in Requests,
           BeginImport(q) \/ DeleteRecords(q) \/ UnlinkMatches(q) \/ CommitImport(q)
    PROVE  SerialInv'
<1>1. IsRequest(req[q])
      BY Known
<1>2. UNCHANGED <<run, matches, raced>>
      BY DEF BeginImport, DeleteRecords, UnlinkMatches, CommitImport
<1>3. req[q].op # "done"
  <2>1. BeginImport(q) => req[q].op = "new"
    <3>1. BeginImport(q) => req[q] = New
          BY DEF BeginImport, IsNext
    <3>2. New.op = "new"
          BY DEF New
    <3> QED  BY <3>1, <3>2
  <2>2. DeleteRecords(q) => req[q].op = "delete"
        BY Executed DEF DeleteRecords
  <2>3. UnlinkMatches(q) => req[q].op = "unlink"
        BY Executed DEF UnlinkMatches
  <2>4. CommitImport(q) => req[q].op = "insert_records"
        BY Executed DEF CommitImport
  <2> QED  BY <2>1, <2>2, <2>3, <2>4
<1>4. \E t : Move(q, t) /\ t.op \in Importing \cup {"done"}
  <2>1. CASE BeginImport(q)
    <3>1. PICK s \in Sources, f \in Files :
              Move(q, [New EXCEPT !.op = "delete", !.source = s, !.file = f,
                                  !.records = RecordsOf(s)])
          BY <2>1 DEF BeginImport
    <3> DEFINE t == [New EXCEPT !.op = "delete", !.source = s, !.file = f,
                                !.records = RecordsOf(s)]
    <3>2. t.op = "delete"
          BY DEF New
    <3>3. Move(q, t)
          BY <3>1
    <3> HIDE DEF t
    <3> QED  BY <3>2, <3>3 DEF Importing
  <2>2. CASE DeleteRecords(q)
    <3> DEFINE t == [req[q] EXCEPT !.op = "unlink", !.records = req[q].records \cap records]
    <3>1. t.op = "unlink"
          BY <1>1 DEF IsRequest
    <3>2. Move(q, t)
          BY <2>2 DEF DeleteRecords
    <3> HIDE DEF t
    <3> QED  BY <3>1, <3>2 DEF Importing
  <2>3. CASE UnlinkMatches(q)
    <3> DEFINE t == [req[q] EXCEPT !.op = "insert_records"]
    <3>1. t.op = "insert_records"
          BY <1>1 DEF IsRequest
    <3>2. Move(q, t)
          BY <2>3 DEF UnlinkMatches
    <3> HIDE DEF t
    <3> QED  BY <3>1, <3>2 DEF Importing
  <2>4. CASE CommitImport(q)
    <3> DEFINE t == [req[q] EXCEPT !.op = "done", !.records = {}]
    <3>1. t.op = "done"
          BY <1>1 DEF IsRequest
    <3>2. Move(q, t)
          BY <2>4 DEF CommitImport
    <3> HIDE DEF t
    <3> QED  BY <3>1, <3>2
  <2> QED  BY <2>1, <2>2, <2>3, <2>4
<1>5. PICK t : Move(q, t) /\ t.op \in Importing \cup {"done"}
      BY <1>4
<1>6. UpToDate(t) /\ t.op \notin Running
      BY <1>5 DEF UpToDate, Importing, Running, Computed
<1> QED  BY <1>2, <1>3, <1>5, <1>6, SerialStep

LEMMA SerialBegin ==
    ASSUME Inv, SerialInv, NEW q \in Requests, BeginRun(q)
    PROVE  SerialInv'
<1>1. PICK s \in Sources : Move(q, [New EXCEPT !.op = "records", !.source = s,
                                               !.books = books])
      BY DEF BeginRun
<1>2. UNCHANGED <<run, matches>> /\ (~ raced' => ~ raced /\ \A p \in Requests : ~ IsRun(p))
      BY DEF BeginRun
<1>3. run' = [c \in Columns |-> run'[c]]
      BY <1>2 DEF SerialInv
<1> SUFFICES ASSUME ~ raced'
             PROVE  OneRun' /\ Summarized' /\ (\A p \in Requests : UpToDate(req[p]))'
    BY <1>3 DEF SerialInv
<1>4. req = [p \in Requests |-> req[p]] /\ MatchesOf(req, matches) /\ req[q].op # "done"
      BY Known DEF BeginRun, IsNext, New
<1> DEFINE t == [New EXCEPT !.op = "records", !.source = s, !.books = books]
<1>5. t.op = "records" /\ t.old = {}
      BY DEF New
<1>6. /\ \A p \in Requests \ {q} : req'[p] = req[p]
      /\ req'[q] = t
      BY <1>1, <1>4 DEF Move
<1> HIDE DEF t
<1>7. OneRun'
  <2>1. \A p \in Requests \ {q} : ~ IsRun(p)'
        BY <1>2, <1>6 DEF IsRun
  <2> QED  BY <2>1 DEF OneRun
<1>8. \A m \in matches : req'[m.by] = req[m.by]
  <2>1. \A m \in matches : m.by \in Requests /\ m.by # q
        BY <1>4 DEF MatchesOf
  <2> QED  BY <1>6, <2>1
<1>9. Summarized'
      BY <1>2, <1>8 DEF SerialInv, Summarized
<1>10. ASSUME NEW p \in Requests
       PROVE  UpToDate(req[p])'
  <2>1. CASE p = q
        BY <1>5, <1>6, <2>1 DEF UpToDate, Computed
  <2>2. CASE p # q
        BY <1>2, <1>6, <2>2 DEF SerialInv, UpToDate
  <2> QED  BY <2>1, <2>2
<1> QED  BY <1>7, <1>9, <1>10

LEMMA SerialWork ==
    ASSUME Inv, SerialInv, NEW q \in Requests,
           \/ ReadRecords(q) \/ FindRun(q) \/ SnapshotMatches(q)
           \/ DeleteMatches(q) \/ FlushRun(q)
    PROVE  SerialInv'
<1>1. IsRequest(req[q])
      BY Known
<1>2. UNCHANGED <<run, matches, raced>>
      BY DEF ReadRecords, FindRun, SnapshotMatches, DeleteMatches, FlushRun
<1>3. req[q].op \in Running /\ req[q].op # "done"
  <2>1. req[q].op \in {"records", "find", "snapshot", "replace", "flush"}
        BY Executed DEF ReadRecords, FindRun, SnapshotMatches, DeleteMatches, FlushRun
  <2> QED  BY <2>1 DEF Running, Computed
<1>4. ~ raced => UpToDate(req[q]) /\ Summarized
      BY DEF SerialInv
<1>5. \E t : Move(q, t) /\ (~ raced => UpToDate(t))
  <2>1. CASE ReadRecords(q)
    <3> DEFINE t == [req[q] EXCEPT !.op = "find", !.records = RecordsOf(req[q].source)]
    <3>1. Move(q, t) /\ req[q].op = "records"
          BY <2>1, Executed DEF ReadRecords
    <3>2. t.op = "find" /\ t.old = req[q].old
          BY <1>1 DEF IsRequest
    <3> HIDE DEF t
    <3>3. ~ raced => UpToDate(t)
          BY <1>4, <3>1, <3>2 DEF UpToDate, Computed
    <3> QED  BY <3>1, <3>3
  <2>2. CASE FindRun(q)
    <3>1. PICK results \in ResultsOf(q) :
              Move(q, [req[q] EXCEPT !.op = IF run = NoRun THEN "flush" ELSE "snapshot",
                                     !.seen = run, !.results = results,
                                     !.row = RowOf(req[q].source, results)])
          BY <2>2 DEF FindRun
    <3> DEFINE next == IF run = NoRun THEN "flush" ELSE "snapshot"
               row == RowOf(req[q].source, results)
               t == [req[q] EXCEPT !.op = next, !.seen = run, !.results = results,
                                   !.row = row]
    <3>2. /\ t.op = next /\ t.seen = run /\ t.results = results /\ t.row = row
          /\ t.source = req[q].source /\ t.old = req[q].old
      <4> HIDE DEF next, row
      <4> QED  BY <1>1 DEF IsRequest
    <3>3. req[q].op = "find"
          BY <2>2, Executed DEF FindRun
    <3> HIDE DEF t
    <3>4. ~ raced => UpToDate(t)
      <4> SUFFICES ASSUME ~ raced
                   PROVE  UpToDate(t)
          OBVIOUS
      <4>1. t.old = {}
            BY <1>4, <3>2, <3>3 DEF UpToDate
      <4>2. next = "flush" => matches = {}
            BY <1>4 DEF Summarized
      <4>3. next \in {"flush", "snapshot"}
            OBVIOUS
      <4> HIDE DEF next
      <4> QED  BY <3>2, <4>1, <4>2, <4>3 DEF UpToDate, Computed
    <3> QED  BY <3>1, <3>4 DEF t
  <2>3. CASE SnapshotMatches(q)
    <3> DEFINE t == [req[q] EXCEPT !.op = "replace", !.old = matches]
    <3>1. Move(q, t) /\ req[q].op = "snapshot"
          BY <2>3, Executed DEF SnapshotMatches
    <3>2. /\ t.op = "replace" /\ t.old = matches /\ t.seen = req[q].seen
          /\ t.row = req[q].row /\ t.source = req[q].source /\ t.results = req[q].results
          BY <1>1 DEF IsRequest
    <3> HIDE DEF t
    <3>3. ~ raced => UpToDate(t)
          BY <1>4, <3>1, <3>2 DEF UpToDate, Computed
    <3> QED  BY <3>1, <3>3
  <2>4. CASE DeleteMatches(q)
    <3> DEFINE t == [req[q] EXCEPT !.op = "flush", !.old = req[q].old \cap matches]
    <3>1. Move(q, t) /\ req[q].op = "replace"
          BY <2>4, Executed DEF DeleteMatches
    <3>2. /\ t.op = "flush" /\ t.old = req[q].old \cap matches /\ t.seen = req[q].seen
          /\ t.row = req[q].row /\ t.source = req[q].source /\ t.results = req[q].results
          BY <1>1 DEF IsRequest
    <3> HIDE DEF t
    <3>3. ~ raced => UpToDate(t)
          BY <1>4, <3>1, <3>2 DEF UpToDate, Computed
    <3> QED  BY <3>1, <3>3
  <2>5. CASE FlushRun(q)
    <3> DEFINE t == [req[q] EXCEPT !.op = "insert_matches"]
    <3>1. Move(q, t) /\ req[q].op = "flush"
          BY <2>5, Executed DEF FlushRun
    <3>2. /\ t.op = "insert_matches" /\ t.old = req[q].old /\ t.seen = req[q].seen
          /\ t.row = req[q].row /\ t.source = req[q].source /\ t.results = req[q].results
          BY <1>1 DEF IsRequest
    <3> HIDE DEF t
    <3>3. ~ raced => UpToDate(t)
          BY <1>4, <3>1, <3>2 DEF UpToDate, Computed
    <3> QED  BY <3>1, <3>3
  <2> QED  BY <2>1, <2>2, <2>3, <2>4, <2>5
<1> QED  BY <1>2, <1>3, <1>5, SerialStep

LEMMA SerialCommit ==
    ASSUME Inv, SerialInv, NEW q \in Requests, CommitRun(q)
    PROVE  SerialInv'
<1>1. /\ req = [p \in Requests |-> req[p]] /\ IsRequest(req[q]) /\ Knows(req, req[q])
      /\ req[q].op = "insert_matches"
      BY Known, Executed DEF CommitRun
<1>2. /\ run' = [c \in Columns |-> IF c \in Changed(q) THEN req[q].row[c] ELSE run[c]]
      /\ matches' = (matches \ req[q].old) \cup [by : {q}, result : req[q].results]
      /\ req' = [req EXCEPT ![q] = [req[q] EXCEPT !.op = "done", !.old = {}]]
      /\ raced' = raced
      BY DEF CommitRun, Move
<1>3. run' = [c \in Columns |-> run'[c]]
      BY <1>2
<1> SUFFICES ASSUME ~ raced
             PROVE  OneRun' /\ Summarized' /\ (\A p \in Requests : UpToDate(req[p]))'
    BY <1>2, <1>3 DEF SerialInv
<1>4. /\ req[q].seen = run /\ req[q].old = matches
      /\ req[q].row = RowOf(req[q].source, req[q].results)
      BY <1>1 DEF SerialInv, UpToDate, Computed
<1>5. /\ \A p \in Requests \ {q} : req'[p] = req[p]
      /\ req'[q].op = "done" /\ req'[q].source = req[q].source
      /\ req'[q].results = req[q].results
      BY <1>1, <1>2 DEF IsRequest
<1>6. \A p \in Requests : req'[p].op \notin Running
  <2>1. \A p \in Requests \ {q} : req[p].op \notin Running
        BY <1>1, IsRunDef DEF SerialInv, OneRun, Running, Computed
  <2> QED  BY <1>5, <2>1 DEF Running, Computed
<1>7. OneRun'
      BY <1>6 DEF OneRun, IsRun, Running, Computed
<1>8. run' = RowOf(req[q].source, req[q].results)
  <2>1. \A c \in Columns : run'[c] = req[q].row[c]
    <3>1. \A c \in Columns : c \notin Changed(q) => req[q].row[c] = run[c]
          BY <1>4 DEF Changed
    <3> QED  BY <1>2, <3>1
  <2>2. req[q].row = [c \in Columns |-> req[q].row[c]]
        BY <1>4 DEF RowOf
  <2> QED  BY <1>3, <1>4, <2>1, <2>2
<1>9. run' # NoRun
  <2>1. "source" \in Columns
        BY DEF Columns
  <2>2. run'["source"] = req[q].source
        BY <1>8, <2>1 DEF RowOf
  <2>3. NoRun["source"] = NoSource
        BY <2>1 DEF NoRun
  <2>4. req[q].source \in Sources
        BY <1>1 DEF Knows, Running, Computed
  <2> QED  BY <2>2, <2>3, <2>4, RequestsAssumption
<1>10. \A m \in matches' : m.by = q
       BY <1>2, <1>4
<1>11. Summarized'
       BY <1>5, <1>8, <1>9, <1>10 DEF Summarized
<1>12. ASSUME NEW p \in Requests
       PROVE  UpToDate(req[p])'
       BY <1>6 DEF UpToDate, Running, Computed
<1> QED  BY <1>7, <1>11, <1>12

LEMMA SerialNext ==
    ASSUME Inv, SerialInv, [Next]_vars
    PROVE  SerialInv'
<1>1. ASSUME UNCHANGED vars \/ \E i \in Invoices : Extract(i)
      PROVE  SerialInv'
  <2>1. UNCHANGED <<run, matches, req, raced>>
        BY <1>1 DEF vars, Extract
  <2> QED  BY <2>1 DEF SerialInv, OneRun, IsRun, Summarized, UpToDate
<1>2. ASSUME NEW q \in Requests, Refuse(q) \/ Deadlock(q) \/ Fail(q)
      PROVE  SerialInv'
  <2>1. req[q].op # "done"
        BY <1>2, Stopped DEF Refuse, Deadlock, Fail
  <2>2. Move(q, Over(q)) /\ UNCHANGED <<run, matches, raced>>
        BY <1>2 DEF Refuse, Deadlock, Fail
  <2>3. IsRequest(req[q])
        BY Known
  <2>4. Over(q).op = "done"
        BY <2>3 DEF Over, IsRequest
  <2>5. UpToDate(Over(q)) /\ Over(q).op \notin Running
        BY <2>4 DEF UpToDate, Running, Computed
  <2> QED  BY <2>1, <2>2, <2>5, SerialStep
<1>3. ASSUME NEW q \in Requests, BeginImport(q) \/ BeginRun(q)
      PROVE  SerialInv'
      BY <1>3, SerialImport, SerialBegin
<1>4. ASSUME NEW q \in Requests, Work(q)
      PROVE  SerialInv'
      BY <1>2, <1>4, SerialImport, SerialWork, SerialCommit DEF Work
<1> QED  BY <1>1, <1>2, <1>3, <1>4 DEF Next

LEMMA SerialInvariance == Spec => []SerialInv
<1>1. Init => SerialInv
  <2> SUFFICES ASSUME Init
               PROVE  SerialInv
      OBVIOUS
  <2>1. \A q \in Requests : req[q].op = "new"
        BY DEF Init, New
  <2>2. run = [c \in Columns |-> run[c]]
        BY DEF Init, NoRun
  <2>3. OneRun /\ \A q \in Requests : UpToDate(req[q])
        BY <2>1 DEF OneRun, IsRun, UpToDate, Computed
  <2>4. Summarized
        BY DEF Init, Summarized
  <2> QED  BY <2>2, <2>3, <2>4 DEF SerialInv
<1>2. Inv /\ SerialInv /\ [Next]_vars => SerialInv'
      BY SerialNext
<1> QED  BY <1>1, <1>2, Invariance, PTL DEF Spec

\* Re-running replaces: as long as no two runs overlap, the matches are those
\* of one request and the row of the run is their summary.
RunIsItsMatches ==
    ~ raced /\ matches # {} =>
        \E q \in Requests :
            /\ \A m \in matches : m.by = q
            /\ run = RowOf(req[q].source, {m.result : m \in matches})

\* As long as no two runs overlap, the matches of the run are those of one
\* request and its row is their summary.
THEOREM RunsAreSummaries == Spec => []RunIsItsMatches
<1>1. ASSUME Inv, SerialInv
      PROVE  RunIsItsMatches
  <2> SUFFICES ASSUME ~ raced, matches # {}
               PROVE  \E q \in Requests :
                          /\ \A m \in matches : m.by = q
                          /\ run = RowOf(req[q].source, {m.result : m \in matches})
      BY DEF RunIsItsMatches
  <2>1. PICK n \in matches : TRUE
        OBVIOUS
  <2>2. MatchesOf(req, matches)
        BY <1>1 DEF Inv, StoredInv
  <2>3. Summarized
        BY <1>1 DEF SerialInv
  <2>4. n.by \in Requests /\ \A m \in matches : m.by = n.by
        BY <2>1, <2>2, <2>3 DEF MatchesOf, Summarized
  <2>5. {m.result : m \in matches} = req[n.by].results
    <3>1. \A m \in matches : m.result \in req[n.by].results
          BY <2>2, <2>4 DEF MatchesOf
    <3>2. \A r \in req[n.by].results : \E m \in matches : m.result = r
      <4>1. \A r \in req[n.by].results : [by |-> n.by, result |-> r] \in matches
            BY <2>1, <2>2 DEF MatchesOf
      <4> QED  BY <4>1
    <3> QED  BY <3>1, <3>2
  <2> QED  BY <2>1, <2>3, <2>4, <2>5 DEF Summarized
<1> QED  BY <1>1, Invariance, SerialInvariance, PTL

-----------------------------------------------------------------------------
(* The credit of a run and what covers it. *)

\* The folds of the property are sums.
LEMMA SumOfBooks ==
    ASSUME NEW S, IsFiniteSet(S), NEW f, \A x \in S : f[x] = BookEntry[x].tax
    PROVE  MapThenSumSet(LAMBDA i : BookEntry[i].tax, S) = Total(f, S)
<1> DEFINE iter == CHOOSE g : g = [s \in SUBSET S |->
                       IF s = {} THEN 0
                       ELSE BookEntry[Pick(s)].tax + g[s \ {Pick(s)}]]
<1>1. \A g : Sums(f, S, g) <=>
         g = [s \in SUBSET S |->
                 IF s = {} THEN 0 ELSE BookEntry[Pick(s)].tax + g[s \ {Pick(s)}]]
  <2>1. \A s \in SUBSET S : s # {} => f[Pick(s)] = BookEntry[Pick(s)].tax
        BY DEF Pick
  <2> QED  BY <2>1 DEF Sums
<1>2. \E g : Sums(f, S, g)
      BY SumsExist
<1>3. Sums(f, S, iter)
      BY <1>1, <1>2
<1>4. MapThenSumSet(LAMBDA i : BookEntry[i].tax, S) = iter[S]
      BY DEF MapThenSumSet, MapThenFoldSet, Pick
<1> HIDE DEF iter
<1>5. S \in SUBSET S
      OBVIOUS
<1> QED  BY <1>3, <1>4, <1>5, TotalIs

LEMMA SumOfRecords ==
    ASSUME NEW S, IsFiniteSet(S), NEW f, \A x \in S : f[x] = RecordEntry(x).tax
    PROVE  MapThenSumSet(LAMBDA r : RecordEntry(r).tax, S) = Total(f, S)
<1> DEFINE iter == CHOOSE g : g = [s \in SUBSET S |->
                       IF s = {} THEN 0
                       ELSE RecordEntry(Pick(s)).tax + g[s \ {Pick(s)}]]
<1>1. \A g : Sums(f, S, g) <=>
         g = [s \in SUBSET S |->
                 IF s = {} THEN 0 ELSE RecordEntry(Pick(s)).tax + g[s \ {Pick(s)}]]
  <2>1. \A s \in SUBSET S : s # {} => f[Pick(s)] = RecordEntry(Pick(s)).tax
        BY DEF Pick
  <2> QED  BY <2>1 DEF Sums
<1>2. \E g : Sums(f, S, g)
      BY SumsExist
<1>3. Sums(f, S, iter)
      BY <1>1, <1>2
<1>4. MapThenSumSet(LAMBDA r : RecordEntry(r).tax, S) = iter[S]
      BY DEF MapThenSumSet, MapThenFoldSet, Pick
<1> HIDE DEF iter
<1>5. S \in SUBSET S
      OBVIOUS
<1> QED  BY <1>3, <1>4, <1>5, TotalIs

Claims(S) == [i \in S |-> BookEntry[i].tax]
Reports(f, S) == [r \in S |-> f[r[1]].file[r[2]].tax]

\* The row of t covers the credit claimed beyond what is reported.
Covers(f, t) ==
    Total(Claims(t.books), t.books)
        - (Total(Reports(f, t.records), t.records) - t.row["unclaimed"])
    <= t.row["itc_at_risk"] + TaxTolerance * t.row["matched"]

\* So it does from the moment it is computed, and the files it is about stay.
Fits(f, t) ==
    /\ t.op \in Importing => t.results = {}
    /\ t.op \in Computed \/ (t.op = "done" /\ t.results # {}) =>
           /\ IsFiniteSet(t.books) /\ IsFiniteSet(t.records)
           /\ FilesOf(f, t.records) /\ Covers(f, t)

Covered == \A q \in Requests : Fits(req, req[q])

LEMMA FitsStep ==
    ASSUME Inv, Covered, NEW q \in Requests, NEW t, Move(q, t), req[q].op # "done",
           Fits(req, t)
    PROVE  Covered'
<1>1. req = [p \in Requests |-> req[p]]
      BY Known
<1>2. /\ \A p \in Requests \ {q} : req'[p] = req[p]
      /\ req'[q] = t
      /\ \A S : FilesOf(req, S) => FilesOf(req', S)
      BY <1>1, OverStays DEF Move
<1>3. ASSUME NEW S, FilesOf(req, S)
      PROVE  Reports(req', S) = Reports(req, S)
  <2>1. \A r \in S : r[1] \in Requests /\ r[1] # q
        BY <1>3 DEF FilesOf, Record
  <2>2. \A r \in S : req'[r[1]] = req[r[1]]
        BY <1>2, <2>1
  <2> QED  BY <2>2 DEF Reports
<1>4. \A u : Fits(req, u) => Fits(req', u)
      BY <1>2, <1>3 DEF Fits, Covers
<1>5. ASSUME NEW p \in Requests
      PROVE  Fits(req', req'[p])
  <2>1. CASE p = q
        BY <1>2, <1>4, <2>1
  <2>2. CASE p # q
        BY <1>2, <1>4, <2>2 DEF Covered
  <2> QED  BY <2>1, <2>2
<1> QED  BY <1>5 DEF Covered

LEMMA FitsImport ==
    ASSUME Inv, Covered, NEW q \in Requests,
           BeginImport(q) \/ DeleteRecords(q) \/ UnlinkMatches(q) \/ CommitImport(q)
    PROVE  Covered'
<1>1. IsRequest(req[q]) /\ Fits(req, req[q])
      BY Known DEF Covered
<1>2. \E t : /\ Move(q, t) /\ req[q].op # "done"
             /\ t.op \in Importing \cup {"done"} /\ t.results = {}
  <2>1. CASE BeginImport(q)
    <3>1. PICK s \in Sources, f \in Files :
              Move(q, [New EXCEPT !.op = "delete", !.source = s, !.file = f,
                                  !.records = RecordsOf(s)])
          BY <2>1 DEF BeginImport
    <3> DEFINE t == [New EXCEPT !.op = "delete", !.source = s, !.file = f,
                                !.records = RecordsOf(s)]
    <3>2. t.op = "delete" /\ t.results = {} /\ New.op = "new"
          BY DEF New
    <3>3. Move(q, t) /\ req[q] = New
          BY <2>1, <3>1 DEF BeginImport, IsNext
    <3> HIDE DEF t
    <3> QED  BY <3>2, <3>3 DEF Importing
  <2>2. CASE DeleteRecords(q)
    <3> DEFINE t == [req[q] EXCEPT !.op = "unlink", !.records = req[q].records \cap records]
    <3>1. t.op = "unlink" /\ t.results = req[q].results
          BY <1>1 DEF IsRequest
    <3>2. Move(q, t) /\ req[q].op = "delete"
          BY <2>2, Executed DEF DeleteRecords
    <3> HIDE DEF t
    <3> QED  BY <1>1, <3>1, <3>2 DEF Fits, Importing
  <2>3. CASE UnlinkMatches(q)
    <3> DEFINE t == [req[q] EXCEPT !.op = "insert_records"]
    <3>1. t.op = "insert_records" /\ t.results = req[q].results
          BY <1>1 DEF IsRequest
    <3>2. Move(q, t) /\ req[q].op = "unlink"
          BY <2>3, Executed DEF UnlinkMatches
    <3> HIDE DEF t
    <3> QED  BY <1>1, <3>1, <3>2 DEF Fits, Importing
  <2>4. CASE CommitImport(q)
    <3> DEFINE t == [req[q] EXCEPT !.op = "done", !.records = {}]
    <3>1. t.op = "done" /\ t.results = req[q].results
          BY <1>1 DEF IsRequest
    <3>2. Move(q, t) /\ req[q].op = "insert_records"
          BY <2>4, Executed DEF CommitImport
    <3> HIDE DEF t
    <3> QED  BY <1>1, <3>1, <3>2 DEF Fits, Importing
  <2> QED  BY <2>1, <2>2, <2>3, <2>4
<1>3. PICK t : /\ Move(q, t) /\ req[q].op # "done"
               /\ t.op \in Importing \cup {"done"} /\ t.results = {}
      BY <1>2
<1>4. Fits(req, t)
      BY <1>3 DEF Fits, Importing, Computed
<1> QED  BY <1>3, <1>4, FitsStep

\* A row that is computed covers the credit of the books and the records read.
LEMMA ComputedCovers ==
    ASSUME Inv, NEW q \in Requests, req[q].op = "find", NEW results \in ResultsOf(q),
           NEW t, t.books = req[q].books, t.records = req[q].records,
           t.row = RowOf(req[q].source, results)
    PROVE  /\ IsFiniteSet(t.books) /\ IsFiniteSet(t.records)
           /\ FilesOf(req, t.records) /\ Covers(req, t)
<1> DEFINE inv == [i \in req[q].books |-> BookEntry[i]]
           rec == [r \in req[q].records |-> RecordEntry(r)]
           claims == Claims(req[q].books)
           reports == Reports(req, req[q].records)
<1>0. Knows(req, req[q])
      BY Known
<1>1. /\ req[q].books \subseteq Invoices
      /\ FilesOf(req, req[q].records) /\ OneFile(req[q].records)
      BY <1>0 DEF Knows, Running, Computed
<1>2. DOMAIN inv = req[q].books /\ DOMAIN rec = req[q].records
      OBVIOUS
<1>3. PICK bo \in Orders(req[q].books), ro \in Orders(req[q].records) :
          results = Reconcile(inv, bo, rec, ro)
      BY <1>2 DEF ResultsOf, Outcomes
<1>4. IsFiniteSet(req[q].books) /\ IsFiniteSet(req[q].records)
      BY <1>1, OneFileIsFinite, FS_Subset, RequestsAssumption
<1>5. NoBook \notin req[q].books /\ NoRecord \notin req[q].records
      BY <1>1, RequestsAssumption DEF FilesOf, Record
<1>6. /\ \A i \in DOMAIN inv : inv[i] \in Entry
      /\ \A i \in DOMAIN inv : claims[i] = inv[i].tax
      BY <1>1, RequestsAssumption DEF Claims
<1>7. \A r \in DOMAIN rec : rec[r] \in Entry
  <2> SUFFICES ASSUME NEW r \in req[q].records
               PROVE  rec[r] \in Entry
      OBVIOUS
  <2>1. req[r[1]].file \in Seq(Entry) /\ r[2] \in DOMAIN req[r[1]].file
        BY <1>1, RequestsAssumption DEF FilesOf
  <2>2. req[r[1]].file[r[2]] \in Entry
        BY <2>1
  <2> QED  BY <2>2 DEF RecordEntry
<1>8. \A r \in DOMAIN rec : reports[r] = rec[r].tax
      BY DEF Reports, RecordEntry
<1> DEFINE sum == Summarize(Reconcile(inv, bo, rec, ro))
<1> HIDE DEF inv, rec, claims, reports
<1>9. IsList(inv, bo) /\ IsList(rec, ro)
      BY <1>2, <1>4, OrdersAreLists
<1>10. NoBook \notin DOMAIN inv /\ NoRecord \notin DOMAIN rec
       BY <1>2, <1>5
<1>11. Total(claims, DOMAIN inv) - (Total(reports, DOMAIN rec) - sum.unclaimed)
           <= sum.itc_at_risk + TaxTolerance * sum.matched
       BY <1>6, <1>7, <1>8, <1>9, <1>10, CreditIsCovered
<1>12. sum = Summarize(results)
       BY <1>3
<1>13. /\ t.row["unclaimed"] = sum["unclaimed"]
       /\ t.row["itc_at_risk"] = sum["itc_at_risk"]
       /\ t.row["matched"] = sum["matched"]
  <2> HIDE DEF sum
  <2> QED  BY <1>12 DEF RowOf, Columns
<1> HIDE DEF sum
<1>14. Covers(req, t)
       BY <1>2, <1>11, <1>13 DEF Covers, claims, reports
<1> QED  BY <1>1, <1>4, <1>14

LEMMA FitsRun ==
    ASSUME Inv, Covered, NEW q \in Requests, BeginRun(q) \/ ReadRecords(q) \/ FindRun(q)
    PROVE  Covered'
<1>1. IsRequest(req[q])
      BY Known
<1>2. CASE BeginRun(q)
  <2>1. PICK s \in Sources : Move(q, [New EXCEPT !.op = "records", !.source = s,
                                                 !.books = books])
        BY <1>2 DEF BeginRun
  <2> DEFINE t == [New EXCEPT !.op = "records", !.source = s, !.books = books]
  <2>2. t.op = "records" /\ New.op = "new"
        BY DEF New
  <2>3. Move(q, t) /\ req[q] = New
        BY <1>2, <2>1 DEF BeginRun, IsNext
  <2> HIDE DEF t
  <2>4. Fits(req, t)
        BY <2>2 DEF Fits, Importing, Computed
  <2> QED  BY <2>2, <2>3, <2>4, FitsStep
<1>3. CASE ReadRecords(q)
  <2> DEFINE t == [req[q] EXCEPT !.op = "find", !.records = RecordsOf(req[q].source)]
  <2>1. t.op = "find"
        BY <1>1 DEF IsRequest
  <2>2. Move(q, t) /\ req[q].op = "records"
        BY <1>3, Executed DEF ReadRecords
  <2> HIDE DEF t
  <2>3. Fits(req, t)
        BY <2>1 DEF Fits, Importing, Computed
  <2> QED  BY <2>2, <2>3, FitsStep
<1>4. CASE FindRun(q)
  <2>1. PICK results \in ResultsOf(q) :
            Move(q, [req[q] EXCEPT !.op = IF run = NoRun THEN "flush" ELSE "snapshot",
                                   !.seen = run, !.results = results,
                                   !.row = RowOf(req[q].source, results)])
        BY <1>4 DEF FindRun
  <2> DEFINE next == IF run = NoRun THEN "flush" ELSE "snapshot"
             row == RowOf(req[q].source, results)
             t == [req[q] EXCEPT !.op = next, !.seen = run, !.results = results,
                                 !.row = row]
  <2>2. /\ t.op = next /\ t.row = row
        /\ t.books = req[q].books /\ t.records = req[q].records
    <3> HIDE DEF next, row
    <3> QED  BY <1>1 DEF IsRequest
  <2>3. t.op \notin Importing
        BY <2>2 DEF Importing
  <2>4. Move(q, t) /\ req[q].op = "find"
        BY <1>4, <2>1, Executed DEF FindRun
  <2> HIDE DEF t
  <2>5. Fits(req, t)
        BY <2>2, <2>3, <2>4, ComputedCovers DEF Fits
  <2> QED  BY <2>4, <2>5, FitsStep
<1> QED  BY <1>2, <1>3, <1>4

LEMMA FitsOn ==
    ASSUME Inv, Covered, NEW q \in Requests,
           SnapshotMatches(q) \/ DeleteMatches(q) \/ FlushRun(q) \/ CommitRun(q)
    PROVE  Covered'
<1>1. IsRequest(req[q]) /\ Fits(req, req[q])
      BY Known DEF Covered
<1>2. req[q].op \in Computed
      BY Executed DEF SnapshotMatches, DeleteMatches, FlushRun, CommitRun, Computed
<1>3. \E t : /\ Move(q, t) /\ t.op \in Computed \cup {"done"}
             /\ t.books = req[q].books /\ t.records = req[q].records
             /\ t.row = req[q].row
  <2>1. CASE SnapshotMatches(q)
    <3> DEFINE t == [req[q] EXCEPT !.op = "replace", !.old = matches]
    <3>1. /\ t.op = "replace" /\ t.books = req[q].books /\ t.records = req[q].records
          /\ t.row = req[q].row
          BY <1>1 DEF IsRequest
    <3>2. Move(q, t)
          BY <2>1 DEF SnapshotMatches
    <3> HIDE DEF t
    <3> QED  BY <3>1, <3>2 DEF Computed
  <2>2. CASE DeleteMatches(q)
    <3> DEFINE t == [req[q] EXCEPT !.op = "flush", !.old = req[q].old \cap matches]
    <3>1. /\ t.op = "flush" /\ t.books = req[q].books /\ t.records = req[q].records
          /\ t.row = req[q].row
          BY <1>1 DEF IsRequest
    <3>2. Move(q, t)
          BY <2>2 DEF DeleteMatches
    <3> HIDE DEF t
    <3> QED  BY <3>1, <3>2 DEF Computed
  <2>3. CASE FlushRun(q)
    <3> DEFINE t == [req[q] EXCEPT !.op = "insert_matches"]
    <3>1. /\ t.op = "insert_matches" /\ t.books = req[q].books
          /\ t.records = req[q].records /\ t.row = req[q].row
          BY <1>1 DEF IsRequest
    <3>2. Move(q, t)
          BY <2>3 DEF FlushRun
    <3> HIDE DEF t
    <3> QED  BY <3>1, <3>2 DEF Computed
  <2>4. CASE CommitRun(q)
    <3> DEFINE t == [req[q] EXCEPT !.op = "done", !.old = {}]
    <3>1. /\ t.op = "done" /\ t.books = req[q].books /\ t.records = req[q].records
          /\ t.row = req[q].row
          BY <1>1 DEF IsRequest
    <3>2. Move(q, t)
          BY <2>4 DEF CommitRun
    <3> HIDE DEF t
    <3> QED  BY <3>1, <3>2
  <2> QED  BY <2>1, <2>2, <2>3, <2>4
<1>4. PICK t : /\ Move(q, t) /\ t.op \in Computed \cup {"done"}
               /\ t.books = req[q].books /\ t.records = req[q].records
               /\ t.row = req[q].row
      BY <1>3
<1>5. t.op \notin Importing /\ req[q].op # "done"
      BY <1>2, <1>4 DEF Importing, Computed
<1>6. Fits(req, t)
      BY <1>1, <1>2, <1>4, <1>5 DEF Fits, Covers
<1> QED  BY <1>4, <1>5, <1>6, FitsStep

LEMMA FitsNext ==
    ASSUME Inv, Covered, [Next]_vars
    PROVE  Covered'
<1>1. ASSUME UNCHANGED vars \/ \E i \in Invoices : Extract(i)
      PROVE  Covered'
  <2>1. UNCHANGED req
        BY <1>1 DEF vars, Extract
  <2> QED  BY <2>1 DEF Covered
<1>2. ASSUME NEW q \in Requests, Refuse(q) \/ Deadlock(q) \/ Fail(q)
      PROVE  Covered'
  <2>1. req[q].op # "done"
        BY <1>2, Stopped DEF Refuse, Deadlock, Fail
  <2>2. Move(q, Over(q))
        BY <1>2 DEF Refuse, Deadlock, Fail
  <2>3. IsRequest(req[q])
        BY Known
  <2>4. Over(q).op = "done" /\ Over(q).results = {}
        BY <2>3 DEF Over, IsRequest
  <2>5. Fits(req, Over(q))
        BY <2>4 DEF Fits, Importing, Computed
  <2> QED  BY <2>1, <2>2, <2>5, FitsStep
<1>3. ASSUME NEW q \in Requests, BeginImport(q) \/ BeginRun(q)
      PROVE  Covered'
      BY <1>3, FitsImport, FitsRun
<1>4. ASSUME NEW q \in Requests, Work(q)
      PROVE  Covered'
      BY <1>2, <1>4, FitsImport, FitsRun, FitsOn DEF Work
<1> QED  BY <1>1, <1>2, <1>3, <1>4 DEF Next

\* The credit claimed in the books a run has read, beyond what the suppliers of
\* the paired invoices have reported, is at risk in its row, up to the tolerance
\* of each matched pair: for any books, files, tolerances and interleavings.
THEOREM RiskIsCovered == Spec => []RiskCoversExcess
<1>1. Init => Covered
  <2> SUFFICES ASSUME Init
               PROVE  Covered
      OBVIOUS
  <2>1. \A q \in Requests : req[q].op = "new"
        BY DEF Init, New
  <2> QED  BY <2>1 DEF Covered, Fits, Importing, Computed
<1>2. Inv /\ Covered /\ [Next]_vars => Covered'
      BY FitsNext
<1>3. ASSUME Inv, Covered
      PROVE  RiskCoversExcess
  <2> SUFFICES ASSUME NEW q \in Requests, Made(q) # {}
               PROVE  MapThenSumSet(LAMBDA i : BookEntry[i].tax, req[q].books)
                          - (MapThenSumSet(LAMBDA r : RecordEntry(r).tax, req[q].records)
                                - req[q].row["unclaimed"])
                      <= req[q].row["itc_at_risk"] + TaxTolerance * req[q].row["matched"]
      BY DEF RiskCoversExcess
  <2>1. PICK m \in matches : m.by = q
        BY DEF Made
  <2>2. MatchesOf(req, matches)
        BY <1>3 DEF Inv, StoredInv
  <2>3. req[q].op = "done" /\ req[q].results # {}
        BY <2>1, <2>2 DEF MatchesOf
  <2>4. Fits(req, req[q])
        BY <1>3 DEF Covered
  <2>5. /\ IsFiniteSet(req[q].books) /\ IsFiniteSet(req[q].records)
        /\ Covers(req, req[q])
        BY <2>3, <2>4 DEF Fits
  <2> DEFINE claims == Claims(req[q].books)
             reports == Reports(req, req[q].records)
  <2>6. /\ \A i \in req[q].books : claims[i] = BookEntry[i].tax
        /\ \A r \in req[q].records : reports[r] = RecordEntry(r).tax
        BY DEF Claims, Reports, RecordEntry
  <2> HIDE DEF claims, reports
  <2>7. MapThenSumSet(LAMBDA i : BookEntry[i].tax, req[q].books) = Total(claims, req[q].books)
        BY <2>5, <2>6, SumOfBooks
  <2>8. MapThenSumSet(LAMBDA r : RecordEntry(r).tax, req[q].records)
            = Total(reports, req[q].records)
        BY <2>5, <2>6, SumOfRecords
  <2> QED  BY <2>5, <2>7, <2>8 DEF Covers, claims, reports
<1> QED  BY <1>1, <1>2, <1>3, Invariance, PTL DEF Spec

-----------------------------------------------------------------------------
(* Locks and waits. *)

\* Behind(q) is the least set that has those that q waits for and, with each
\* of its members, those that the member waits for.
LEMMA BehindIs ==
    ASSUME NEW q \in Requests
    PROVE  /\ Behind(q) \subseteq Requests
           /\ \A p \in Requests : Waits(q, p) => p \in Behind(q)
           /\ \A p \in Behind(q), r \in Requests : Waits(p, r) => r \in Behind(q)
           /\ \A U \in SUBSET Requests :
                 (\A p, r \in Requests : (p \in U \/ p = q) /\ Waits(p, r) => r \in U)
                    => Behind(q) \subseteq U
<1> DEFINE E == {w \in Requests \X Requests : Waits(w[1], w[2])}
           Shut(U) == \A w \in E : w[1] \in U \cup {q} => w[2] \in U
<1>1. Behind(q) = {p \in Requests : \A U \in SUBSET Requests : Shut(U) => p \in U}
      BY DEF Behind, WaitedFor
<1>2. ASSUME NEW U \in SUBSET Requests
      PROVE  Shut(U) <=> \A p, r \in Requests : (p \in U \/ p = q) /\ Waits(p, r) => r \in U
  <2>1. ASSUME Shut(U), NEW p \in Requests, NEW r \in Requests,
               p \in U \/ p = q, Waits(p, r)
        PROVE  r \in U
    <3>1. <<p, r>> \in E
          BY <2>1
    <3>2. <<p, r>>[1] \in U \cup {q} => <<p, r>>[2] \in U
          BY <2>1, <3>1
    <3> QED  BY <2>1, <3>2
  <2>2. ASSUME \A p, r \in Requests : (p \in U \/ p = q) /\ Waits(p, r) => r \in U,
               NEW w \in E, w[1] \in U \cup {q}
        PROVE  w[2] \in U
    <3>1. w[1] \in Requests /\ w[2] \in Requests /\ Waits(w[1], w[2])
          OBVIOUS
    <3> HIDE DEF E
    <3> QED  BY <2>2, <3>1
  <2> QED  BY <2>1, <2>2
<1> HIDE DEF Shut
<1>3. \A p \in Requests : Waits(q, p) => p \in Behind(q)
      BY <1>1, <1>2
<1>4. \A p \in Behind(q), r \in Requests : Waits(p, r) => r \in Behind(q)
      BY <1>1, <1>2
<1> QED  BY <1>1, <1>2, <1>3, <1>4

\* Whoever is behind one that is behind q is behind q.
LEMMA BehindIsTransitive ==
    ASSUME NEW q \in Requests, NEW p \in Behind(q)
    PROVE  Behind(p) \subseteq Behind(q)
<1>1. p \in Requests /\ Behind(q) \in SUBSET Requests
      BY BehindIs
<1>2. \A s, r \in Requests : (s \in Behind(q) \/ s = p) /\ Waits(s, r) => r \in Behind(q)
      BY BehindIs
<1> QED  BY <1>1, <1>2, BehindIs

\* If p waits for q, through others perhaps, its way goes on through one that
\* is q or waits for q.
LEMMA WayOn ==
    ASSUME NEW p \in Requests, NEW q \in Behind(p)
    PROVE  \E s \in Requests : Waits(p, s) /\ (s = q \/ q \in Behind(s))
<1>1. q \in Requests
      BY BehindIs
<1> DEFINE U == {s \in Requests : s # q /\ q \notin Behind(s)}
<1>2. SUFFICES ASSUME \A s \in Requests : Waits(p, s) => s \in U
               PROVE  FALSE
      OBVIOUS
<1>3. ASSUME NEW s \in U, NEW r \in Requests, Waits(s, r)
      PROVE  r \in U
  <2>1. r \in Behind(s)
        BY <1>3, BehindIs
  <2>2. r # q
        BY <2>1
  <2>3. q \notin Behind(r)
        BY <2>1, BehindIsTransitive
  <2> QED  BY <2>2, <2>3
<1>4. \A s, r \in Requests : (s \in U \/ s = p) /\ Waits(s, r) => r \in U
      BY <1>2, <1>3
<1>5. Behind(p) \subseteq U
  <2>1. U \in SUBSET Requests
        OBVIOUS
  <2> HIDE DEF U
  <2> QED  BY <1>4, <2>1, BehindIs
<1> QED  BY <1>5

\* On a cycle of waits, the next one is on it, too.
LEMMA OnTheCycle ==
    ASSUME NEW q \in Requests, NEW p \in Behind(q), q \in Behind(p)
    PROVE  \E s \in Behind(q) : Waits(p, s) /\ q \in Behind(s)
<1>1. PICK s \in Requests : Waits(p, s) /\ (s = q \/ q \in Behind(s))
      BY BehindIs, WayOn
<1>2. s \in Behind(q)
      BY <1>1, BehindIs
<1>3. q \in Behind(q)
      BY BehindIsTransitive
<1> QED  BY <1>1, <1>2, <1>3

\* If everyone of a finite group waits for one of the group, someone of it waits for
\* itself: a member with the fewest behind it is behind itself.
LEMMA SomeCycle ==
    ASSUME NEW W \in SUBSET Requests, IsFiniteSet(W), W # {},
           \A q \in W : Behind(q) \subseteq W /\ Waiting(q)
    PROVE  \E q \in W : Deadlocked(q)
<1> DEFINE C == {Behind(q) : q \in W}
<1>1. PICK T \in C : \A U \in C : ~ (U \subseteq T /\ U # T)
  <2>1. C \subseteq SUBSET W /\ C # {}
        OBVIOUS
  <2> HIDE DEF C
  <2> QED  BY <2>1, MinimalSubset
<1>2. PICK q \in W : T = Behind(q)
      OBVIOUS
<1>3. PICK p \in Requests : Waits(q, p)
      BY DEF Waiting
<1>4. p \in Behind(q) /\ p \in W
      BY <1>3, BehindIs
<1>5. Behind(p) \subseteq T
      BY <1>2, <1>4, BehindIsTransitive
<1>6. Behind(p) = T
      BY <1>1, <1>4, <1>5
<1>7. Deadlocked(p)
      BY <1>2, <1>4, <1>6 DEF Deadlocked
<1> QED  BY <1>4, <1>7

\* Only requests that hold locks are waited for.
LEMMA HoldersAreMet ==
    ASSUME NEW q \in Requests, NEW p \in Requests, Waits(q, p)
    PROVE  /\ p # q
           /\ req[p].op \in {"unlink", "insert_records", "flush", "insert_matches"}
           /\ req[q].op = "delete" => req[p].op \in {"unlink", "insert_records"}
           /\ req[q].op = "flush" => req[p].op = "insert_matches"
           /\ req[q].op = "insert_matches" => req[p].op \in {"unlink", "insert_records"}
<1>1. LockedRecords(p) # {} => req[p].op \in {"unlink", "insert_records"}
      BY DEF LockedRecords
<1>2. LockedMatches(p) # {} => req[p].op \in {"insert_records", "flush", "insert_matches"}
      BY DEF LockedMatches
<1>3. LocksRun(p) => req[p].op = "insert_matches"
      BY DEF LocksRun
<1>4. /\ p # q
      /\ \/ req[q].op = "delete" /\ LockedRecords(p) # {}
         \/ req[q].op = "unlink" /\ LockedMatches(p) # {}
         \/ req[q].op = "replace" /\ LockedMatches(p) # {}
         \/ req[q].op = "flush" /\ LocksRun(p)
         \/ req[q].op = "insert_matches" /\ LockedRecords(p) # {}
      BY DEF Waits
<1> QED  BY <1>1, <1>2, <1>3, <1>4

Started == {q \in Requests : req[q].op # "new"}
FewStarted == IsFiniteSet(Started)

\* The requests that have come so far are finitely many.
LEMMA FinitelyMany == Spec => []FewStarted
<1>1. ASSUME Init
      PROVE  FewStarted
  <2>1. Started = {}
        BY <1>1 DEF Init, New, Started
  <2> QED  BY <2>1, FS_EmptySet DEF FewStarted
<1>2. ASSUME Inv, FewStarted, [Next]_vars
      PROVE  FewStarted'
  <2>1. UNCHANGED req \/ \E q \in Requests : \E t : Move(q, t)
        BY <1>2 DEF Next, vars, Work, BeginImport, DeleteRecords, UnlinkMatches, CommitImport,
               BeginRun, ReadRecords, FindRun, SnapshotMatches, DeleteMatches, FlushRun,
               CommitRun, Refuse, Deadlock, Fail, Extract
  <2>2. CASE UNCHANGED req
        BY <1>2, <2>2 DEF Started, FewStarted
  <2>3. ASSUME NEW q \in Requests, NEW t, Move(q, t)
        PROVE  FewStarted'
    <3>1. req = [p \in Requests |-> req[p]]
          BY <1>2 DEF Inv, RequestsInv
    <3>2. Started' \subseteq Started \cup {q}
          BY <2>3, <3>1 DEF Move, Started
    <3>3. IsFiniteSet(Started \cup {q})
          BY <1>2, FS_AddElement DEF FewStarted
    <3> HIDE DEF Started
    <3> QED  BY <3>2, <3>3, FS_Subset DEF FewStarted
  <2> QED  BY <2>1, <2>2, <2>3
<1> QED  BY <1>1, <1>2, Invariance, PTL DEF Spec

\* Everyone behind an open request is open.
LEMMA BehindAreOpen ==
    ASSUME NEW q \in Requests
    PROVE  \A p \in Behind(q) : p \in Requests /\ Open(p)
<1> DEFINE U == {p \in Requests : Open(p)}
<1>1. \A p, r \in Requests : Waits(p, r) => r \in U
      BY HoldersAreMet DEF Open
<1>2. Behind(q) \subseteq U
  <2>1. U \in SUBSET Requests
        OBVIOUS
  <2> HIDE DEF U
  <2> QED  BY <1>1, <2>1, BehindIs
<1> QED  BY <1>2

\* A finite set can be listed.
LEMMA OrdersExist ==
    ASSUME NEW S, IsFiniteSet(S)
    PROVE  Orders(S) # {}
<1>1. ExistsBijection(1..Cardinality(S), S)
      BY FS_CardinalityType
<1>2. ExistsBijection(S, 1..Cardinality(S))
      BY <1>1, Fun_ExistsBijSymmetric
<1> QED  BY <1>2 DEF ExistsBijection, Bijection, Orders

\* What a run has read can be listed, so it has results.
LEMMA ResultsExist ==
    ASSUME Inv, NEW q \in Requests, req[q].op = "find"
    PROVE  ResultsOf(q) # {}
<1>1. Knows(req, req[q])
      BY Known
<1>2. /\ req[q].books \subseteq Invoices
      /\ FilesOf(req, req[q].records) /\ OneFile(req[q].records)
      BY <1>1 DEF Knows, Running, Computed
<1>3. IsFiniteSet(req[q].books) /\ IsFiniteSet(req[q].records)
      BY <1>2, OneFileIsFinite, FS_Subset, RequestsAssumption
<1>4. Orders(req[q].books) # {} /\ Orders(req[q].records) # {}
      BY <1>3, OrdersExist
<1>5. PICK bo \in Orders(req[q].books), ro \in Orders(req[q].records) : TRUE
      BY <1>4
<1>6. Reconcile([i \in req[q].books |-> BookEntry[i]], bo,
                [r \in req[q].records |-> RecordEntry(r)], ro) \in ResultsOf(q)
      BY <1>2 DEF ResultsOf, Outcomes
<1> QED  BY <1>6

\* However many requests wait, someone goes on: the waits of finitely many
\* requests end, at one that can go on or in a cycle.
THEOREM NoneWaitsForEver == Spec => []SomeoneGoesOn
<1>1. ASSUME Inv, FewStarted
      PROVE  SomeoneGoesOn
  <2>1. SUFFICES ASSUME NEW q \in Requests, Open(q),
                        \A p \in Behind(q) \cup {q} : ~ CanGoOn(p)
                 PROVE  FALSE
        BY DEF SomeoneGoesOn
  <2> DEFINE W == Behind(q) \cup {q}
  <2>2. \A p \in W : p \in Requests /\ Open(p)
        BY <2>1, BehindAreOpen
  <2>3. \A p \in W : Behind(p) \subseteq W
        BY BehindIsTransitive
  <2>4. ASSUME NEW p \in W
        PROVE  Waiting(p) /\ ~ Deadlocked(p)
    <3>1. req[p].op = "find" => ResultsOf(p) # {}
          BY <2>2, <1>1, ResultsExist
    <3>2. ~ Executes(p, req[p].op) /\ ~ Refused(p) /\ ~ Deadlocked(p)
          BY <2>1, <2>2, <3>1 DEF CanGoOn
    <3> QED  BY <3>2 DEF Executes
  <2>5. IsFiniteSet(W)
    <3>1. W \subseteq Started
          BY <2>2 DEF Started, Open
    <3> HIDE DEF W
    <3> QED  BY <1>1, <3>1, FS_Subset DEF FewStarted
  <2>6. W # {} /\ W \in SUBSET Requests
        BY <2>2
  <2> HIDE DEF W
  <2> QED  BY <2>3, <2>4, <2>5, <2>6, SomeCycle
<1> QED  BY <1>1, Invariance, FinitelyMany, PTL

-----------------------------------------------------------------------------
(* Imports take their locks in one order, and runs do. *)

\* A record is locked by one import at most.
LocksApart ==
    \A p, q \in Requests : p # q => LockedRecords(p) \cap LockedRecords(q) = {}

\* A step of q that leaves it with locks it had, or with records that nobody
\* else has locked.
LEMMA LocksStep ==
    ASSUME Inv, LocksApart, NEW q \in Requests, NEW t, Move(q, t),
           t.op \in {"unlink", "insert_records"} =>
              \A p \in Requests \ {q} : t.records \cap LockedRecords(p) = {}
    PROVE  LocksApart'
<1>1. req = [p \in Requests |-> req[p]]
      BY DEF Inv, RequestsInv
<1>2. req'[q] = t /\ \A p \in Requests \ {q} : req'[p] = req[p]
      BY <1>1 DEF Move
<1>3. \A p \in Requests \ {q} : LockedRecords(p)' = LockedRecords(p)
      BY <1>2 DEF LockedRecords
<1>4. \A p \in Requests \ {q} : LockedRecords(q)' \cap LockedRecords(p) = {}
      BY <1>2 DEF LockedRecords
<1> QED  BY <1>3, <1>4 DEF LocksApart

\* No two requests have locks on the same record: a DELETE waits for the lock.
LEMMA LocksInvariance == Spec => []LocksApart
<1>1. ASSUME Init
      PROVE  LocksApart
      BY <1>1 DEF Init, New, LocksApart, LockedRecords
<1>2. ASSUME Inv, LocksApart, [Next]_vars
      PROVE  LocksApart'
  <2>1. CASE UNCHANGED req
        BY <1>2, <2>1 DEF LocksApart, LockedRecords
  <2>2. ASSUME NEW q \in Requests, NEW t, Move(q, t), t.op \notin {"unlink", "insert_records"}
        PROVE  LocksApart'
        BY <1>2, <2>2, LocksStep
  <2>3. ASSUME NEW q \in Requests, DeleteRecords(q)
        PROVE  LocksApart'
    <3> DEFINE t == [req[q] EXCEPT !.op = "unlink", !.records = req[q].records \cap records]
    <3>1. Move(q, t) /\ req[q].op = "delete" /\ ~ Waiting(q)
          BY <2>3 DEF DeleteRecords, Executes
    <3>2. t.records = req[q].records \cap records
          BY <1>2, Known DEF IsRequest
    <3>3. \A p \in Requests \ {q} : req[q].records \cap records \cap LockedRecords(p) = {}
          BY <3>1 DEF Waiting, Waits
    <3> HIDE DEF t
    <3> QED  BY <1>2, <3>1, <3>2, <3>3, LocksStep
  <2>4. ASSUME NEW q \in Requests, UnlinkMatches(q)
        PROVE  LocksApart'
    <3> DEFINE t == [req[q] EXCEPT !.op = "insert_records"]
    <3>1. Move(q, t) /\ req[q].op = "unlink"
          BY <2>4 DEF UnlinkMatches, Executes
    <3>2. t.records = req[q].records
          BY <1>2, Known DEF IsRequest
    <3>3. \A p \in Requests \ {q} : req[q].records \cap LockedRecords(p) = {}
          BY <1>2, <3>1 DEF LocksApart, LockedRecords
    <3> HIDE DEF t
    <3> QED  BY <1>2, <3>1, <3>2, <3>3, LocksStep
  <2>5. ASSUME NEW q \in Requests, BeginImport(q) \/ BeginRun(q)
        PROVE  \E t : Move(q, t) /\ t.op \notin {"unlink", "insert_records"}
    <3>1. \A x, y, z, u : [New EXCEPT !.op = x, !.source = y, !.file = z, !.records = u].op = x
          BY DEF New
    <3>2. \A x, y, z : [New EXCEPT !.op = x, !.source = y, !.books = z].op = x
          BY DEF New
    <3>3. CASE BeginImport(q)
      <4>1. PICK s \in Sources, f \in Files :
                Move(q, [New EXCEPT !.op = "delete", !.source = s, !.file = f,
                                    !.records = RecordsOf(s)])
            BY <3>3 DEF BeginImport
      <4> DEFINE t == [New EXCEPT !.op = "delete", !.source = s, !.file = f,
                                  !.records = RecordsOf(s)]
      <4>2. Move(q, t) /\ t.op = "delete"
            BY <3>1, <4>1
      <4> HIDE DEF t
      <4> QED  BY <4>2
    <3>4. CASE BeginRun(q)
      <4>1. PICK s \in Sources :
                Move(q, [New EXCEPT !.op = "records", !.source = s, !.books = books])
            BY <3>4 DEF BeginRun
      <4> DEFINE t == [New EXCEPT !.op = "records", !.source = s, !.books = books]
      <4>2. Move(q, t) /\ t.op = "records"
            BY <3>2, <4>1
      <4> HIDE DEF t
      <4> QED  BY <4>2
    <3> QED  BY <2>5, <3>3, <3>4
  <2>6. ASSUME NEW q \in Requests,
               \/ CommitImport(q) \/ ReadRecords(q) \/ FindRun(q) \/ SnapshotMatches(q)
               \/ DeleteMatches(q) \/ FlushRun(q) \/ CommitRun(q)
        PROVE  \E t : Move(q, t) /\ t.op \notin {"unlink", "insert_records"}
    <3>1. IsRequest(req[q])
          BY <1>2, Known
    <3>2. \A x, y : /\ [req[q] EXCEPT !.op = x].op = x
                    /\ [req[q] EXCEPT !.op = x, !.records = y].op = x
                    /\ [req[q] EXCEPT !.op = x, !.old = y].op = x
          BY <3>1 DEF IsRequest
    <3>3. \A x, y, z, u : [req[q] EXCEPT !.op = x, !.seen = y, !.results = z, !.row = u].op = x
          BY <3>1 DEF IsRequest
    <3>4. CASE FindRun(q)
      <4>1. PICK x \in {"flush", "snapshot"} :
               \E z : Move(q, [req[q] EXCEPT !.op = x, !.seen = run, !.results = z,
                                             !.row = RowOf(req[q].source, z)])
            BY <3>4 DEF FindRun
      <4>2. PICK z : Move(q, [req[q] EXCEPT !.op = x, !.seen = run, !.results = z,
                                            !.row = RowOf(req[q].source, z)])
            BY <4>1
      <4> DEFINE t == [req[q] EXCEPT !.op = x, !.seen = run, !.results = z,
                                     !.row = RowOf(req[q].source, z)]
      <4>3. Move(q, t) /\ t.op = x
            BY <3>3, <4>2
      <4> HIDE DEF t
      <4> QED  BY <4>3
    <3>5. CASE CommitImport(q) \/ ReadRecords(q)
      <4>1. PICK x \in {"done", "find"} :
               \E y : Move(q, [req[q] EXCEPT !.op = x, !.records = y])
            BY <3>5 DEF CommitImport, ReadRecords
      <4> QED  BY <3>2, <4>1
    <3>6. CASE SnapshotMatches(q) \/ DeleteMatches(q) \/ CommitRun(q)
      <4>1. PICK x \in {"replace", "flush", "done"} :
               \E y : Move(q, [req[q] EXCEPT !.op = x, !.old = y])
            BY <3>6 DEF SnapshotMatches, DeleteMatches, CommitRun
      <4> QED  BY <3>2, <4>1
    <3>7. CASE FlushRun(q)
      <4> DEFINE t == [req[q] EXCEPT !.op = "insert_matches"]
      <4>2. Move(q, t) /\ t.op = "insert_matches"
            BY <3>2, <3>7 DEF FlushRun
      <4> HIDE DEF t
      <4> QED  BY <4>2
    <3> QED  BY <2>6, <3>4, <3>5, <3>6, <3>7
  <2>7. ASSUME NEW q \in Requests, Refuse(q) \/ Deadlock(q) \/ Fail(q)
        PROVE  Move(q, Over(q)) /\ Over(q).op = "done"
    <3>1. IsRequest(req[q])
          BY <1>2, Known
    <3>2. Over(q).op = "done"
          BY <3>1 DEF Over, IsRequest
    <3> QED  BY <2>7, <3>2 DEF Refuse, Deadlock, Fail
  <2>8. ASSUME NEW i \in Invoices, Extract(i)
        PROVE  UNCHANGED req
        BY <2>8 DEF Extract
  <2>9. UNCHANGED vars => UNCHANGED req
        BY DEF vars
  <2> QED  BY <1>2, <2>1, <2>2, <2>3, <2>4, <2>5, <2>6, <2>7, <2>8, <2>9 DEF Next, Work
<1> QED  BY <1>1, <1>2, Invariance, PTL DEF Spec

\* Imports wait for imports only before they have locks, and runs for runs
\* before they wait for imports: a cycle of waits has both.
THEOREM DeadlocksAreMixed == Spec => []OneKindNeverDeadlocks
<1>1. ASSUME LocksApart
      PROVE  OneKindNeverDeadlocks
  <2>1. SUFFICES ASSUME NEW q \in Requests, q \in Behind(q),
                        \A p \in Behind(q) : q \in Behind(p) => (IsRun(p) <=> IsRun(q))
                 PROVE  FALSE
        BY DEF OneKindNeverDeadlocks, Deadlocked
  <2>2. PICK a \in Behind(q) : Waits(q, a) /\ q \in Behind(a)
        BY <2>1, OnTheCycle
  <2>3. PICK b \in Behind(q) : Waits(a, b) /\ q \in Behind(b)
        BY <2>1, <2>2, OnTheCycle
  <2>4. PICK c \in Behind(q) : Waits(b, c) /\ q \in Behind(c)
        BY <2>1, <2>3, OnTheCycle
  <2>5. /\ a \in Requests /\ b \in Requests /\ c \in Requests
        /\ IsRun(a) <=> IsRun(q)
        /\ IsRun(b) <=> IsRun(q)
        /\ IsRun(c) <=> IsRun(q)
        BY <2>1, <2>2, <2>3, <2>4, BehindIs
  <2>6. ASSUME NEW p \in Requests, NEW r \in Requests, Waits(p, r), ~ IsRun(p), ~ IsRun(r)
        PROVE  req[p].op = "delete" /\ req[r].op \in {"unlink", "insert_records"}
    <3>1. req[p].op \in {"delete", "unlink"}
          BY <2>6, WaitsAt DEF IsRun
    <3>2. req[r].op \in {"unlink", "insert_records"} /\ p # r
          BY <2>6, HoldersAreMet DEF IsRun
    <3>3. ASSUME req[p].op = "unlink"
          PROVE  FALSE
      <4>1. PICK m \in matches \cap LockedMatches(r) : m.result.record \in req[p].records
            BY <2>6, <3>3 DEF Waits
      <4>2. m.result.record \in req[r].records
            BY <3>2, <4>1 DEF LockedMatches
      <4> QED  BY <1>1, <3>2, <3>3, <4>1, <4>2 DEF LocksApart, LockedRecords
    <3> QED  BY <3>1, <3>2, <3>3
  <2>7. ASSUME NEW p \in Requests, NEW r \in Requests, Waits(p, r), IsRun(p), IsRun(r)
        PROVE  \/ req[p].op = "replace" /\ req[r].op \in {"flush", "insert_matches"}
               \/ req[p].op = "flush" /\ req[r].op = "insert_matches"
        BY <2>7, WaitsAt, HoldersAreMet DEF IsRun
  <2>8. CASE IsRun(q)
        BY <2>2, <2>3, <2>4, <2>5, <2>7, <2>8
  <2>9. CASE ~ IsRun(q)
        BY <2>2, <2>3, <2>5, <2>6, <2>9
  <2> QED  BY <2>8, <2>9
<1> QED  BY <1>1, LocksInvariance, PTL

-----------------------------------------------------------------------------
(* Types. *)

\* Finitely many books and records have finitely many results.
LEMMA ResultsAreFinite ==
    ASSUME NEW ours, IsFiniteSet(DOMAIN ours), NEW bookOrder,
           NEW theirs, IsFiniteSet(DOMAIN theirs), NEW recordOrder
    PROVE  IsFiniteSet(Reconcile(ours, bookOrder, theirs, recordOrder))
<1> DEFINE P(i, j) == Paired(ours, bookOrder, theirs, recordOrder, i, j)
           B == DOMAIN ours
           R == DOMAIN theirs
           X == {p \in B \X R : P(p[1], p[2])}
           Y == {i \in B : \A j \in R : ~ P(i, j)}
           Z == {j \in R : \A i \in B : ~ P(i, j)}
           FX == {Pair(p[1], ours[p[1]], p[2], theirs[p[2]]) : p \in X}
           FY == {MissingInReturn(i, ours[i]) : i \in Y}
           FZ == {MissingInBooks(j, theirs[j]) : j \in Z}
<1>1. IsFiniteSet(X)
  <2>1. X \subseteq B \X R
        OBVIOUS
  <2> HIDE DEF X
  <2> QED  BY <2>1, FS_Product, FS_Subset
<1>2. IsFiniteSet(Y)
  <2>1. Y \subseteq B
        OBVIOUS
  <2> HIDE DEF Y
  <2> QED  BY <2>1, FS_Subset
<1>3. IsFiniteSet(Z)
  <2>1. Z \subseteq R
        OBVIOUS
  <2> HIDE DEF Z
  <2> QED  BY <2>1, FS_Subset
<1> HIDE DEF X, Y, Z
<1>4. IsFiniteSet(FX)
  <2> DEFINE f == [p \in X |-> Pair(p[1], ours[p[1]], p[2], theirs[p[2]])]
  <2>1. f \in Surjection(X, FX)
        BY DEF Surjection
  <2> HIDE DEF f, FX
  <2> QED  BY <1>1, <2>1, FS_Surjection
<1>5. IsFiniteSet(FY)
  <2> DEFINE f == [i \in Y |-> MissingInReturn(i, ours[i])]
  <2>1. f \in Surjection(Y, FY)
        BY DEF Surjection
  <2> HIDE DEF f, FY
  <2> QED  BY <1>2, <2>1, FS_Surjection
<1>6. IsFiniteSet(FZ)
  <2> DEFINE f == [j \in Z |-> MissingInBooks(j, theirs[j])]
  <2>1. f \in Surjection(Z, FZ)
        BY DEF Surjection
  <2> HIDE DEF f, FZ
  <2> QED  BY <1>3, <2>1, FS_Surjection
<1>7. Reconcile(ours, bookOrder, theirs, recordOrder) = FX \cup FY \cup FZ
      BY DEF Reconcile, X, Y, Z
<1> HIDE DEF FX, FY, FZ
<1> QED  BY <1>4, <1>5, <1>6, <1>7, FS_Union

\* The amounts of a result are whole.
LEMMA ResultsAreTyped ==
    ASSUME Inv, NEW q \in Requests, req[q].op = "find", NEW results \in ResultsOf(q)
    PROVE  results \in SUBSET Result /\ IsFiniteSet(results)
<1> DEFINE inv == [i \in req[q].books |-> BookEntry[i]]
           rec == [r \in req[q].records |-> RecordEntry(r)]
<1>0. Knows(req, req[q])
      BY Known
<1>1. /\ req[q].books \subseteq Invoices
      /\ FilesOf(req, req[q].records) /\ OneFile(req[q].records)
      BY <1>0 DEF Knows, Running, Computed
<1>2. DOMAIN inv = req[q].books /\ DOMAIN rec = req[q].records
      OBVIOUS
<1>3. PICK bo \in Orders(req[q].books), ro \in Orders(req[q].records) :
          results = Reconcile(inv, bo, rec, ro)
      BY <1>2 DEF ResultsOf, Outcomes
<1>4. IsFiniteSet(req[q].books) /\ IsFiniteSet(req[q].records)
      BY <1>1, OneFileIsFinite, FS_Subset, RequestsAssumption
<1>5. \A i \in DOMAIN inv : i \in Invoices /\ inv[i] \in Entry
      BY <1>1, RequestsAssumption
<1>6. \A r \in DOMAIN rec : r \in Record /\ rec[r] \in Entry
  <2> SUFFICES ASSUME NEW r \in req[q].records
               PROVE  r \in Record /\ rec[r] \in Entry
      OBVIOUS
  <2>1. req[r[1]].file \in Seq(Entry) /\ r[2] \in DOMAIN req[r[1]].file /\ r \in Record
        BY <1>1, RequestsAssumption DEF FilesOf
  <2>2. req[r[1]].file[r[2]] \in Entry
        BY <2>1
  <2> QED  BY <2>1, <2>2 DEF RecordEntry
<1> HIDE DEF inv, rec
<1>7. ASSUME NEW r \in results
      PROVE  r \in Result
  <2>1. \/ \E i \in DOMAIN inv, j \in DOMAIN rec : r = Pair(i, inv[i], j, rec[j])
        \/ \E i \in DOMAIN inv : r = MissingInReturn(i, inv[i])
        \/ \E j \in DOMAIN rec : r = MissingInBooks(j, rec[j])
        BY <1>3, ResultShape
  <2>2. ASSUME NEW i \in DOMAIN inv, NEW j \in DOMAIN rec
        PROVE  Pair(i, inv[i], j, rec[j]) \in Result
        BY <1>5, <1>6 DEF Pair, Result, Status, Entry
  <2>3. ASSUME NEW i \in DOMAIN inv
        PROVE  MissingInReturn(i, inv[i]) \in Result
        BY <1>5 DEF MissingInReturn, Result, Status, Entry
  <2>4. ASSUME NEW j \in DOMAIN rec
        PROVE  MissingInBooks(j, rec[j]) \in Result
        BY <1>6 DEF MissingInBooks, Result, Status, Entry
  <2> QED  BY <2>1, <2>2, <2>3, <2>4
<1>8. IsFiniteSet(results)
      BY <1>2, <1>3, <1>4, ResultsAreFinite
<1> QED  BY <1>7, <1>8

\* The row of a run has whole numbers.
LEMMA RowIsTyped ==
    ASSUME NEW s \in Sources, NEW results \in SUBSET Result, IsFiniteSet(results)
    PROVE  RowOf(s, results) \in RunRow
<1> DEFINE sum == Summarize(results)
           f == [r \in results |-> r.risk]
           g == [r \in results |-> r.unclaimed]
<1>1. sum.itc_at_risk \in Int
  <2>1. Total(f, results) \in Int
        BY TotalInt DEF Result
  <2>2. MapThenSumSet(LAMBDA r : r.risk, results) = Total(f, results)
        BY SumOfRisk
  <2> QED  BY <2>1, <2>2 DEF Summarize
<1>2. sum.unclaimed \in Int
  <2>1. Total(g, results) \in Int
        BY TotalInt DEF Result
  <2>2. MapThenSumSet(LAMBDA r : r.unclaimed, results) = Total(g, results)
        BY SumOfUnclaimed
  <2> QED  BY <2>1, <2>2 DEF Summarize
<1>3. \A status : Count(results, status) \in Int
  <2> SUFFICES ASSUME NEW status
               PROVE  Count(results, status) \in Int
      OBVIOUS
  <2>1. IsFiniteSet({r \in results : r.status = status})
        BY FS_Subset
  <2> QED  BY <2>1, FS_CardinalityType DEF Count
<1>4. sum.books \in Int /\ sum.returns \in Int
  <2>1. IsFiniteSet({r \in results : r.book # NoBook}) /\
        IsFiniteSet({r \in results : r.record # NoRecord})
        BY FS_Subset
  <2> QED  BY <2>1, FS_CardinalityType DEF Summarize
<1>5. /\ sum.matched \in Int /\ sum.mismatch \in Int
      /\ sum.missing_in_return \in Int /\ sum.missing_in_books \in Int
      BY <1>3 DEF Summarize
<1> HIDE DEF sum
<1>6. RowOf(s, results) = [c \in Columns |-> IF c = "source" THEN s ELSE sum[c]]
      BY DEF RowOf, sum
<1>7. \A c \in Columns \ {"source"} : sum[c] \in Int
      BY <1>1, <1>2, <1>4, <1>5 DEF Columns
<1> QED  BY <1>6, <1>7 DEF RunRow, Columns

\* The columns of no run are those of a run.
LEMMA NoRunIsTyped == NoRun \in RunRow
BY DEF NoRun, RunRow, Columns

\* A step of one request keeps the types of all.
LEMMA TypedStep ==
    ASSUME TypeOK, NEW q \in Requests, NEW t \in Request, Move(q, t)
    PROVE  req' \in [Requests -> Request]
BY DEF TypeOK, Move

\* The fields of a request that a statement changes.
LEMMA TypedExcept ==
    ASSUME NEW t \in Request
    PROVE  /\ \A x \in Ops : [t EXCEPT !.op = x] \in Request
           /\ \A x \in Ops, y \in SUBSET Record :
                 [t EXCEPT !.op = x, !.records = y] \in Request
           /\ \A x \in Ops, y \in SUBSET Match :
                 [t EXCEPT !.op = x, !.old = y] \in Request
           /\ \A x \in Ops, y, u \in RunRow, z \in SUBSET Result :
                 [t EXCEPT !.op = x, !.seen = y, !.results = z, !.row = u] \in Request
BY DEF Request

\* Each step keeps the types: what a request reads is typed, and so is what it
\* computes.
LEMMA TypedImport ==
    ASSUME TypeOK, Inv, NEW q \in Requests,
           BeginImport(q) \/ DeleteRecords(q) \/ UnlinkMatches(q) \/ CommitImport(q)
    PROVE  TypeOK'
<1>1. req[q] \in Request /\ records \subseteq Record
      BY DEF TypeOK
<1>2. CASE BeginImport(q)
  <2>1. PICK s \in Sources, f \in Files :
            Move(q, [New EXCEPT !.op = "delete", !.source = s, !.file = f,
                                !.records = RecordsOf(s)])
        BY <1>2 DEF BeginImport
  <2> DEFINE t == [New EXCEPT !.op = "delete", !.source = s, !.file = f,
                              !.records = RecordsOf(s)]
  <2>2. RecordsOf(s) \in SUBSET Record
        BY <1>1 DEF RecordsOf
  <2>3. t \in Request
        BY <2>2, NoRunIsTyped DEF Request, New, Ops
  <2> HIDE DEF t
  <2>4. req' \in [Requests -> Request]
        BY <2>1, <2>3, TypedStep DEF t
  <2> QED  BY <1>2, <2>4 DEF BeginImport, TypeOK
<1>3. CASE DeleteRecords(q)
  <2> DEFINE t == [req[q] EXCEPT !.op = "unlink", !.records = req[q].records \cap records]
  <2>1. t \in Request
        BY <1>1, TypedExcept DEF Ops
  <2>2. Move(q, t)
        BY <1>3 DEF DeleteRecords
  <2> HIDE DEF t
  <2>3. req' \in [Requests -> Request]
        BY <2>1, <2>2, TypedStep
  <2> QED  BY <1>3, <2>3 DEF DeleteRecords, TypeOK
<1>4. CASE UnlinkMatches(q)
  <2> DEFINE t == [req[q] EXCEPT !.op = "insert_records"]
  <2>1. t \in Request
        BY <1>1, TypedExcept DEF Ops
  <2>2. Move(q, t)
        BY <1>4 DEF UnlinkMatches
  <2> HIDE DEF t
  <2>3. req' \in [Requests -> Request]
        BY <2>1, <2>2, TypedStep
  <2> QED  BY <1>4, <2>3 DEF UnlinkMatches, TypeOK
<1>5. CASE CommitImport(q)
  <2> DEFINE t == [req[q] EXCEPT !.op = "done", !.records = {}]
  <2>1. t \in Request
        BY <1>1, TypedExcept DEF Ops
  <2>2. Move(q, t)
        BY <1>5 DEF CommitImport
  <2> HIDE DEF t
  <2>3. req' \in [Requests -> Request]
        BY <2>1, <2>2, TypedStep
  <2>4. records' \subseteq Record
    <3>1. req[q].file \in Files
          BY <1>5, Known, Executed DEF CommitImport, Knows, Importing
    <3>2. DOMAIN req[q].file \subseteq Nat
          BY <3>1, RequestsAssumption
    <3>3. {<<q, n>> : n \in DOMAIN req[q].file} \subseteq Record
          BY <3>2 DEF Record
    <3> QED  BY <1>1, <1>5, <3>3 DEF CommitImport
  <2> QED  BY <1>5, <2>3, <2>4 DEF CommitImport, TypeOK
<1> QED  BY <1>2, <1>3, <1>4, <1>5

\* The statements of a run, up to the one that writes its row, keep the types.
LEMMA TypedRun ==
    ASSUME TypeOK, Inv, NEW q \in Requests,
           \/ BeginRun(q) \/ ReadRecords(q) \/ FindRun(q) \/ SnapshotMatches(q)
           \/ DeleteMatches(q) \/ FlushRun(q)
    PROVE  TypeOK'
<1>1. /\ req[q] \in Request /\ records \subseteq Record /\ books \subseteq Invoices
      /\ matches \subseteq Match /\ run \in RunRow
      BY DEF TypeOK
<1>2. CASE BeginRun(q)
  <2>1. PICK s \in Sources : Move(q, [New EXCEPT !.op = "records", !.source = s,
                                                 !.books = books])
        BY <1>2 DEF BeginRun
  <2> DEFINE t == [New EXCEPT !.op = "records", !.source = s, !.books = books]
  <2>2. t \in Request
        BY <1>1, NoRunIsTyped DEF Request, New, Ops
  <2> HIDE DEF t
  <2>3. req' \in [Requests -> Request]
        BY <2>1, <2>2, TypedStep DEF t
  <2>4. raced' \in BOOLEAN
        BY <1>2 DEF BeginRun, TypeOK
  <2> QED  BY <1>2, <2>3, <2>4 DEF BeginRun, TypeOK
<1>3. CASE ReadRecords(q)
  <2> DEFINE S == RecordsOf(req[q].source)
             t == [req[q] EXCEPT !.op = "find", !.records = S]
  <2>1. S \in SUBSET Record
        BY <1>1 DEF RecordsOf
  <2> HIDE DEF S
  <2>2. t \in Request
        BY <1>1, <2>1, TypedExcept DEF Ops
  <2>3. Move(q, t)
        BY <1>3 DEF ReadRecords, S
  <2> HIDE DEF t
  <2>4. req' \in [Requests -> Request]
        BY <2>2, <2>3, TypedStep
  <2> QED  BY <1>3, <2>4 DEF ReadRecords, TypeOK
<1>4. CASE FindRun(q)
  <2>1. req[q].op = "find"
        BY <1>4, Executed DEF FindRun
  <2>2. PICK results \in ResultsOf(q), x \in {"flush", "snapshot"} :
            Move(q, [req[q] EXCEPT !.op = x, !.seen = run, !.results = results,
                                   !.row = RowOf(req[q].source, results)])
        BY <1>4 DEF FindRun
  <2> DEFINE row == RowOf(req[q].source, results)
             t == [req[q] EXCEPT !.op = x, !.seen = run, !.results = results, !.row = row]
  <2>3. results \in SUBSET Result /\ row \in RunRow
    <3>1. req[q].source \in Sources
          BY <2>1, Known DEF Knows, Running
    <3> QED  BY <2>1, <3>1, ResultsAreTyped, RowIsTyped
  <2>4. Move(q, t)
        BY <2>2
  <2> HIDE DEF row
  <2>5. t \in Request
        BY <1>1, <2>3, TypedExcept DEF Ops
  <2> HIDE DEF t
  <2>6. req' \in [Requests -> Request]
        BY <2>4, <2>5, TypedStep
  <2> QED  BY <1>4, <2>6 DEF FindRun, TypeOK
<1>5. CASE SnapshotMatches(q)
  <2> DEFINE t == [req[q] EXCEPT !.op = "replace", !.old = matches]
  <2>1. t \in Request
        BY <1>1, TypedExcept DEF Ops
  <2>2. Move(q, t)
        BY <1>5 DEF SnapshotMatches
  <2> HIDE DEF t
  <2>3. req' \in [Requests -> Request]
        BY <2>1, <2>2, TypedStep
  <2> QED  BY <1>5, <2>3 DEF SnapshotMatches, TypeOK
<1>6. CASE DeleteMatches(q)
  <2> DEFINE t == [req[q] EXCEPT !.op = "flush", !.old = req[q].old \cap matches]
  <2>1. t \in Request
        BY <1>1, TypedExcept DEF Ops
  <2>2. Move(q, t)
        BY <1>6 DEF DeleteMatches
  <2> HIDE DEF t
  <2>3. req' \in [Requests -> Request]
        BY <2>1, <2>2, TypedStep
  <2> QED  BY <1>6, <2>3 DEF DeleteMatches, TypeOK
<1>7. CASE FlushRun(q)
  <2> DEFINE t == [req[q] EXCEPT !.op = "insert_matches"]
  <2>1. t \in Request
        BY <1>1, TypedExcept DEF Ops
  <2>2. Move(q, t)
        BY <1>7 DEF FlushRun
  <2> HIDE DEF t
  <2>3. req' \in [Requests -> Request]
        BY <2>1, <2>2, TypedStep
  <2> QED  BY <1>7, <2>3 DEF FlushRun, TypeOK
<1> QED  BY <1>2, <1>3, <1>4, <1>5, <1>6, <1>7

\* What a run commits has the types of the run row and of the matches.
LEMMA TypedCommit ==
    ASSUME TypeOK, NEW q \in Requests, CommitRun(q)
    PROVE  TypeOK'
<1>1. req[q] \in Request /\ matches \subseteq Match /\ run \in RunRow
      BY DEF TypeOK
<1> DEFINE t == [req[q] EXCEPT !.op = "done", !.old = {}]
<1>2. t \in Request
      BY <1>1, TypedExcept DEF Ops
<1>3. Move(q, t)
      BY DEF CommitRun
<1> HIDE DEF t
<1>4. req' \in [Requests -> Request]
      BY <1>2, <1>3, TypedStep
<1>5. [by: {q}, result: req[q].results] \subseteq Match
      BY <1>1 DEF Match, Request
<1>6. matches' \subseteq Match
      BY <1>1, <1>5 DEF CommitRun
<1>7. run' \in RunRow
  <2>1. req[q].row \in RunRow
        BY <1>1 DEF Request
  <2>2. run' = [c \in Columns |-> IF c \in Changed(q) THEN req[q].row[c] ELSE run[c]]
        BY DEF CommitRun
  <2>3. /\ \A c \in Columns \ {"source"} : run[c] \in Int /\ req[q].row[c] \in Int
        /\ run["source"] \in Sources \cup {NoSource}
        /\ req[q].row["source"] \in Sources \cup {NoSource}
        BY <1>1, <2>1 DEF RunRow, Columns
  <2>4. \A c \in Columns \ {"source"} : run'[c] \in Int
        BY <2>2, <2>3
  <2>5. run'["source"] \in Sources \cup {NoSource} /\ "source" \in Columns
        BY <2>2, <2>3 DEF Columns
  <2>6. run' = [c \in Columns |-> run'[c]]
        BY <2>2
  <2> QED  BY <2>4, <2>5, <2>6 DEF RunRow, Columns
<1> QED  BY <1>4, <1>6, <1>7 DEF CommitRun, TypeOK

\* So do a request that ends early and an extraction.
LEMMA TypedEnd ==
    ASSUME TypeOK, NEW q \in Requests, Refuse(q) \/ Deadlock(q) \/ Fail(q)
    PROVE  TypeOK'
<1>1. Over(q) \in Request
  <2>1. req[q] \in Request
        BY DEF TypeOK
  <2> QED  BY <2>1, NoRunIsTyped DEF Over, Request, Ops
<1>2. Move(q, Over(q))
      BY DEF Refuse, Deadlock, Fail
<1>3. req' \in [Requests -> Request]
      BY <1>1, <1>2, TypedStep
<1> QED  BY <1>3 DEF Refuse, Deadlock, Fail, TypeOK

\* Records, matches, the row of the run and the requests keep their types, for
\* any number of requests and any files, whatever the results add up to.
THEOREM TypeCorrect == Spec => []TypeOK
<1>1. ASSUME Init
      PROVE  TypeOK
  <2>1. New \in Request
        BY NoRunIsTyped DEF New, Request, Ops
  <2> QED  BY <1>1, <2>1, NoRunIsTyped DEF Init, TypeOK
<1>2. ASSUME Inv, TypeOK, [Next]_vars
      PROVE  TypeOK'
  <2>1. CASE UNCHANGED vars
        BY <1>2, <2>1 DEF vars, TypeOK
  <2>2. ASSUME NEW i \in Invoices, Extract(i)
        PROVE  TypeOK'
        BY <1>2, <2>2 DEF Extract, TypeOK
  <2>3. ASSUME NEW q \in Requests, BeginImport(q) \/ BeginRun(q) \/ Work(q) \/ Fail(q)
        PROVE  TypeOK'
        BY <1>2, <2>3, TypedImport, TypedRun, TypedCommit, TypedEnd DEF Work
  <2> QED  BY <1>2, <2>1, <2>2, <2>3 DEF Next
<1> QED  BY <1>1, <1>2, Invariance, PTL DEF Spec

-----------------------------------------------------------------------------
(* One request at a time. *)

\* What a run has computed comes from invoices that are there and from the
\* records it has read.
Derived(f, t) ==
    /\ t.op \in Running => t.books \subseteq books
    /\ t.op \in Computed =>
           /\ t.results \in Outcomes(t.books, [r \in t.records |-> f[r[1]].file[r[2]]])
           /\ t.row = RowOf(t.source, t.results)

DerivedInv == \A q \in Requests : Derived(req, req[q])

\* The committed rows stay what they are while a request goes on.
LEMMA RowsStay ==
    ASSUME Inv, NEW q \in Requests, NEW t, Move(q, t), req[q].op # "done",
           NEW S, FilesOf(req, S)
    PROVE  \A r \in S : /\ r[1] # q
                        /\ req'[r[1]] = req[r[1]]
                        /\ RecordEntry(r)' = RecordEntry(r)
<1>1. req = [p \in Requests |-> req[p]]
      BY Known
<1>2. \A r \in S : r[1] \in Requests /\ r[1] # q
      BY DEF FilesOf, Record
<1>3. \A r \in S : req'[r[1]] = req[r[1]]
      BY <1>1, <1>2 DEF Move
<1> QED  BY <1>2, <1>3 DEF RecordEntry

LEMMA DerivedStep ==
    ASSUME Inv, DerivedInv, NEW q \in Requests, NEW t, Move(q, t), req[q].op # "done",
           UNCHANGED books, Derived(req, t),
           t.op \in Computed => FilesOf(req, t.records)
    PROVE  DerivedInv'
<1>1. req = [p \in Requests |-> req[p]]
      BY Known
<1>2. /\ \A p \in Requests \ {q} : req'[p] = req[p]
      /\ req'[q] = t
      BY <1>1 DEF Move
<1>3. ASSUME NEW u, Derived(req, u), u.op \in Computed => FilesOf(req, u.records)
      PROVE  Derived(req, u)'
  <2>1. CASE u.op \in Computed
    <3>1. FilesOf(req, u.records)
          BY <1>3, <2>1
    <3>2. [r \in u.records |-> req'[r[1]].file[r[2]]]
              = [r \in u.records |-> req[r[1]].file[r[2]]]
          BY <3>1, RowsStay
    <3> QED  BY <1>3, <2>1, <3>2 DEF Derived
  <2>2. CASE u.op \notin Computed
        BY <1>3, <2>2 DEF Derived
  <2> QED  BY <2>1, <2>2
<1>4. ASSUME NEW p \in Requests
      PROVE  Derived(req, req[p])'
  <2>1. CASE p = q
        BY <1>2, <1>3, <2>1
  <2>2. CASE p # q
    <3>1. Derived(req, req[p]) /\ (req[p].op \in Computed => FilesOf(req, req[p].records))
          BY Known DEF DerivedInv, Knows
    <3>2. PICK u : u = req[p]
          OBVIOUS
    <3>3. Derived(req, u)' /\ req'[p] = u
          BY <1>2, <1>3, <2>2, <3>1, <3>2
    <3> QED  BY <3>3
  <2> QED  BY <2>1, <2>2
<1> QED  BY <1>4 DEF DerivedInv

\* A request that is no run, or no longer one.
LEMMA DerivedIdle ==
    ASSUME Inv, DerivedInv, NEW q \in Requests,
           NEW t, Move(q, t), req[q].op # "done", t.op \notin Running,
           UNCHANGED books
    PROVE  DerivedInv'
BY DerivedStep DEF Derived, Running

LEMMA DerivedImport ==
    ASSUME Inv, DerivedInv, NEW q \in Requests,
           BeginImport(q) \/ DeleteRecords(q) \/ UnlinkMatches(q) \/ CommitImport(q)
    PROVE  DerivedInv'
<1>1. IsRequest(req[q])
      BY Known
<1>2. CASE BeginImport(q)
  <2>1. PICK s \in Sources, f \in Files :
            Move(q, [New EXCEPT !.op = "delete", !.source = s, !.file = f,
                                !.records = RecordsOf(s)])
        BY <1>2 DEF BeginImport
  <2> DEFINE t == [New EXCEPT !.op = "delete", !.source = s, !.file = f,
                              !.records = RecordsOf(s)]
  <2>2. t.op = "delete" /\ New.op = "new"
        BY DEF New
  <2>3. Move(q, t) /\ req[q] = New /\ UNCHANGED books
        BY <1>2, <2>1 DEF BeginImport, IsNext
  <2> HIDE DEF t
  <2> QED  BY <2>2, <2>3, DerivedIdle DEF Running, Computed
<1>3. CASE DeleteRecords(q)
  <2> DEFINE t == [req[q] EXCEPT !.op = "unlink", !.records = req[q].records \cap records]
  <2>1. t.op = "unlink"
        BY <1>1 DEF IsRequest
  <2>2. Move(q, t) /\ req[q].op = "delete" /\ UNCHANGED books
        BY <1>3, Executed DEF DeleteRecords
  <2> HIDE DEF t
  <2> QED  BY <2>1, <2>2, DerivedIdle DEF Running, Computed
<1>4. CASE UnlinkMatches(q)
  <2> DEFINE t == [req[q] EXCEPT !.op = "insert_records"]
  <2>1. t.op = "insert_records"
        BY <1>1 DEF IsRequest
  <2>2. Move(q, t) /\ req[q].op = "unlink" /\ UNCHANGED books
        BY <1>4, Executed DEF UnlinkMatches
  <2> HIDE DEF t
  <2> QED  BY <2>1, <2>2, DerivedIdle DEF Running, Computed
<1>5. CASE CommitImport(q)
  <2> DEFINE t == [req[q] EXCEPT !.op = "done", !.records = {}]
  <2>1. t.op = "done"
        BY <1>1 DEF IsRequest
  <2>2. Move(q, t) /\ req[q].op = "insert_records" /\ UNCHANGED books
        BY <1>5, Executed DEF CommitImport
  <2> HIDE DEF t
  <2> QED  BY <2>1, <2>2, DerivedIdle DEF Running, Computed
<1> QED  BY <1>2, <1>3, <1>4, <1>5

\* Up to its results a run knows the invoices it has read.
LEMMA DerivedRun ==
    ASSUME Inv, DerivedInv, NEW q \in Requests, BeginRun(q) \/ ReadRecords(q) \/ FindRun(q)
    PROVE  DerivedInv'
<1>1. IsRequest(req[q]) /\ Knows(req, req[q]) /\ Derived(req, req[q])
      BY Known DEF DerivedInv
<1>2. CASE BeginRun(q)
  <2>1. PICK s \in Sources : Move(q, [New EXCEPT !.op = "records", !.source = s,
                                                 !.books = books])
        BY <1>2 DEF BeginRun
  <2> DEFINE t == [New EXCEPT !.op = "records", !.source = s, !.books = books]
  <2>2. t.op = "records" /\ t.books = books /\ New.op = "new"
        BY DEF New
  <2>3. Move(q, t) /\ req[q] = New /\ UNCHANGED books
        BY <1>2, <2>1 DEF BeginRun, IsNext
  <2> HIDE DEF t
  <2>4. Derived(req, t) /\ t.op \notin Computed
        BY <2>2 DEF Derived, Computed
  <2> QED  BY <2>2, <2>3, <2>4, DerivedStep
<1>3. CASE ReadRecords(q)
  <2> DEFINE t == [req[q] EXCEPT !.op = "find", !.records = RecordsOf(req[q].source)]
  <2>1. t.op = "find" /\ t.books = req[q].books
        BY <1>1 DEF IsRequest
  <2>2. Move(q, t) /\ req[q].op = "records" /\ UNCHANGED books
        BY <1>3, Executed DEF ReadRecords
  <2> HIDE DEF t
  <2>3. Derived(req, t) /\ t.op \notin Computed
        BY <1>1, <2>1, <2>2 DEF Derived, Computed, Running
  <2> QED  BY <2>2, <2>3, DerivedStep
<1>4. CASE FindRun(q)
  <2>1. PICK results \in ResultsOf(q) :
            Move(q, [req[q] EXCEPT !.op = IF run = NoRun THEN "flush" ELSE "snapshot",
                                   !.seen = run, !.results = results,
                                   !.row = RowOf(req[q].source, results)])
        BY <1>4 DEF FindRun
  <2> DEFINE next == IF run = NoRun THEN "flush" ELSE "snapshot"
             row == RowOf(req[q].source, results)
             t == [req[q] EXCEPT !.op = next, !.seen = run, !.results = results,
                                 !.row = row]
  <2>2. /\ t.op = next /\ t.row = row /\ t.results = results
        /\ t.source = req[q].source
        /\ t.books = req[q].books /\ t.records = req[q].records
    <3> HIDE DEF next, row
    <3> QED  BY <1>1 DEF IsRequest
  <2>3. Move(q, t) /\ req[q].op = "find" /\ UNCHANGED books
        BY <1>4, <2>1, Executed DEF FindRun
  <2> HIDE DEF t
  <2>4. FilesOf(req, t.records)
        BY <1>1, <2>2, <2>3 DEF Knows
  <2>5. results \in Outcomes(t.books, [r \in t.records |-> req[r[1]].file[r[2]]])
        BY <2>2 DEF ResultsOf, RecordEntry
  <2>6. Derived(req, t)
        BY <1>1, <2>2, <2>3, <2>5 DEF Derived, Running
  <2> QED  BY <2>3, <2>4, <2>6, DerivedStep
<1> QED  BY <1>2, <1>3, <1>4

\* A run goes on with what it has computed.
LEMMA DerivedOn ==
    ASSUME Inv, DerivedInv, NEW q \in Requests,
           SnapshotMatches(q) \/ DeleteMatches(q) \/ FlushRun(q) \/ CommitRun(q)
    PROVE  DerivedInv'
<1>1. IsRequest(req[q]) /\ Knows(req, req[q]) /\ Derived(req, req[q])
      BY Known DEF DerivedInv
<1>2. req[q].op \in Computed /\ req[q].op # "done"
      BY Executed DEF SnapshotMatches, DeleteMatches, FlushRun, CommitRun, Computed
<1>3. \E t : /\ Move(q, t) /\ t.op \in Computed \cup {"done"}
             /\ t.source = req[q].source
             /\ t.books = req[q].books /\ t.records = req[q].records
             /\ t.results = req[q].results /\ t.row = req[q].row
  <2>1. CASE SnapshotMatches(q)
    <3> DEFINE t == [req[q] EXCEPT !.op = "replace", !.old = matches]
    <3>1. /\ t.op = "replace" /\ t.source = req[q].source
          /\ t.books = req[q].books /\ t.records = req[q].records
          /\ t.results = req[q].results /\ t.row = req[q].row
          BY <1>1 DEF IsRequest
    <3>2. Move(q, t)
          BY <2>1 DEF SnapshotMatches
    <3> HIDE DEF t
    <3> QED  BY <3>1, <3>2 DEF Computed
  <2>2. CASE DeleteMatches(q)
    <3> DEFINE t == [req[q] EXCEPT !.op = "flush", !.old = req[q].old \cap matches]
    <3>1. /\ t.op = "flush" /\ t.source = req[q].source
          /\ t.books = req[q].books /\ t.records = req[q].records
          /\ t.results = req[q].results /\ t.row = req[q].row
          BY <1>1 DEF IsRequest
    <3>2. Move(q, t)
          BY <2>2 DEF DeleteMatches
    <3> HIDE DEF t
    <3> QED  BY <3>1, <3>2 DEF Computed
  <2>3. CASE FlushRun(q)
    <3> DEFINE t == [req[q] EXCEPT !.op = "insert_matches"]
    <3>1. /\ t.op = "insert_matches" /\ t.source = req[q].source
          /\ t.books = req[q].books /\ t.records = req[q].records
          /\ t.results = req[q].results /\ t.row = req[q].row
          BY <1>1 DEF IsRequest
    <3>2. Move(q, t)
          BY <2>3 DEF FlushRun
    <3> HIDE DEF t
    <3> QED  BY <3>1, <3>2 DEF Computed
  <2>4. CASE CommitRun(q)
    <3> DEFINE t == [req[q] EXCEPT !.op = "done", !.old = {}]
    <3>1. /\ t.op = "done" /\ t.source = req[q].source
          /\ t.books = req[q].books /\ t.records = req[q].records
          /\ t.results = req[q].results /\ t.row = req[q].row
          BY <1>1 DEF IsRequest
    <3>2. Move(q, t)
          BY <2>4 DEF CommitRun
    <3> HIDE DEF t
    <3> QED  BY <3>1, <3>2
  <2> QED  BY <2>1, <2>2, <2>3, <2>4
<1>4. PICK t : /\ Move(q, t) /\ t.op \in Computed \cup {"done"}
               /\ t.source = req[q].source
               /\ t.books = req[q].books /\ t.records = req[q].records
               /\ t.results = req[q].results /\ t.row = req[q].row
      BY <1>3
<1>5. Derived(req, t)
  <2>1. CASE t.op = "done"
        BY <2>1 DEF Derived, Running, Computed
  <2>2. CASE t.op # "done"
        BY <1>1, <1>2, <1>4, <2>2 DEF Derived, Running
  <2> QED  BY <2>1, <2>2
<1>6. FilesOf(req, t.records)
      BY <1>1, <1>2, <1>4 DEF Knows
<1>7. UNCHANGED books
      BY DEF SnapshotMatches, DeleteMatches, FlushRun, CommitRun
<1> QED  BY <1>2, <1>4, <1>5, <1>6, <1>7, DerivedStep

LEMMA DerivedNext ==
    ASSUME Inv, DerivedInv, [Next]_vars
    PROVE  DerivedInv'
<1>1. ASSUME UNCHANGED vars \/ \E i \in Invoices : Extract(i)
      PROVE  DerivedInv'
  <2>1. UNCHANGED req /\ books \subseteq books'
        BY <1>1 DEF vars, Extract
  <2> QED  BY <2>1 DEF DerivedInv, Derived
<1>2. ASSUME NEW q \in Requests, Refuse(q) \/ Deadlock(q) \/ Fail(q)
      PROVE  DerivedInv'
  <2>1. req[q].op # "done"
        BY <1>2, Stopped DEF Refuse, Deadlock, Fail
  <2>2. Move(q, Over(q)) /\ UNCHANGED books
        BY <1>2 DEF Refuse, Deadlock, Fail
  <2>3. IsRequest(req[q])
        BY Known
  <2>4. Over(q).op \notin Running
        BY <2>3 DEF Over, IsRequest, Running, Computed
  <2> QED  BY <2>1, <2>2, <2>4, DerivedIdle
<1>3. ASSUME NEW q \in Requests, BeginImport(q) \/ BeginRun(q)
      PROVE  DerivedInv'
      BY <1>3, DerivedImport, DerivedRun
<1>4. ASSUME NEW q \in Requests, Work(q)
      PROVE  DerivedInv'
      BY <1>2, <1>4, DerivedImport, DerivedRun, DerivedOn DEF Work
<1> QED  BY <1>1, <1>2, <1>3, <1>4 DEF Next

\* The start of an organization.
LEMMA InitIsPeriod == Init => Period!Init
<1> SUFFICES ASSUME Init
             PROVE  Period!Init
    OBVIOUS
<1>1. \A s : RecordsOf(s) = {}
      BY DEF Init, RecordsOf
<1>2. Uploaded = [s \in Sources |-> [r \in {} |-> r]]
  <2>1. \A s \in Sources : [r \in RecordsOf(s) |-> RecordEntry(r)] = [r \in {} |-> r]
        BY <1>1
  <2> QED  BY <2>1 DEF Uploaded
<1>3. Found = {}
      BY DEF Init, Found
<1> QED  BY <1>2, <1>3 DEF Init, Period!Init, Period!NoFile

\* What other requests have uploaded is not touched by a step of q.
LEMMA UploadedStays ==
    ASSUME Inv, NEW q \in Requests, NEW t, Move(q, t), req[q].op # "done"
    PROVE  /\ \A r \in records : /\ r[1] # q
                                 /\ req'[r[1]] = req[r[1]]
                                 /\ RecordEntry(r)' = RecordEntry(r)
           /\ records' = records => Uploaded' = Uploaded
<1>1. FilesOf(req, records)
      BY Known
<1>2. \A r \in records : /\ r[1] # q
                         /\ req'[r[1]] = req[r[1]]
                         /\ RecordEntry(r)' = RecordEntry(r)
      BY <1>1, RowsStay
<1>3. ASSUME records' = records
      PROVE  Uploaded' = Uploaded
  <2>1. \A s : RecordsOf(s)' = RecordsOf(s)
        BY <1>2, <1>3 DEF RecordsOf
  <2>2. \A s : \A r \in RecordsOf(s) : RecordEntry(r)' = RecordEntry(r)
        BY <1>2 DEF RecordsOf
  <2>3. ASSUME NEW s \in Sources
        PROVE  [r \in RecordsOf(s)' |-> RecordEntry(r)'] = [r \in RecordsOf(s) |-> RecordEntry(r)]
        BY <2>1, <2>2
  <2> QED  BY <2>3 DEF Uploaded
<1> QED  BY <1>2, <1>3

\* When an import commits, its rows are all that its source has.
LEMMA CommitImportIsUpload ==
    ASSUME Inv, NEW q \in Requests, CommitImport(q)
    PROVE  \E s \in Sources : Period!Upload(s)
<1> DEFINE t == [req[q] EXCEPT !.op = "done", !.records = {}]
           file == req[q].file
           s == req[q].source
           kept == records \ req[q].records
           new == {<<q, n>> : n \in DOMAIN file}
<1>1. /\ IsRequest(req[q]) /\ Knows(req, req[q]) /\ FilesOf(req, records)
      /\ req = [p \in Requests |-> req[p]] /\ req[q].op = "insert_records"
      BY Known, Executed DEF CommitImport
<1>2. /\ file \in Files /\ s \in Sources
      /\ FilesOf(req, req[q].records) /\ FromSource(req, req[q].records, s)
      BY <1>1 DEF Knows, Importing
<1>3. /\ Move(q, t) /\ RowsFree(q) /\ records' = kept \cup new
      /\ UNCHANGED <<books, run, matches, raced>>
      BY Executed DEF CommitImport
<1>4. t.source = s /\ t.file = file
      BY <1>1 DEF IsRequest
<1>5. req'[q] = t
      BY <1>1, <1>3 DEF Move
<1> HIDE DEF t
<1>6. \A r \in records : r[1] # q /\ req'[r[1]] = req[r[1]] /\ RecordEntry(r)' = RecordEntry(r)
      BY <1>1, <1>3, UploadedStays
<1>7. file \in Seq(Entry) /\ file # <<>>
      BY <1>2, RequestsAssumption
<1>8. 1 \in DOMAIN file
      BY <1>7
<1>9. \A r \in kept : req[r[1]].source # s
  <2> SUFFICES ASSUME NEW r \in kept, req[r[1]].source = s
               PROVE  FALSE
      OBVIOUS
  <2>1. FilesOf(req, kept)
        BY <1>1, <1>2, StillThere
  <2>2. req[r[1]].file \in Seq(Entry) /\ req[r[1]].file # <<>>
        BY <2>1, RequestsAssumption DEF FilesOf
  <2>3. 1 \in DOMAIN req[r[1]].file
        BY <2>2
  <2>4. <<r[1], 1>> \in kept
        BY <2>1, <2>3 DEF FilesOf
  <2>5. <<r[1], 1>> \in RecordsOf(s) \ req[q].records
        BY <2>4 DEF RecordsOf
  <2> QED  BY <1>3, <1>8, <2>5 DEF RowsFree
<1>10. \A r \in new : r[1] = q
       OBVIOUS
<1>11. new # {}
       BY <1>8
<1> HIDE DEF new
<1>12. RecordsOf(s)' = new
       BY <1>3, <1>4, <1>5, <1>6, <1>9, <1>10 DEF RecordsOf
<1>13. ASSUME NEW u \in Sources, u # s
       PROVE  /\ RecordsOf(u)' = RecordsOf(u)
              /\ \A r \in RecordsOf(u) : RecordEntry(r)' = RecordEntry(r)
  <2>1. \A r \in records : req[r[1]].source = u => r \in kept
        BY <1>2, <1>13 DEF FromSource
  <2> QED  BY <1>3, <1>4, <1>5, <1>6, <1>10, <1>13, <2>1 DEF RecordsOf
<1>14. /\ DOMAIN Uploaded'[s] = new
       /\ \A u \in Sources : DOMAIN Uploaded[u] = RecordsOf(u)
       /\ \A u \in Sources \ {s} : Uploaded'[u] = Uploaded[u]
  <2>1. /\ \A u \in Sources : Uploaded[u] = [r \in RecordsOf(u) |-> RecordEntry(r)]
        /\ \A u \in Sources : Uploaded'[u] = [r \in RecordsOf(u)' |-> RecordEntry(r)']
        BY DEF Uploaded
  <2>2. DOMAIN Uploaded'[s] = new
    <3>1. \A u \in Sources : DOMAIN Uploaded'[u] = RecordsOf(u)'
          BY <2>1
    <3>2. PICK u \in Sources : u = s
          BY <1>2
    <3>3. s' = s
          BY <1>4, <1>5
    <3>4. RecordsOf(u)' = new
          BY <1>12, <3>2, <3>3
    <3> QED  BY <3>1, <3>2, <3>4
  <2>3. \A u \in Sources : DOMAIN Uploaded[u] = RecordsOf(u)
        BY <2>1
  <2>4. ASSUME NEW u \in Sources, u # s
        PROVE  Uploaded'[u] = Uploaded[u]
    <3>1. [r \in RecordsOf(u)' |-> RecordEntry(r)'] = [r \in RecordsOf(u) |-> RecordEntry(r)]
          BY <1>13, <2>4
    <3> QED  BY <2>1, <3>1
  <2> QED  BY <2>2, <2>3, <2>4
<1>15. Uploaded' = [Uploaded EXCEPT ![s] = Uploaded'[s]]
       BY <1>14 DEF Uploaded
<1>16. \A u \in Sources : DOMAIN Uploaded'[s] \cap DOMAIN Uploaded[u] = {}
       BY <1>6, <1>10, <1>14 DEF RecordsOf
<1>17. UNCHANGED Found
       BY <1>3 DEF Found
<1> QED  BY <1>2, <1>3, <1>11, <1>14, <1>15, <1>16, <1>17 DEF Period!Upload

\* When a run commits, it is about the file that its source has.
LEMMA CommitRunIsRun ==
    ASSUME Inv, SerialInv, DerivedInv, NEW q \in Requests, CommitRun(q)
    PROVE  \E s \in Sources : Period!Run(s)
<1> DEFINE t == [req[q] EXCEPT !.op = "done", !.old = {}]
           s == req[q].source
           new == req[q].results
<1>1. /\ req = [p \in Requests |-> req[p]] /\ Knows(req, req[q])
      /\ Derived(req, req[q]) /\ MatchesOf(req, matches)
      /\ req[q].op = "insert_matches" /\ req[q].records = RecordsOf(s)
      BY Known, Executed, CommitIsCurrent DEF CommitRun, DerivedInv
<1>2. /\ Move(q, t) /\ UNCHANGED <<books, records, raced>>
      /\ matches' = (matches \ req[q].old) \cup [by : {q}, result : new]
      /\ run' = [c \in Columns |-> IF c \in Changed(q) THEN req[q].row[c] ELSE run[c]]
      BY DEF CommitRun
<1>3. /\ s \in Sources /\ req[q].records # {} /\ req[q].books \subseteq books
      /\ new \in Outcomes(req[q].books, [r \in req[q].records |-> req[r[1]].file[r[2]]])
      /\ req[q].row = RowOf(s, new)
      BY <1>1 DEF Knows, Derived, Running, Computed
<1>4. Uploaded[s] = [r \in req[q].records |-> req[r[1]].file[r[2]]]
      BY <1>1, <1>3 DEF Uploaded, RecordEntry
<1>5. DOMAIN Uploaded[s] # {}
      BY <1>3, <1>4
<1>6. new \in Outcomes(req[q].books, Uploaded[s])
      BY <1>3, <1>4
<1>7. Uploaded' = Uploaded
      BY <1>1, <1>2, UploadedStays
<1> HIDE DEF t, new
<1>8. Found' = {m.result : m \in matches \ req[q].old} \cup new
  <2>1. {m.result : m \in [by : {q}, result : new]} = new
    <3>1. ASSUME NEW r \in new
          PROVE  \E m \in [by : {q}, result : new] : m.result = r
      <4>1. [by |-> q, result |-> r] \in [by : {q}, result : new]
            OBVIOUS
      <4> QED  BY <4>1
    <3>2. \A m \in [by : {q}, result : new] : m.result \in new
          OBVIOUS
    <3> QED  BY <3>1, <3>2
  <2> QED  BY <1>2, <2>1 DEF Found
<1>9. new \subseteq Found' /\ Found' \subseteq Found \cup new
      BY <1>8 DEF Found
<1>10. DOMAIN run = Columns
       BY DEF SerialInv
<1>11. run' = [c \in DOMAIN run |-> run'[c]]
       BY <1>2, <1>10
<1>12. \A c \in DOMAIN run : run'[c] \in {RowOf(s, new)[c], run[c]}
       BY <1>2, <1>3, <1>10
<1>13. ASSUME ~ raced
       PROVE  Found' = new /\ run' = RowOf(s, new)
  <2>1. UpToDate(req[q])
        BY <1>13 DEF SerialInv
  <2>2. req[q].old = matches /\ req[q].seen = run
        BY <1>1, <2>1 DEF UpToDate, Computed
  <2>3. Found' = new
        BY <1>8, <2>2
  <2>4. \A c \in Columns : c \notin Changed(q) => req[q].row[c] = run[c]
        BY <2>2 DEF Changed
  <2>5. run' = [c \in Columns |-> req[q].row[c]]
        BY <1>2, <2>4
  <2>6. RowOf(s, new) = [c \in Columns |-> RowOf(s, new)[c]]
        BY DEF RowOf
  <2> QED  BY <1>3, <2>3, <2>5, <2>6
<1>14. PICK B \in SUBSET books : B = req[q].books
       BY <1>3
<1> HIDE DEF s
<1>15. Period!Run(s)
       BY <1>2, <1>5, <1>6, <1>7, <1>9, <1>11, <1>12, <1>13, <1>14 DEF Period!Run
<1> QED  BY <1>3, <1>15

PeriodVars == <<books, Uploaded, Found, run, raced>>

\* The steps that commit nothing are not seen.
LEMMA QuietIsPeriod ==
    ASSUME Inv, NEW q \in Requests, NEW t, Move(q, t), req[q].op # "done",
           UNCHANGED <<books, records, run, matches>>, raced' = raced \/ raced' = TRUE
    PROVE  Period!Overlap \/ UNCHANGED PeriodVars
<1>1. Uploaded' = Uploaded /\ Found' = Found
      BY UploadedStays DEF Found
<1> QED  BY <1>1 DEF Period!Overlap, PeriodVars

LEMMA StepIsPeriod ==
    ASSUME Inv, SerialInv, DerivedInv, TypeOK, [Next]_vars
    PROVE  [Period!Next]_PeriodVars
<1>1. CASE UNCHANGED vars
  <2>1. UNCHANGED <<books, records, run, matches, req, raced>>
        BY <1>1 DEF vars
  <2> QED  BY <2>1 DEF PeriodVars, Uploaded, Found, RecordsOf, RecordEntry
<1>2. ASSUME NEW i \in Invoices, Extract(i)
      PROVE  Period!Extract(i)
  <2>1. books' = books \cup {i} /\ UNCHANGED <<records, run, matches, req, raced>>
        BY <1>2 DEF Extract
  <2>2. UNCHANGED <<Uploaded, Found>>
        BY <2>1 DEF Uploaded, Found, RecordsOf, RecordEntry
  <2> QED  BY <2>1, <2>2 DEF Period!Extract
<1>3. ASSUME NEW q \in Requests,
             \/ BeginImport(q) \/ DeleteRecords(q) \/ UnlinkMatches(q)
             \/ BeginRun(q) \/ ReadRecords(q) \/ FindRun(q) \/ SnapshotMatches(q)
             \/ DeleteMatches(q) \/ FlushRun(q)
             \/ Refuse(q) \/ Deadlock(q) \/ Fail(q)
      PROVE  Period!Overlap \/ UNCHANGED PeriodVars
  <2>1. req[q].op # "done"
    <3>1. CASE BeginImport(q) \/ BeginRun(q)
      <4>1. req[q] = New /\ New.op = "new"
            BY <3>1 DEF BeginImport, BeginRun, IsNext, New
      <4> QED  BY <4>1
    <3>2. CASE Refuse(q) \/ Deadlock(q) \/ Fail(q)
          BY <3>2, Stopped DEF Refuse, Deadlock, Fail
    <3>3. CASE DeleteRecords(q) \/ UnlinkMatches(q)
          BY <3>3, Executed DEF DeleteRecords, UnlinkMatches
    <3>4. CASE ReadRecords(q) \/ FindRun(q) \/ SnapshotMatches(q)
      <4>1. \E op \in Running : Executes(q, op)
            BY <3>4 DEF ReadRecords, FindRun, SnapshotMatches, Running, Computed
      <4> QED  BY <4>1, Executed DEF Running, Computed
    <3>5. CASE DeleteMatches(q) \/ FlushRun(q)
          BY <3>5, Executed DEF DeleteMatches, FlushRun
    <3> QED  BY <1>3, <3>1, <3>2, <3>3, <3>4, <3>5
  <2>2. /\ UNCHANGED <<books, records, run, matches>>
        /\ raced' = raced \/ raced' = TRUE
        BY <1>3 DEF TypeOK, BeginImport, DeleteRecords, UnlinkMatches, BeginRun, ReadRecords,
             FindRun, SnapshotMatches, DeleteMatches, FlushRun, Refuse, Deadlock, Fail
  <2>3. \E t : Move(q, t)
        BY <1>3 DEF BeginImport, DeleteRecords, UnlinkMatches, BeginRun, ReadRecords,
             FindRun, SnapshotMatches, DeleteMatches, FlushRun, Refuse, Deadlock, Fail
  <2> QED  BY <2>1, <2>2, <2>3, QuietIsPeriod
<1>4. ASSUME NEW q \in Requests, CommitImport(q) \/ CommitRun(q)
      PROVE  \E s \in Sources : Period!Upload(s) \/ Period!Run(s)
      BY <1>4, CommitImportIsUpload, CommitRunIsRun
<1> QED  BY <1>1, <1>2, <1>3, <1>4 DEF Next, Work, Period!Next

\* Whatever the interleaving, the locks and the failures, what is committed is
\* what uploads and runs would leave that come one by one.
THEOREM Implements == Spec => ActsInTurn
<1>1. Init => DerivedInv
  <2> SUFFICES ASSUME Init
               PROVE  DerivedInv
      OBVIOUS
  <2>1. \A q \in Requests : req[q].op = "new"
        BY DEF Init, New
  <2> QED  BY <2>1 DEF DerivedInv, Derived, Running, Computed
<1>2. Inv /\ DerivedInv /\ [Next]_vars => DerivedInv'
      BY DerivedNext
<1>3. Inv /\ SerialInv /\ DerivedInv /\ TypeOK /\ [Next]_vars => [Period!Next]_PeriodVars
      BY StepIsPeriod
<1> QED  BY <1>1, <1>2, <1>3, InitIsPeriod, Invariance, SerialInvariance, TypeCorrect, PTL
         DEF Spec, ActsInTurn, Period!Spec, Period!vars, PeriodVars
=============================================================================
