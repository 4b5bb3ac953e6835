--------------------------- MODULE Reports_proofs ---------------------------
(***************************************************************************)
(* Proofs about Reports for any calendar, any invoices, vouchers and       *)
(* ledgers, any length of the books, and whatever is committed between     *)
(* the SELECTs of a report.                                                *)
(***************************************************************************)
EXTENDS Reports, GstCalculator, FiniteSetTheorems, TLAPS

-----------------------------------------------------------------------------
(* Sums over finite sets: what the folds of the community modules add up,  *)
(* whatever the order in which they choose.                                *)

\* A set of subsets of a finite set has a minimal member: sums are reasoned
\* about by the smallest set that would be a counterexample.
LEMMA MinimalSubset ==
    ASSUME NEW S, IsFiniteSet(S), NEW C, C \subseteq SUBSET S, C # {}
    PROVE  \E T \in C : \A U \in C : ~ (U \subseteq T /\ U # T)
<1>1. FiniteSubsetsOf(S) = SUBSET S
      BY FS_FiniteSubsetsOfFinite
<1>2. IsWellFoundedOn(StrictSubsetOrdering(S), SUBSET S)
      BY <1>1, FS_StrictSubsetOrderingWellFounded
<1>3. \E T \in C : \A U \in C : ~ (<<U, T>> \in StrictSubsetOrdering(S))
      BY <1>2, WFMin
<1> QED  BY <1>3 DEF StrictSubsetOrdering

\* The element a sum adds next.
Pick(s) == CHOOSE x \in s : TRUE

\* g gives the sum of f over each subset of S.
Sums(f, S, g) ==
    g = [s \in SUBSET S |-> IF s = {} THEN 0 ELSE f[Pick(s)] + g[s \ {Pick(s)}]]

\* What g is of the empty set and of any other subset.
LEMMA SumsStep ==
    ASSUME NEW S, NEW f, NEW g, Sums(f, S, g)
    PROVE  /\ g[{}] = 0
           /\ \A s \in SUBSET S : s # {} =>
                  g[s] = f[Pick(s)] + g[s \ {Pick(s)}] /\ Pick(s) \in s
<1>1. g[{}] = 0
  <2>1. {} \in SUBSET S
        OBVIOUS
  <2> QED  BY <2>1 DEF Sums
<1>2. ASSUME NEW s \in SUBSET S, s # {}
      PROVE  g[s] = f[Pick(s)] + g[s \ {Pick(s)}] /\ Pick(s) \in s
  <2>1. Pick(s) \in s
        BY <1>2 DEF Pick
  <2>2. g[s] = f[Pick(s)] + g[s \ {Pick(s)}]
        BY <1>2 DEF Sums
  <2> QED  BY <2>1, <2>2
<1> QED  BY <1>1, <1>2

\* Sums over a set and over a part of it are the same on the subsets of the part.
LEMMA SumsAgree ==
    ASSUME NEW S, IsFiniteSet(S), NEW f, NEW g, NEW h, NEW R, R \subseteq S,
           Sums(f, S, g), Sums(f, R, h)
    PROVE  \A s \in SUBSET R : g[s] = h[s]
<1>h. ASSUME NEW s \in SUBSET R, s # {}
      PROVE  h[s] = f[Pick(s)] + h[s \ {Pick(s)}]
      BY <1>h, SumsStep
<1> DEFINE C == {s \in SUBSET R : g[s] # h[s]}
<1> SUFFICES ASSUME C # {}
             PROVE FALSE
    OBVIOUS
<1>1. IsFiniteSet(R)
      BY FS_Subset
<1>2. C \subseteq SUBSET R
      OBVIOUS
<1>3. PICK T \in C : \A U \in C : ~ (U \subseteq T /\ U # T)
  <2> HIDE DEF C
  <2> QED  BY <1>1, <1>2, MinimalSubset
<1>4. T # {}
  <2>1. g[{}] = h[{}]
        BY SumsStep
  <2> QED  BY <2>1
<1> DEFINE U == T \ {Pick(T)}
<1>5. /\ g[T] = f[Pick(T)] + g[U] /\ h[T] = f[Pick(T)] + h[U]
      /\ Pick(T) \in T
  <2>1. T \in SUBSET R /\ T \in SUBSET S
        OBVIOUS
  <2> HIDE DEF C
  <2>2. g[T] = f[Pick(T)] + g[U] /\ Pick(T) \in T
        BY <1>4, <2>1, SumsStep
  <2>4. h[T] = f[Pick(T)] + h[U]
        BY <1>4, <1>h, <2>1
  <2> QED  BY <2>2, <2>4
<1>6. U \notin C
  <2>1. U \subseteq T /\ U # T
        BY <1>5
  <2> HIDE DEF U, C
  <2> QED  BY <1>3, <2>1
<1>7. g[U] = h[U]
      BY <1>6
<1>8. g[T] = h[T]
      BY <1>5, <1>7
<1> QED  BY <1>8

\* Every finite set has its sums.
LEMMA SumsExist ==
    ASSUME NEW S, IsFiniteSet(S), NEW f
    PROVE  \E g : Sums(f, S, g)
<1> DEFINE C == {s \in SUBSET S : ~ \E g : Sums(f, s, g)}
<1> SUFFICES ASSUME C # {}
             PROVE FALSE
    OBVIOUS
<1>1. PICK T \in C : \A U \in C : ~ (U \subseteq T /\ U # T)
  <2>1. C \subseteq SUBSET S
        OBVIOUS
  <2> HIDE DEF C
  <2> QED  BY <2>1, MinimalSubset
<1> DEFINE G(s) == CHOOSE g : Sums(f, s, g)
           h == [s \in SUBSET T |->
                    IF s = {} THEN 0
                    ELSE f[Pick(s)] + G(s \ {Pick(s)})[s \ {Pick(s)}]]
<1>2. ASSUME NEW s \in SUBSET T, s # T
      PROVE  Sums(f, s, G(s)) /\ IsFiniteSet(s)
  <2>1. s \in SUBSET S /\ s \notin C
        BY <1>1, <1>2
  <2>2. \E g : Sums(f, s, g)
        BY <2>1
  <2>3. IsFiniteSet(s)
        BY <2>1, FS_Subset
  <2> QED  BY <2>2, <2>3
<1> HIDE DEF G
<1>3. \A s \in SUBSET T : s # {} => Pick(s) \in s
      BY DEF Pick
<1>4. ASSUME NEW s \in SUBSET T, s # T
      PROVE  G(s)[s] = h[s]
  <2>1. Sums(f, s, G(s)) /\ IsFiniteSet(s)
        BY <1>2, <1>4
  <2>2. CASE s = {}
    <3>1. G(s)[{}] = 0
          BY <2>1, SumsStep
    <3> QED  BY <2>2, <3>1
  <2>3. CASE s # {}
    <3> DEFINE r == s \ {Pick(s)}
    <3>1. r \in SUBSET s /\ r \in SUBSET T /\ r # T
          BY <1>3, <1>4, <2>3
    <3>2. Sums(f, r, G(r))
          BY <1>2, <3>1
    <3>3. G(s)[s] = f[Pick(s)] + G(s)[r]
      <4>1. s \in SUBSET s
            OBVIOUS
      <4> QED  BY <2>1, <2>3, <4>1, SumsStep
    <3>4. h[s] = f[Pick(s)] + G(r)[r]
          BY <2>3
    <3> HIDE DEF r, h
    <3>5. G(s)[r] = G(r)[r]
          BY <2>1, <3>1, <3>2, SumsAgree
    <3> QED  BY <3>3, <3>4, <3>5
  <2> QED  BY <2>2, <2>3
<1>5. Sums(f, T, h)
  <2>1. ASSUME NEW s \in SUBSET T, s # {}
        PROVE  h[s] = f[Pick(s)] + h[s \ {Pick(s)}]
    <3>1. s \ {Pick(s)} \in SUBSET T /\ s \ {Pick(s)} # T
          BY <1>3, <2>1
    <3> QED  BY <1>4, <2>1, <3>1
  <2>2. h[{}] = 0
    <3>1. {} \in SUBSET T
          OBVIOUS
    <3> QED  BY <3>1
  <2>3. h = [s \in SUBSET T |-> h[s]]
        OBVIOUS
  <2> HIDE DEF h
  <2>4. h = [s \in SUBSET T |-> IF s = {} THEN 0 ELSE f[Pick(s)] + h[s \ {Pick(s)}]]
        BY <2>1, <2>2, <2>3
  <2> QED  BY <2>4 DEF Sums
<1>6. T \in C
      BY <1>1
<1> HIDE DEF h
<1> QED  BY <1>5, <1>6

\* The sum of f over S.
Total(f, S) == (CHOOSE g : Sums(f, S, g))[S]

\* The sum of a subset does not depend on the set it is taken from.
LEMMA TotalIs ==
    ASSUME NEW S, IsFiniteSet(S), NEW f, NEW g, Sums(f, S, g), NEW T \in SUBSET S
    PROVE  g[T] = Total(f, T)
<1>1. IsFiniteSet(T)
      BY FS_Subset
<1>2. \E h : Sums(f, T, h)
      BY <1>1, SumsExist
<1>3. Sums(f, T, CHOOSE h : Sums(f, T, h))
      BY <1>2
<1> DEFINE h == CHOOSE h : Sums(f, T, h)
<1> HIDE DEF h
<1>4. T \in SUBSET T
      OBVIOUS
<1>5. g[T] = h[T]
      BY <1>3, <1>4, SumsAgree DEF h
<1> QED  BY <1>5 DEF Total, h

\* A sum, by the element the fold chooses.
LEMMA TotalStep ==
    ASSUME NEW S, IsFiniteSet(S), NEW f
    PROVE  /\ Total(f, {}) = 0
           /\ S # {} => Pick(S) \in S /\ Total(f, S) = f[Pick(S)] + Total(f, S \ {Pick(S)})
<1>1. PICK g : Sums(f, S, g)
      BY SumsExist
<1>2. \A T \in SUBSET S : g[T] = Total(f, T)
      BY <1>1, TotalIs
<1>3. {} \in SUBSET S /\ S \in SUBSET S /\ S \ {Pick(S)} \in SUBSET S
      OBVIOUS
<1> QED  BY <1>1, <1>2, <1>3, SumsStep

\* Only the values on S count.
LEMMA TotalSame ==
    ASSUME NEW S, IsFiniteSet(S), NEW f, NEW g, \A x \in S : f[x] = g[x]
    PROVE  Total(f, S) = Total(g, S)
<1>1. PICK h : Sums(f, S, h)
      BY SumsExist
<1>2. Sums(g, S, h)
  <2>1. \A s \in SUBSET S : s # {} => f[Pick(s)] = g[Pick(s)]
        BY DEF Pick
  <2>2. h = [s \in SUBSET S |-> IF s = {} THEN 0 ELSE f[Pick(s)] + h[s \ {Pick(s)}]]
        BY <1>1 DEF Sums
  <2>3. h = [s \in SUBSET S |-> IF s = {} THEN 0 ELSE g[Pick(s)] + h[s \ {Pick(s)}]]
        BY <2>1, <2>2
  <2> QED  BY <2>3 DEF Sums
<1>3. S \in SUBSET S
      OBVIOUS
<1> QED  BY <1>1, <1>2, <1>3, TotalIs

\* Sums of integers are integers.
LEMMA TotalInt ==
    ASSUME NEW S, IsFiniteSet(S), NEW f, \A x \in S : f[x] \in Int
    PROVE  \A s \in SUBSET S : Total(f, s) \in Int
<1> DEFINE C == {s \in SUBSET S : Total(f, s) \notin Int}
<1> SUFFICES ASSUME C # {}
             PROVE FALSE
    OBVIOUS
<1>1. PICK T \in C : \A U \in C : ~ (U \subseteq T /\ U # T)
  <2>1. C \subseteq SUBSET S
        OBVIOUS
  <2> HIDE DEF C
  <2> QED  BY <2>1, MinimalSubset
<1>2. IsFiniteSet(T)
      BY FS_Subset
<1> DEFINE U == T \ {Pick(T)}
<1>3. T # {} /\ Pick(T) \in T /\ Total(f, T) = f[Pick(T)] + Total(f, U)
  <2>1. Total(f, {}) = 0
        BY <1>2, TotalStep
  <2>2. T # {}
        BY <2>1
  <2> QED  BY <1>2, <2>2, TotalStep
<1>4. Total(f, U) \in Int
      BY <1>1, <1>3
<1> QED  BY <1>3, <1>4

\* An element more adds its value, whichever element the fold chooses.
LEMMA TotalAdd ==
    ASSUME NEW S, IsFiniteSet(S), NEW f, \A x \in S : f[x] \in Int, NEW a \in S
    PROVE  Total(f, S) = f[a] + Total(f, S \ {a})
<1> DEFINE C == {s \in SUBSET S :
                    \E x \in s : Total(f, s) # f[x] + Total(f, s \ {x})}
<1> SUFFICES ASSUME C # {}
             PROVE FALSE
  <2>1. S \in SUBSET S
        OBVIOUS
  <2> QED  BY <2>1
<1>1. PICK T \in C : \A U \in C : ~ (U \subseteq T /\ U # T)
  <2>1. C \subseteq SUBSET S
        OBVIOUS
  <2> HIDE DEF C
  <2> QED  BY <2>1, MinimalSubset
<1>2. PICK x \in T : Total(f, T) # f[x] + Total(f, T \ {x})
      BY <1>1
<1> DEFINE b == Pick(T)
           U == T \ {b}
           V == T \ {x}
<1>3. IsFiniteSet(T) /\ T # {} /\ T \in SUBSET S
      BY <1>2, FS_Subset
<1>4. b \in T /\ Total(f, T) = f[b] + Total(f, U)
      BY <1>3, TotalStep
<1> HIDE DEF b
<1>5. b # x
      BY <1>2, <1>4
<1>6. Total(f, U) = f[x] + Total(f, U \ {x})
  <2>1. U \in SUBSET S /\ U \notin C /\ x \in U
        BY <1>1, <1>2, <1>3, <1>4, <1>5
  <2> QED  BY <2>1
<1>7. Total(f, V) = f[b] + Total(f, V \ {b})
  <2>1. V \in SUBSET S /\ V \notin C /\ b \in V
        BY <1>1, <1>2, <1>3, <1>4, <1>5
  <2> QED  BY <2>1
<1>8. U \ {x} = V \ {b} /\ U \ {x} \in SUBSET S
      BY <1>3
<1>9. f[x] \in Int /\ f[b] \in Int /\ Total(f, U \ {x}) \in Int
      BY <1>2, <1>3, <1>4, <1>8, TotalInt
<1>10. \A m, n, k \in Int : m + (n + k) = n + (m + k)
      OBVIOUS
<1> DEFINE W == U \ {x}
<1>11. Total(f, T) = f[b] + (f[x] + Total(f, W))
      BY <1>4, <1>6
<1>12. Total(f, V) = f[b] + Total(f, W)
      BY <1>7, <1>8
<1> HIDE DEF U, V, W
<1>13. Total(f, T) = f[x] + Total(f, V)
      BY <1>9, <1>10, <1>11, <1>12 DEF W
<1> QED  BY <1>2, <1>13 DEF V

\* Induction: what holds of the empty set, and of a set with one element more
\* than a set it holds of, holds of every subset.
LEMMA SubsetInduction ==
    ASSUME NEW S, IsFiniteSet(S), NEW C, {} \in C,
           \A s \in SUBSET S : \A x \in S \ s : s \in C => s \cup {x} \in C
    PROVE  S \in C
<1> DEFINE D == (SUBSET S) \ C
<1> SUFFICES ASSUME D # {}
             PROVE FALSE
    OBVIOUS
<1>1. PICK T \in D : \A U \in D : ~ (U \subseteq T /\ U # T)
  <2>1. D \subseteq SUBSET S
        OBVIOUS
  <2> HIDE DEF D
  <2> QED  BY <2>1, MinimalSubset
<1>2. PICK x \in T : TRUE
      OBVIOUS
<1>3. T \ {x} \in SUBSET S /\ T \ {x} \in C /\ x \in S \ (T \ {x})
      BY <1>1
<1>4. (T \ {x}) \cup {x} = T
      OBVIOUS
<1>5. (T \ {x}) \cup {x} \in C
      BY <1>3
<1> QED  BY <1>4, <1>5

\* The sum over a set with one element more.
LEMMA TotalWith ==
    ASSUME NEW S, IsFiniteSet(S), NEW f, \A y \in S : f[y] \in Int,
           NEW s \in SUBSET S, NEW x \in S \ s
    PROVE  Total(f, s \cup {x}) = f[x] + Total(f, s) /\ Total(f, s) \in Int
<1> DEFINE T == s \cup {x}
<1>1. IsFiniteSet(T) /\ x \in T /\ \A y \in T : f[y] \in Int
      BY FS_Subset
<1>2. T \ {x} = s
      OBVIOUS
<1> HIDE DEF T
<1>3. Total(f, T) = f[x] + Total(f, T \ {x})
      BY <1>1, TotalAdd
<1> QED  BY <1>2, <1>3, TotalInt DEF T

\* The sum of two functions.
LEMMA TotalPlus ==
    ASSUME NEW S, IsFiniteSet(S), NEW f, NEW g, NEW h,
           \A x \in S : f[x] \in Int /\ g[x] \in Int /\ h[x] = f[x] + g[x]
    PROVE  Total(h, S) = Total(f, S) + Total(g, S)
<1> DEFINE C == {s \in SUBSET S : Total(h, s) = Total(f, s) + Total(g, s)}
<1>1. {} \in C
  <2>1. Total(f, {}) = 0 /\ Total(g, {}) = 0 /\ Total(h, {}) = 0
        BY TotalStep
  <2> QED  BY <2>1
<1>2. ASSUME NEW s \in SUBSET S, NEW x \in S \ s, s \in C
      PROVE  s \cup {x} \in C
  <2>0. \A y \in S : f[y] \in Int /\ g[y] \in Int /\ h[y] \in Int
        OBVIOUS
  <2>a. Total(f, s \cup {x}) = f[x] + Total(f, s) /\ Total(f, s) \in Int
        BY <2>0, TotalWith
  <2>b. Total(g, s \cup {x}) = g[x] + Total(g, s) /\ Total(g, s) \in Int
        BY <2>0, TotalWith
  <2>c. Total(h, s \cup {x}) = h[x] + Total(h, s)
        BY <2>0, TotalWith
  <2>2. f[x] \in Int /\ g[x] \in Int /\ h[x] = f[x] + g[x]
        OBVIOUS
  <2>3. Total(h, s) = Total(f, s) + Total(g, s)
        BY <1>2
  <2>4. Total(h, s \cup {x}) = Total(f, s \cup {x}) + Total(g, s \cup {x})
        BY <2>a, <2>b, <2>c, <2>2, <2>3
  <2> QED  BY <2>4
<1>3. S \in C
  <2> HIDE DEF C
  <2> QED  BY <1>1, <1>2, SubsetInduction
<1> QED  BY <1>3

\* Sums are monotone.
LEMMA TotalLeq ==
    ASSUME NEW S, IsFiniteSet(S), NEW f, NEW g,
           \A x \in S : f[x] \in Int /\ g[x] \in Int /\ f[x] <= g[x]
    PROVE  Total(f, S) <= Total(g, S)
<1> DEFINE C == {s \in SUBSET S : Total(f, s) <= Total(g, s)}
<1>1. {} \in C
  <2>1. Total(f, {}) = 0 /\ Total(g, {}) = 0
        BY TotalStep
  <2> QED  BY <2>1
<1>2. ASSUME NEW s \in SUBSET S, NEW x \in S \ s, s \in C
      PROVE  s \cup {x} \in C
  <2>a. Total(f, s \cup {x}) = f[x] + Total(f, s) /\ Total(f, s) \in Int
        BY TotalWith
  <2>b. Total(g, s \cup {x}) = g[x] + Total(g, s) /\ Total(g, s) \in Int
    <3>1. \A y \in S : g[y] \in Int
          OBVIOUS
    <3> HIDE DEF C
    <3> QED  BY <3>1, TotalWith
  <2>2. f[x] \in Int /\ g[x] \in Int /\ f[x] <= g[x]
        OBVIOUS
  <2>3. Total(f, s) <= Total(g, s)
        BY <1>2
  <2>4. Total(f, s \cup {x}) <= Total(g, s \cup {x})
        BY <2>a, <2>b, <2>2, <2>3
  <2> QED  BY <2>4
<1>3. S \in C
  <2> HIDE DEF C
  <2> QED  BY <1>1, <1>2, SubsetInduction
<1> QED  BY <1>3

\* The same value k for each element of A counts them.
LEMMA TotalCount ==
    ASSUME NEW S, IsFiniteSet(S), NEW f, NEW k \in Int, NEW A,
           \A x \in S : f[x] = IF x \in A THEN k ELSE 0
    PROVE  Total(f, S) = k * Cardinality(S \cap A)
<1> DEFINE C == {s \in SUBSET S : Total(f, s) = k * Cardinality(s \cap A)}
<1>1. {} \in C
  <2>1. Total(f, {}) = 0 /\ Cardinality({}) = 0 /\ {} \cap A = {}
        BY TotalStep, FS_EmptySet
  <2> QED  BY <2>1
<1>2. ASSUME NEW s \in SUBSET S, NEW x \in S \ s, s \in C
      PROVE  s \cup {x} \in C
  <2>1. /\ Total(f, s \cup {x}) = f[x] + Total(f, s) /\ Total(f, s) \in Int
        BY TotalWith
  <2>2. IsFiniteSet(s \cap A)
        BY FS_Subset
  <2>3. Total(f, s) = k * Cardinality(s \cap A)
        BY <1>2
  <2>4. Cardinality(s \cap A) \in Nat
        BY <2>2, FS_CardinalityType
  <2>5. CASE x \in A
    <3>1. (s \cup {x}) \cap A = (s \cap A) \cup {x} /\ x \notin s \cap A
          BY <2>5
    <3>2. Cardinality((s \cup {x}) \cap A) = Cardinality(s \cap A) + 1
          BY <2>2, <3>1, FS_AddElement
    <3>3. f[x] = k
          BY <2>5
    <3> DEFINE n == Cardinality(s \cap A)
    <3> HIDE DEF n
    <3>4. n \in Int => k + k * n = k * (n + 1)
          OBVIOUS
    <3>5. Total(f, s \cup {x}) = k * Cardinality((s \cup {x}) \cap A)
          BY <2>1, <2>3, <2>4, <3>2, <3>3, <3>4 DEF n
    <3> QED  BY <3>5
  <2>6. CASE x \notin A
    <3>1. (s \cup {x}) \cap A = s \cap A /\ f[x] = 0
          BY <2>6
    <3>2. Total(f, s \cup {x}) = Total(f, s)
          BY <2>1, <3>1
    <3>3. Total(f, s \cup {x}) = k * Cardinality((s \cup {x}) \cap A)
          BY <2>3, <3>1, <3>2
    <3> QED  BY <3>3
  <2> QED  BY <2>5, <2>6
<1>3. S \in C
  <2> HIDE DEF C
  <2> QED  BY <1>1, <1>2, SubsetInduction
<1> QED  BY <1>3

\* k names each element of B by one element of S.
Names(k, S, B) == /\ \A x, y \in S : k[x] \in B /\ k[x] = k[y] => x = y
                  /\ \A i \in B : \E x \in S : k[x] = i

\* Elements that k maps one to one onto B, and others that add nothing, add up
\* to the sum over B.
LEMMA TotalOver ==
    ASSUME NEW S, IsFiniteSet(S), NEW k, NEW B, IsFiniteSet(B), Names(k, S, B),
           NEW f, NEW t, \A i \in B : t[i] \in Int,
           \A x \in S : f[x] = IF k[x] \in B THEN t[k[x]] ELSE 0
    PROVE  Total(f, S) = Total(t, B)
<1> DEFINE Of(s) == {i \in B : \E x \in s : k[x] = i}
           C == {s \in SUBSET S : Total(f, s) = Total(t, Of(s))}
<1>0. \A x \in S : f[x] \in Int
      OBVIOUS
<1>a. /\ \A x, y \in S : k[x] \in B /\ k[x] = k[y] => x = y
      /\ \A i \in B : \E x \in S : k[x] = i
      BY DEF Names
<1>1. {} \in C
  <2>1. Of({}) = {}
        OBVIOUS
  <2>2. Total(f, {}) = 0 /\ Total(t, {}) = 0
        BY TotalStep
  <2> QED  BY <2>1, <2>2
<1>2. ASSUME NEW s \in SUBSET S, NEW x \in S \ s, s \in C
      PROVE  s \cup {x} \in C
  <2>1. Total(f, s \cup {x}) = f[x] + Total(f, s) /\ Total(f, s) \in Int
        BY <1>0, TotalWith
  <2>2. Total(f, s) = Total(t, Of(s))
        BY <1>2
  <2>3. CASE k[x] \in B
    <3>1. Of(s \cup {x}) = Of(s) \cup {k[x]} /\ k[x] \notin Of(s)
          BY <1>a, <2>3
    <3>2. Of(s) \in SUBSET B /\ k[x] \in B \ Of(s)
          BY <2>3, <3>1
    <3> HIDE DEF Of
    <3>3. Total(t, Of(s) \cup {k[x]}) = t[k[x]] + Total(t, Of(s))
          BY <3>2, TotalWith
    <3>4. Total(f, s \cup {x}) = Total(t, Of(s \cup {x}))
          BY <2>1, <2>2, <2>3, <3>1, <3>3
    <3> QED  BY <3>4
  <2>4. CASE k[x] \notin B
    <3>1. Of(s \cup {x}) = Of(s) /\ f[x] = 0
          BY <2>4
    <3>2. Total(f, s \cup {x}) = Total(f, s)
          BY <2>1, <3>1
    <3> HIDE DEF Of
    <3>3. Total(f, s \cup {x}) = Total(t, Of(s \cup {x}))
          BY <2>2, <3>1, <3>2
    <3> QED  BY <3>3
  <2> QED  BY <2>3, <2>4
<1>3. S \in C
  <2> HIDE DEF C
  <2> QED  BY <1>1, <1>2, SubsetInduction
<1>4. Of(S) = B
      BY <1>a
<1> QED  BY <1>3, <1>4

\* The fold of SumFunction is such a sum.
LEMMA SumIs ==
    ASSUME NEW f, IsFiniteSet(DOMAIN f)
    PROVE  SumFunction(f) = Total(f, DOMAIN f)
<1> DEFINE S == DOMAIN f
           iter == CHOOSE g : g = [s \in SUBSET S |->
                       IF s = {} THEN 0 ELSE f[Pick(s)] + g[s \ {Pick(s)}]]
<1>1. Sums(f, S, iter)
  <2>1. \E g : Sums(f, S, g)
        BY SumsExist
  <2> QED  BY <2>1 DEF Sums
<1>2. SumFunction(f) = iter[S]
      BY DEF SumFunction, SumFunctionOnSet, FoldFunctionOnSet, MapThenFoldSet, Pick
<1> HIDE DEF iter
<1>3. S \in SUBSET S
      OBVIOUS
<1> QED  BY <1>1, <1>2, <1>3, TotalIs

\* Nothing adds up to nothing.
LEMMA TotalZero ==
    ASSUME NEW S, IsFiniteSet(S), NEW f, \A x \in S : f[x] = 0
    PROVE  Total(f, S) = 0
<1>1. Total(f, S) = 0 * Cardinality(S \cap S)
      BY TotalCount
<1>2. Cardinality(S \cap S) \in Nat
      BY FS_CardinalityType
<1> QED  BY <1>1, <1>2

\* Counting by ones.
LEMMA TotalOnes ==
    ASSUME NEW S, IsFiniteSet(S), NEW f, \A x \in S : f[x] = 1
    PROVE  Total(f, S) = Cardinality(S)
<1>1. \A x \in S : f[x] = IF x \in S THEN 1 ELSE 0
      OBVIOUS
<1>2. Total(f, S) = 1 * Cardinality(S \cap S)
      BY <1>1, TotalCount
<1>3. S \cap S = S
      OBVIOUS
<1>4. Cardinality(S) \in Nat
      BY FS_CardinalityType
<1> QED  BY <1>2, <1>3, <1>4

\* The difference of two functions.
LEMMA TotalMinus ==
    ASSUME NEW S, IsFiniteSet(S), NEW f, NEW g, NEW h,
           \A x \in S : f[x] \in Int /\ g[x] \in Int /\ h[x] = f[x] - g[x]
    PROVE  Total(h, S) = Total(f, S) - Total(g, S)
<1>1. \A x \in S : h[x] \in Int /\ g[x] \in Int /\ f[x] = h[x] + g[x]
      OBVIOUS
<1>2. Total(f, S) = Total(h, S) + Total(g, S)
      BY <1>1, TotalPlus
<1>3. S \in SUBSET S /\ \A x \in S : h[x] \in Int
      BY <1>1
<1>4. Total(h, S) \in Int /\ Total(g, S) \in Int
      BY <1>1, <1>3, TotalInt
<1> QED  BY <1>2, <1>4

\* The opposite of a function.
LEMMA TotalNegative ==
    ASSUME NEW S, IsFiniteSet(S), NEW f, NEW h,
           \A x \in S : f[x] \in Int /\ h[x] = -f[x]
    PROVE  Total(h, S) = -Total(f, S)
<1> DEFINE z == [x \in S |-> 0]
<1>1. \A x \in S : z[x] \in Int /\ f[x] \in Int /\ h[x] = z[x] - f[x]
      OBVIOUS
<1>2. \A x \in S : z[x] = 0
      OBVIOUS
<1> HIDE DEF z
<1>3. Total(h, S) = Total(z, S) - Total(f, S)
      BY <1>1, TotalMinus
<1>4. Total(z, S) = 0
      BY <1>2, TotalZero
<1>5. S \in SUBSET S
      OBVIOUS
<1>6. Total(f, S) \in Int
      BY <1>5, TotalInt
<1> QED  BY <1>3, <1>4, <1>6

\* Terms between bounds add up to a sum between the sums of the bounds.
LEMMA TotalWithin ==
    ASSUME NEW S, IsFiniteSet(S), NEW f, NEW g,
           \A x \in S : f[x] \in Int /\ g[x] \in Int /\ -g[x] <= f[x] /\ f[x] <= g[x]
    PROVE  -Total(g, S) <= Total(f, S) /\ Total(f, S) <= Total(g, S)
<1> DEFINE m == [x \in S |-> -g[x]]
<1>1. \A x \in S : m[x] \in Int /\ m[x] = -g[x]
      OBVIOUS
<1> HIDE DEF m
<1>2. Total(m, S) = -Total(g, S)
      BY <1>1, TotalNegative
<1>3. Total(m, S) <= Total(f, S)
      BY <1>1, TotalLeq
<1>4. Total(f, S) <= Total(g, S)
      BY TotalLeq
<1> QED  BY <1>2, <1>3, <1>4

\* Sums over sets that are apart.
LEMMA TotalUnion ==
    ASSUME NEW S, IsFiniteSet(S), NEW f, \A x \in S : f[x] \in Int,
           NEW A \in SUBSET S, NEW B \in SUBSET S, A \cap B = {}
    PROVE  Total(f, A \cup B) = Total(f, A) + Total(f, B)
<1> DEFINE C == {s \in SUBSET B : Total(f, A \cup s) = Total(f, A) + Total(f, s)}
<1>0. /\ Total(f, A) \in Int
      /\ IsFiniteSet(B)
      BY TotalInt, FS_Subset
<1>1. {} \in C
  <2>1. A \cup {} = A
        OBVIOUS
  <2>2. Total(f, {}) = 0
        BY TotalStep
  <2> QED  BY <1>0, <2>1, <2>2
<1>2. ASSUME NEW s \in SUBSET B, NEW x \in B \ s, s \in C
      PROVE  s \cup {x} \in C
  <2>1. /\ s \in SUBSET S /\ x \in S \ s
        /\ A \cup s \in SUBSET S /\ x \in S \ (A \cup s)
        OBVIOUS
  <2>2. Total(f, s \cup {x}) = f[x] + Total(f, s) /\ Total(f, s) \in Int
        BY <2>1, TotalWith
  <2>3. Total(f, (A \cup s) \cup {x}) = f[x] + Total(f, A \cup s)
    <3> DEFINE R == A \cup s
    <3>1. R \in SUBSET S /\ x \in S \ R
          BY <2>1
    <3> HIDE DEF R
    <3>2. Total(f, R \cup {x}) = f[x] + Total(f, R)
          BY <3>1, TotalWith
    <3> QED  BY <3>2 DEF R
  <2>4. A \cup (s \cup {x}) = (A \cup s) \cup {x}
        OBVIOUS
  <2>5. Total(f, A \cup s) = Total(f, A) + Total(f, s)
        BY <1>2
  <2>6. f[x] \in Int
        BY <2>1
  <2>7. Total(f, A \cup (s \cup {x})) = f[x] + Total(f, A \cup s)
        BY <2>3, <2>4
  <2>8. Total(f, A \cup (s \cup {x})) = Total(f, A) + Total(f, s \cup {x})
        BY <1>0, <2>2, <2>5, <2>6, <2>7
  <2>9. s \cup {x} \in SUBSET B
        OBVIOUS
  <2> QED  BY <2>8, <2>9
<1>3. B \in C
  <2> HIDE DEF C
  <2> QED  BY <1>0, <1>1, <1>2, SubsetInduction
<1> QED  BY <1>3

\* Elements sorted by k into the groups T add up group by group.
LEMMA TotalByGroup ==
    ASSUME NEW S, IsFiniteSet(S), NEW f, \A x \in S : f[x] \in Int,
           NEW T, IsFiniteSet(T), NEW k, \A x \in S : k[x] \in T,
           NEW part, \A t \in T : part[t] = {x \in S : k[x] = t},
           NEW g, \A t \in T : g[t] = Total(f, part[t])
    PROVE  Total(g, T) = Total(f, S)
<1> DEFINE In(t) == {x \in S : k[x] \in t}
           C == {t \in SUBSET T : Total(g, t) = Total(f, In(t))}
<1>1. {} \in C
  <2>1. In({}) = {}
        OBVIOUS
  <2>2. Total(f, {}) = 0 /\ Total(g, {}) = 0
        BY TotalStep
  <2> QED  BY <2>1, <2>2
<1>0. \A t \in T : g[t] \in Int
  <2> SUFFICES ASSUME NEW t \in T
               PROVE  g[t] \in Int
      OBVIOUS
  <2>1. part[t] \in SUBSET S
        OBVIOUS
  <2>2. Total(f, part[t]) \in Int
        BY <2>1, TotalInt
  <2> QED  BY <2>2
<1>2. ASSUME NEW t \in SUBSET T, NEW y \in T \ t, t \in C
      PROVE  t \cup {y} \in C
  <2> DEFINE Y == part[y]
  <2>1. /\ In(t \cup {y}) = In(t) \cup Y
        /\ In(t) \cap Y = {}
        /\ In(t) \in SUBSET S /\ Y \in SUBSET S
        OBVIOUS
  <2>2. Total(g, t \cup {y}) = g[y] + Total(g, t) /\ Total(g, t) \in Int
        BY <1>0, TotalWith
  <2>3. g[y] = Total(f, Y)
        OBVIOUS
  <2>4. Total(g, t) = Total(f, In(t))
        BY <1>2
  <2>5. Total(f, Y) \in Int
        BY <2>1, TotalInt
  <2> HIDE DEF In, Y
  <2>6. Total(f, In(t) \cup Y) = Total(f, In(t)) + Total(f, Y)
        BY <2>1, TotalUnion
  <2>a. Total(f, In(t \cup {y})) = Total(f, In(t)) + Total(f, Y)
        BY <2>1, <2>6
  <2>7. Total(g, t \cup {y}) = Total(f, In(t \cup {y}))
        BY <2>2, <2>3, <2>4, <2>5, <2>a
  <2> QED  BY <2>7
<1>3. T \in C
  <2> HIDE DEF C
  <2> QED  BY <1>1, <1>2, SubsetInduction
<1>4. In(T) = S
      OBVIOUS
<1> QED  BY <1>3, <1>4

\* Every place of a family of sets, and the sum over the places.
PlacesIn(D, I) == UNION {{i} \X D[i] : i \in I}

\* A place is a pair of an index and of something it has.
LEMMA PlacesAre ==
    ASSUME NEW D, NEW I
    PROVE  /\ \A p \in PlacesIn(D, I) : p = <<p[1], p[2]>> /\ p[1] \in I /\ p[2] \in D[p[1]]
           /\ \A i \in I : \A k \in D[i] : <<i, k>> \in PlacesIn(D, I)
BY DEF PlacesIn

\* Finitely many indices with finitely many things each have finitely many places.
LEMMA PlacesAreFinite ==
    ASSUME NEW I, IsFiniteSet(I), NEW D, \A i \in I : IsFiniteSet(D[i])
    PROVE  IsFiniteSet(PlacesIn(D, I))
<1> DEFINE f == [i \in I |-> {i} \X D[i]]
           F == {{i} \X D[i] : i \in I}
<1>1. f \in Surjection(I, F)
      BY DEF Surjection
<1>2. IsFiniteSet(F)
      BY <1>1, FS_Surjection
<1>3. \A T \in F : IsFiniteSet(T)
  <2> SUFFICES ASSUME NEW i \in I
               PROVE  IsFiniteSet({i} \X D[i])
      OBVIOUS
  <2>1. IsFiniteSet({i})
        BY FS_Singleton
  <2> QED  BY <2>1, FS_Product
<1> HIDE DEF F
<1>4. IsFiniteSet(UNION F)
      BY <1>2, <1>3, FS_UNION
<1> QED  BY <1>4 DEF PlacesIn, F

\* A sum over the places is the sum of the sums of each index.
LEMMA TotalNested ==
    ASSUME NEW I, IsFiniteSet(I), NEW D, \A i \in I : IsFiniteSet(D[i]),
           NEW f, \A p \in PlacesIn(D, I) : f[p] \in Int,
           NEW e, \A i \in I : \A k \in D[i] : e[i][k] = f[<<i, k>>],
           NEW g, \A i \in I : g[i] = Total(e[i], D[i])
    PROVE  Total(f, PlacesIn(D, I)) = Total(g, I)
<1> DEFINE S == PlacesIn(D, I)
           k == [p \in S |-> p[1]]
           s == [p \in S |-> p[2]]
           part == [i \in I |-> {p \in S : k[p] = i}]
<1>1. IsFiniteSet(S)
      BY PlacesAreFinite
<1>2. /\ \A p \in S : p = <<p[1], p[2]>> /\ p[1] \in I /\ p[2] \in D[p[1]]
      /\ \A i \in I : \A j \in D[i] : <<i, j>> \in S
      BY PlacesAre
<1>3. \A p \in S : k[p] = p[1] /\ s[p] = p[2]
      OBVIOUS
<1>8. \A i \in I : part[i] = {p \in S : k[p] = i}
      OBVIOUS
<1> HIDE DEF S, k, s, part
<1>4. ASSUME NEW i \in I
      PROVE  g[i] = Total(f, part[i])
  <2> DEFINE Q == {p \in S : k[p] = i}
  <2>1. IsFiniteSet(Q)
        BY <1>1, FS_Subset
  <2>2. Names(s, Q, D[i])
    <3>1. ASSUME NEW p \in Q, NEW q \in Q, s[p] = s[q]
          PROVE  p = q
      <4>1. p = <<p[1], p[2]>> /\ q = <<q[1], q[2]>>
            BY <1>2
      <4>2. p[1] = i /\ q[1] = i /\ p[2] = q[2]
            BY <1>3, <3>1
      <4> HIDE DEF Q
      <4> QED  BY <4>1, <4>2
    <3>2. ASSUME NEW j \in D[i]
          PROVE  \E p \in Q : s[p] = j
      <4>1. <<i, j>> \in Q /\ s[<<i, j>>] = j
            BY <1>2, <1>3
      <4> QED  BY <4>1
    <3> QED  BY <3>1, <3>2 DEF Names
  <2>3. \A j \in D[i] : e[i][j] \in Int
    <3> SUFFICES ASSUME NEW j \in D[i]
                 PROVE  e[i][j] \in Int
        OBVIOUS
    <3>1. <<i, j>> \in PlacesIn(D, I)
          BY <1>2 DEF S
    <3> QED  BY <3>1
  <2>4. \A p \in Q : f[p] = IF s[p] \in D[i] THEN e[i][s[p]] ELSE 0
    <3> SUFFICES ASSUME NEW p \in Q
                 PROVE  s[p] \in D[i] /\ f[p] = e[i][s[p]]
        OBVIOUS
    <3>1. p = <<i, s[p]>> /\ s[p] \in D[i]
          BY <1>2, <1>3
    <3>2. e[i][s[p]] = f[<<i, s[p]>>]
          BY <3>1
    <3> QED  BY <3>1, <3>2
  <2> HIDE DEF Q
  <2>5. Total(f, Q) = Total(e[i], D[i])
    <3>1. IsFiniteSet(D[i])
          OBVIOUS
    <3> QED  BY <2>1, <2>2, <2>3, <2>4, <3>1, TotalOver
  <2> QED  BY <1>8, <2>5 DEF Q
<1>5. \A p \in S : f[p] \in Int
      BY DEF S
<1>6. \A p \in S : k[p] \in I
      BY <1>2, <1>3
<1>7. Total(g, I) = Total(f, S)
  <2>1. \A i \in I : g[i] = Total(f, part[i])
        BY <1>4
  <2> QED  BY <1>1, <1>5, <1>6, <1>8, <2>1, TotalByGroup, SMTT(60)
<1> QED  BY <1>7 DEF S

-----------------------------------------------------------------------------
(* The returns: lines, groups and rows. *)

AreLines(lines) == /\ IsFiniteSet(DOMAIN lines)
                   /\ \A i \in DOMAIN lines, a \in Amounts : lines[i][a] \in Int

AreInvoices(invoices) == /\ IsFiniteSet(DOMAIN invoices)
                         /\ \A b \in DOMAIN invoices : AreLines(invoices[b].lines)

\* One amount of each line.
Column(lines, a) == [i \in DOMAIN lines |-> lines[i][a]]

\* The totals of an invoice, as sums over its lines.
LEMMA TotalsAre ==
    ASSUME NEW lines, AreLines(lines), NEW a \in Amounts
    PROVE  /\ Totals(lines)[a] = Total(Column(lines, a), DOMAIN lines)
           /\ Totals(lines)[a] \in Int
<1>1. /\ IsFiniteSet(DOMAIN lines) /\ DOMAIN Column(lines, a) = DOMAIN lines
      /\ \A i \in DOMAIN lines : Column(lines, a)[i] \in Int
      BY DEF AreLines, Column
<1>2. Totals(lines)[a] = SumFunction(Column(lines, a))
      BY DEF Totals, Column
<1>3. SumFunction(Column(lines, a)) = Total(Column(lines, a), DOMAIN lines)
      BY <1>1, SumIs
<1>4. DOMAIN lines \in SUBSET DOMAIN lines
      OBVIOUS
<1>5. Total(Column(lines, a), DOMAIN lines) \in Int
      BY <1>1, <1>4, TotalInt
<1> QED  BY <1>2, <1>3, <1>5

\* The totals of some of the lines.
LEMMA TotalsOfSome ==
    ASSUME NEW lines, AreLines(lines), NEW a \in Amounts, NEW P \in SUBSET DOMAIN lines
    PROVE  /\ AreLines(Restrict(lines, P))
           /\ Totals(Restrict(lines, P))[a] = Total(Column(lines, a), P)
<1> DEFINE r == Restrict(lines, P)
<1>1. DOMAIN r = P /\ \A i \in P : r[i] = lines[i]
      BY DEF Restrict
<1>2. IsFiniteSet(P)
      BY FS_Subset DEF AreLines
<1> HIDE DEF r
<1>3. AreLines(r)
      BY <1>1, <1>2 DEF AreLines
<1>4. Totals(r)[a] = Total(Column(r, a), P)
      BY <1>1, <1>3, TotalsAre
<1>5. \A i \in P : Column(r, a)[i] = Column(lines, a)[i]
      BY <1>1 DEF Column
<1>6. Total(Column(r, a), P) = Total(Column(lines, a), P)
      BY <1>2, <1>5, TotalSame
<1> QED  BY <1>3, <1>4, <1>6 DEF r

\* The bucket of a rate, as a sum over the lines of that rate.
LEMMA BucketsAre ==
    ASSUME NEW lines, AreLines(lines), NEW r \in Rates(lines), NEW a \in Amounts
    PROVE  Buckets(lines)[r][a]
             = Total(Column(lines, a), {i \in DOMAIN lines : lines[i].rate = r})
<1>1. Buckets(lines)[r] = Totals(Restrict(lines, {i \in DOMAIN lines : lines[i].rate = r}))
      BY DEF Buckets, RestrictValues
<1> DEFINE P == {i \in DOMAIN lines : lines[i].rate = r}
<1>2. P \in SUBSET DOMAIN lines
      OBVIOUS
<1> HIDE DEF P
<1>3. Totals(Restrict(lines, P))[a] = Total(Column(lines, a), P)
      BY <1>2, TotalsOfSome
<1> QED  BY <1>1, <1>3 DEF P

\* What the parts have of an amount adds up to what the lines have, if every line
\* is in the part that k says.
LEMMA PartsAddUp ==
    ASSUME NEW lines, AreLines(lines), NEW parts,
           IsFiniteSet(DOMAIN parts),
           NEW k, \A p \in DOMAIN lines : k[p] \in DOMAIN parts,
           NEW in, \A t \in DOMAIN parts : in[t] = {p \in DOMAIN lines : k[p] = t},
           \A t \in DOMAIN parts : \A a \in Amounts :
               parts[t][a] = Total(Column(lines, a), in[t])
    PROVE  AddUp(parts, Totals(lines))
<1> DEFINE S == DOMAIN lines
           T == DOMAIN parts
<1>1. IsFiniteSet(S)
      BY DEF AreLines
<1>2. IsFiniteSet(T)
      OBVIOUS
<1> SUFFICES ASSUME NEW a \in Amounts
             PROVE  SumFunction([t \in DOMAIN parts |-> parts[t][a]]) = Totals(lines)[a]
    BY DEF AddUp
<1> DEFINE g == [t \in DOMAIN parts |-> parts[t][a]]
           f == Column(lines, a)
<1>3. DOMAIN g = T /\ \A t \in T : g[t] = Total(f, in[t])
      OBVIOUS
<1>4. \A p \in S : f[p] \in Int
      BY DEF AreLines, Column
<1>5. (\A p \in S : k[p] \in T) /\ (\A t \in T : in[t] = {p \in S : k[p] = t})
      OBVIOUS
<1>6. Totals(lines)[a] = Total(f, S)
      BY TotalsAre
<1> HIDE DEF S, T, f, g
<1>7. Total(g, T) = Total(f, S)
      BY <1>1, <1>2, <1>3, <1>4, <1>5, TotalByGroup
<1>8. SumFunction(g) = Total(g, T)
      BY <1>2, <1>3, SumIs
<1> QED  BY <1>6, <1>7, <1>8 DEF g

\* Each line has one rate: the buckets add up to the totals.
LEMMA BucketsAddUp ==
    ASSUME NEW lines, AreLines(lines)
    PROVE  AddUp(Buckets(lines), Totals(lines))
<1> DEFINE k == [p \in DOMAIN lines |-> lines[p].rate]
           in == [t \in Rates(lines) |-> {p \in DOMAIN lines : k[p] = t}]
           parts == Buckets(lines)
<1>1. DOMAIN parts = Rates(lines)
      BY DEF Buckets
<1>2. /\ \A p \in DOMAIN lines : k[p] \in Rates(lines)
      /\ \A t \in Rates(lines) : in[t] = {p \in DOMAIN lines : k[p] = t}
      BY DEF Rates
<1>4. IsFiniteSet(Rates(lines))
  <2>1. k \in Surjection(DOMAIN lines, Rates(lines))
        BY DEF Surjection, Rates
  <2>2. IsFiniteSet(DOMAIN lines)
        BY DEF AreLines
  <2> HIDE DEF k
  <2> QED  BY <2>1, <2>2, FS_Surjection
<1>3. ASSUME NEW t \in Rates(lines), NEW a \in Amounts
      PROVE  parts[t][a] = Total(Column(lines, a), in[t])
  <2>1. in[t] = {p \in DOMAIN lines : lines[p].rate = t}
        OBVIOUS
  <2>2. parts[t][a] = Total(Column(lines, a), {p \in DOMAIN lines : lines[p].rate = t})
        BY BucketsAre
  <2> HIDE DEF k, in, parts
  <2> QED  BY <2>1, <2>2
<1> HIDE DEF k, in, parts
<1>5. AddUp(parts, Totals(lines))
      BY <1>1, <1>2, <1>3, <1>4, PartsAddUp
<1> QED  BY <1>5 DEF parts

LinePlaces(invoices, some) ==
    PlacesIn([b \in DOMAIN invoices |-> DOMAIN invoices[b].lines], some)

\* The lines of some invoices, by invoice and position.
LEMMA LinesOfAre ==
    ASSUME NEW invoices, AreInvoices(invoices), NEW some \in SUBSET DOMAIN invoices
    PROVE  /\ DOMAIN LinesOf(invoices, some) = LinePlaces(invoices, some)
           /\ \A p \in LinePlaces(invoices, some) :
                 /\ p = <<p[1], p[2]>>
                 /\ p[1] \in some /\ p[2] \in DOMAIN invoices[p[1]].lines
                 /\ LinesOf(invoices, some)[p] = invoices[p[1]].lines[p[2]]
           /\ AreLines(LinesOf(invoices, some))
<1> DEFINE D == [b \in DOMAIN invoices |-> DOMAIN invoices[b].lines]
           L == LinesOf(invoices, some)
<1>1. \A b \in some : D[b] = DOMAIN invoices[b].lines /\ IsFiniteSet(D[b])
      BY DEF AreInvoices, AreLines
<1>2. PlacesIn(D, some) = UNION {{b} \X DOMAIN invoices[b].lines : b \in some}
      BY <1>1 DEF PlacesIn
<1>3. DOMAIN L = PlacesIn(D, some) /\ \A p \in DOMAIN L : L[p] = invoices[p[1]].lines[p[2]]
      BY <1>2 DEF LinesOf
<1>4. \A p \in PlacesIn(D, some) : p = <<p[1], p[2]>> /\ p[1] \in some /\ p[2] \in D[p[1]]
      BY PlacesAre
<1>5. IsFiniteSet(some)
      BY FS_Subset DEF AreInvoices
<1> HIDE DEF D, L
<1>6. IsFiniteSet(PlacesIn(D, some))
      BY <1>1, <1>5, PlacesAreFinite
<1>7. AreLines(L)
  <2> SUFFICES ASSUME NEW p \in DOMAIN L, NEW a \in Amounts
               PROVE  L[p][a] \in Int
      BY <1>3, <1>6 DEF AreLines
  <2>1. p[1] \in DOMAIN invoices /\ p[2] \in DOMAIN invoices[p[1]].lines
        BY <1>1, <1>3, <1>4
  <2>2. AreLines(invoices[p[1]].lines)
        BY <2>1 DEF AreInvoices
  <2> QED  BY <1>3, <2>1, <2>2 DEF AreLines
<1> QED  BY <1>1, <1>3, <1>4, <1>7 DEF LinePlaces, D, L

\* The lines of fewer invoices are some of the lines.
LEMMA LinesOfFewer ==
    ASSUME NEW invoices, AreInvoices(invoices), NEW some \in SUBSET DOMAIN invoices,
           NEW fewer \in SUBSET some
    PROVE  LinesOf(invoices, fewer)
             = Restrict(LinesOf(invoices, some),
                        {p \in DOMAIN LinesOf(invoices, some) : p[1] \in fewer})
<1> DEFINE L == LinesOf(invoices, some)
           M == LinesOf(invoices, fewer)
           D == [b \in DOMAIN invoices |-> DOMAIN invoices[b].lines]
           P == {p \in DOMAIN L : p[1] \in fewer}
<1>1. /\ DOMAIN L = PlacesIn(D, some)
      /\ \A p \in DOMAIN L : L[p] = invoices[p[1]].lines[p[2]]
      BY LinesOfAre, ZenonT(60) DEF LinePlaces
<1>2. fewer \in SUBSET DOMAIN invoices
      OBVIOUS
<1>3. /\ DOMAIN M = PlacesIn(D, fewer)
      /\ \A p \in DOMAIN M : M[p] = invoices[p[1]].lines[p[2]]
      BY <1>2, LinesOfAre, ZenonT(60) DEF LinePlaces
<1>4. DOMAIN M = P
  <2>1. /\ \A p \in PlacesIn(D, some) :
               p = <<p[1], p[2]>> /\ p[1] \in some /\ p[2] \in D[p[1]]
        /\ \A b \in some : \A k \in D[b] : <<b, k>> \in PlacesIn(D, some)
        BY PlacesAre
  <2>2. /\ \A p \in PlacesIn(D, fewer) :
               p = <<p[1], p[2]>> /\ p[1] \in fewer /\ p[2] \in D[p[1]]
        /\ \A b \in fewer : \A k \in D[b] : <<b, k>> \in PlacesIn(D, fewer)
        BY PlacesAre
  <2> HIDE DEF D, L, M
  <2>3. ASSUME NEW p \in DOMAIN M
        PROVE  p \in P
    <3>1. p = <<p[1], p[2]>> /\ p[1] \in fewer /\ p[2] \in D[p[1]]
          BY <1>3, <2>2
    <3>2. <<p[1], p[2]>> \in PlacesIn(D, some)
          BY <2>1, <3>1
    <3> QED  BY <1>1, <3>1, <3>2
  <2>4. ASSUME NEW p \in P
        PROVE  p \in DOMAIN M
    <3>1. p = <<p[1], p[2]>> /\ p[1] \in fewer /\ p[2] \in D[p[1]]
          BY <1>1, <2>1
    <3> QED  BY <1>3, <2>2, <3>1
  <2> HIDE DEF P
  <2> QED  BY <2>3, <2>4
<1>5. M = [p \in DOMAIN M |-> M[p]]
      BY DEF LinesOf
<1> HIDE DEF L, M
<1>6. M = [p \in P |-> L[p]]
      BY <1>1, <1>3, <1>4, <1>5
<1> QED  BY <1>6 DEF Restrict, L, M

\* The group of an invoice in a GSTR-1, and the invoices of a group.
GroupKey(invoice) ==
    <<IF invoice.gstin # NoValue THEN "b2b" ELSE "b2c", Key(invoice)>>

Members(invoices, t) ==
    {b \in Directed(invoices, "sales") : GroupKey(invoices[b]) = t}

GroupsIn(s) == {<<"b2b", g>> : g \in DOMAIN s.b2b} \cup {<<"b2c", g>> : g \in DOMAIN s.b2c}

\* A group has the invoices of its key.
LEMMA GroupsAre ==
    ASSUME NEW invoices
    PROVE  LET s == Gstr1(invoices) IN
           /\ GroupsIn(s) = {GroupKey(invoices[b]) : b \in Directed(invoices, "sales")}
           /\ \A t \in GroupsIn(s) :
                 s[t[1]][t[2]] = Group(invoices, Members(invoices, t))
<1> DEFINE s == Gstr1(invoices)
           S == Directed(invoices, "sales")
           mine(w) == {b \in S : (invoices[b].gstin # NoValue) = w}
<1>1. /\ s.b2b = Groups(invoices, S, TRUE)
      /\ s.b2c = Groups(invoices, S, FALSE)
      /\ s["b2b"] = Groups(invoices, S, TRUE)
      /\ s["b2c"] = Groups(invoices, S, FALSE)
      BY DEF Gstr1
<1>2. ASSUME NEW w \in BOOLEAN
      PROVE  /\ DOMAIN Groups(invoices, S, w) = {Key(invoices[b]) : b \in mine(w)}
             /\ \A k \in DOMAIN Groups(invoices, S, w) :
                   Groups(invoices, S, w)[k]
                     = Group(invoices, {b \in mine(w) : Key(invoices[b]) = k})
      BY DEF Groups
<1>3. /\ \A b \in S : b \in mine(TRUE) <=> invoices[b].gstin # NoValue
      /\ \A b \in S : b \in mine(FALSE) <=> ~ (invoices[b].gstin # NoValue)
      /\ mine(TRUE) \subseteq S /\ mine(FALSE) \subseteq S
      OBVIOUS
<1> HIDE DEF s, mine
<1>4. GroupsIn(s) = {<<"b2b", Key(invoices[b])>> : b \in mine(TRUE)}
                      \cup {<<"b2c", Key(invoices[b])>> : b \in mine(FALSE)}
  <2>1. /\ DOMAIN s.b2b = {Key(invoices[b]) : b \in mine(TRUE)}
        /\ DOMAIN s.b2c = {Key(invoices[b]) : b \in mine(FALSE)}
        BY <1>1, <1>2
  <2>2. {<<"b2b", g>> : g \in DOMAIN s.b2b}
          = {<<"b2b", Key(invoices[b])>> : b \in mine(TRUE)}
        BY <2>1
  <2>3. {<<"b2c", g>> : g \in DOMAIN s.b2c}
          = {<<"b2c", Key(invoices[b])>> : b \in mine(FALSE)}
        BY <2>1
  <2> QED  BY <2>2, <2>3 DEF GroupsIn
<1>5. GroupsIn(s) = {GroupKey(invoices[b]) : b \in S}
      BY <1>3, <1>4 DEF GroupKey
<1>6. ASSUME NEW t \in GroupsIn(s)
      PROVE  s[t[1]][t[2]] = Group(invoices, Members(invoices, t))
  <2>1. CASE \E b \in mine(TRUE) : t = <<"b2b", Key(invoices[b])>>
    <3>1. PICK b \in mine(TRUE) : t = <<"b2b", Key(invoices[b])>>
          BY <2>1
    <3>2. {c \in mine(TRUE) : Key(invoices[c]) = t[2]} = Members(invoices, t)
          BY <1>3, <3>1 DEF Members, GroupKey
    <3>3. s[t[1]][t[2]] = Group(invoices, {c \in mine(TRUE) : Key(invoices[c]) = t[2]})
          BY <1>1, <1>2, <3>1
    <3> QED  BY <3>2, <3>3
  <2>2. CASE \E b \in mine(FALSE) : t = <<"b2c", Key(invoices[b])>>
    <3>1. PICK b \in mine(FALSE) : t = <<"b2c", Key(invoices[b])>>
          BY <2>2
    <3>2. {c \in mine(FALSE) : Key(invoices[c]) = t[2]} = Members(invoices, t)
          BY <1>3, <3>1 DEF Members, GroupKey
    <3>3. s[t[1]][t[2]] = Group(invoices, {c \in mine(FALSE) : Key(invoices[c]) = t[2]})
          BY <1>1, <1>2, <3>1
    <3> QED  BY <3>2, <3>3
  <2> QED  BY <1>4, <2>1, <2>2
<1> QED  BY <1>5, <1>6 DEF s

\* The totals and the rates of a GSTR-1 are those of the lines of its sales.
LEMMA SalesAre ==
    ASSUME NEW invoices, AreInvoices(invoices)
    PROVE  LET S == Directed(invoices, "sales")
               L == LinesOf(invoices, S) IN
           /\ S \in SUBSET DOMAIN invoices /\ IsFiniteSet(S)
           /\ AreLines(L)
           /\ \A p \in DOMAIN L : p = <<p[1], p[2]>> /\ p[1] \in S
           /\ Gstr1(invoices).totals = Totals(L)
           /\ Gstr1(invoices).rateWise = Buckets(L)
<1>1. Directed(invoices, "sales") \in SUBSET DOMAIN invoices
      BY DEF Directed
<1>2. IsFiniteSet(Directed(invoices, "sales"))
      BY <1>1, FS_Subset DEF AreInvoices
<1> QED  BY <1>1, <1>2, LinesOfAre DEF Gstr1

\* The lines of a group.
GroupPlaces(invoices, t) ==
    {p \in DOMAIN LinesOf(invoices, Directed(invoices, "sales")) :
        GroupKey(invoices[p[1]]) = t}

\* The lines of a group are the lines of the sales that are of its key.
LEMMA GroupLines ==
    ASSUME NEW invoices, AreInvoices(invoices), NEW t
    PROVE  LET L == LinesOf(invoices, Directed(invoices, "sales"))
               M == LinesOf(invoices, Members(invoices, t)) IN
           /\ M = Restrict(L, GroupPlaces(invoices, t))
           /\ GroupPlaces(invoices, t) \in SUBSET DOMAIN L
           /\ AreLines(M)
<1> DEFINE S == Directed(invoices, "sales")
           L == LinesOf(invoices, S)
           F == Members(invoices, t)
<1>1. S \in SUBSET DOMAIN invoices /\ F \in SUBSET S /\ F \in SUBSET DOMAIN invoices
      BY DEF Directed, Members
<1>2. LinesOf(invoices, F) = Restrict(L, {p \in DOMAIN L : p[1] \in F})
      BY <1>1, LinesOfFewer
<1>3. \A p \in DOMAIN L : p[1] \in S
      BY SalesAre
<1>4. {p \in DOMAIN L : p[1] \in F} = GroupPlaces(invoices, t)
      BY <1>3 DEF GroupPlaces, Members
<1>5. AreLines(LinesOf(invoices, F))
      BY <1>1, LinesOfAre
<1>6. GroupPlaces(invoices, t) \in SUBSET DOMAIN L
      BY DEF GroupPlaces
<1> HIDE DEF S, L, F
<1>7. LinesOf(invoices, F) = Restrict(L, GroupPlaces(invoices, t))
      BY <1>2, <1>4
<1> QED  BY <1>5, <1>6, <1>7 DEF S, L, F

\* What the groups have of each amount.
LEMMA GroupTotals ==
    ASSUME NEW invoices, AreInvoices(invoices), NEW t, NEW a \in Amounts
    PROVE  LET L == LinesOf(invoices, Directed(invoices, "sales"))
               g == Group(invoices, Members(invoices, t)) IN
           /\ g.totals[a] = Total(Column(L, a), GroupPlaces(invoices, t))
           /\ DOMAIN g.buckets = {L[p].rate : p \in GroupPlaces(invoices, t)}
           /\ \A r \in DOMAIN g.buckets :
                 g.buckets[r][a] = Total(Column(L, a),
                     {p \in GroupPlaces(invoices, t) : L[p].rate = r})
<1> DEFINE L == LinesOf(invoices, Directed(invoices, "sales"))
           M == LinesOf(invoices, Members(invoices, t))
           P == GroupPlaces(invoices, t)
           g == Group(invoices, Members(invoices, t))
<1>1. /\ M = Restrict(L, P) /\ P \in SUBSET DOMAIN L
      /\ AreLines(M) /\ AreLines(L)
      BY GroupLines, SalesAre
<1>2. g.totals = Totals(M) /\ g.buckets = Buckets(M)
      BY DEF Group
<1> HIDE DEF L, M, P, g
<1>3. Totals(M)[a] = Total(Column(L, a), P)
      BY <1>1, TotalsOfSome
<1>4. DOMAIN M = P /\ \A p \in P : M[p] = L[p]
      BY <1>1 DEF Restrict
<1>5. DOMAIN Buckets(M) = {L[p].rate : p \in P}
      BY <1>4 DEF Buckets, Rates
<1>6. ASSUME NEW r \in DOMAIN Buckets(M)
      PROVE  Buckets(M)[r][a] = Total(Column(L, a), {p \in P : L[p].rate = r})
  <2> DEFINE Q == {p \in P : L[p].rate = r}
  <2>1. r \in Rates(M)
        BY DEF Buckets
  <2>2. {p \in DOMAIN M : M[p].rate = r} = Q
        BY <1>4
  <2>3. Buckets(M)[r][a] = Total(Column(M, a), {p \in DOMAIN M : M[p].rate = r})
        BY <1>1, <2>1, BucketsAre
  <2>4. \A p \in Q : Column(M, a)[p] = Column(L, a)[p]
        BY <1>1, <1>4 DEF Column
  <2>5. IsFiniteSet(Q)
        BY <1>1, FS_Subset DEF AreLines
  <2> HIDE DEF Q
  <2>6. Total(Column(M, a), Q) = Total(Column(L, a), Q)
        BY <2>4, <2>5, TotalSame
  <2> QED  BY <2>2, <2>3, <2>6 DEF Q
<1>7. \A r \in DOMAIN g.buckets :
          g.buckets[r][a] = Total(Column(L, a), {p \in P : L[p].rate = r})
      BY <1>2, <1>6
<1> QED  BY <1>2, <1>3, <1>5, <1>7 DEF L, M, P, g

\* Each sale has one key: the groups add up to the totals, and their counts to the
\* sales.
LEMMA GroupsAddUp ==
    ASSUME NEW invoices, AreInvoices(invoices), NEW groups,
           DOMAIN groups = GroupsIn(Gstr1(invoices)),
           \A t \in DOMAIN groups : groups[t] = Gstr1(invoices)[t[1]][t[2]]
    PROVE  /\ AddUp([t \in DOMAIN groups |-> groups[t].totals], Gstr1(invoices).totals)
           /\ SumFunction([t \in DOMAIN groups |-> groups[t].count])
                = Cardinality(Directed(invoices, "sales"))
<1> DEFINE S == Directed(invoices, "sales")
           L == LinesOf(invoices, S)
           T == DOMAIN groups
           K == [b \in S |-> GroupKey(invoices[b])]
<1>1. /\ IsFiniteSet(S) /\ AreLines(L)
      /\ \A p \in DOMAIN L : p = <<p[1], p[2]>> /\ p[1] \in S
      /\ Gstr1(invoices).totals = Totals(L)
      BY SalesAre
<1>2. /\ T = {GroupKey(invoices[b]) : b \in S}
      /\ \A t \in T : groups[t] = Group(invoices, Members(invoices, t))
      BY GroupsAre
<1>3. \A b \in S : K[b] = GroupKey(invoices[b]) /\ K[b] \in T
      BY <1>2
<1>4. IsFiniteSet(T)
  <2>1. K \in Surjection(S, T)
        BY <1>2 DEF Surjection
  <2> QED  BY <1>1, <2>1, FS_Surjection
<1>5. AddUp([t \in DOMAIN groups |-> groups[t].totals], Gstr1(invoices).totals)
  <2> DEFINE k == [p \in DOMAIN L |-> GroupKey(invoices[p[1]])]
             in == [t \in T |-> GroupPlaces(invoices, t)]
             parts == [t \in DOMAIN groups |-> groups[t].totals]
  <2>1. \A p \in DOMAIN L : k[p] \in T
        BY <1>1, <1>3
  <2>2. \A t \in T : in[t] = {p \in DOMAIN L : k[p] = t}
        BY DEF GroupPlaces
  <2>3. DOMAIN parts = T
        OBVIOUS
  <2>4. ASSUME NEW t \in T, NEW a \in Amounts
        PROVE  parts[t][a] = Total(Column(L, a), in[t])
    <3>1. parts[t] = Group(invoices, Members(invoices, t)).totals
          BY <1>2
    <3>2. Group(invoices, Members(invoices, t)).totals[a]
            = Total(Column(L, a), GroupPlaces(invoices, t))
          BY GroupTotals
    <3> QED  BY <3>1, <3>2
  <2> HIDE DEF L, T, k, in, parts
  <2>5. AddUp(parts, Totals(L))
        BY <1>1, <1>4, <2>1, <2>2, <2>3, <2>4, PartsAddUp
  <2> QED  BY <1>1, <2>5 DEF parts
<1>6. SumFunction([t \in DOMAIN groups |-> groups[t].count]) = Cardinality(S)
  <2> DEFINE one == [b \in S |-> 1]
             in == [t \in T |-> Members(invoices, t)]
             n == [t \in DOMAIN groups |-> groups[t].count]
  <2>1. /\ \A b \in S : one[b] \in Int /\ one[b] = 1
        /\ DOMAIN n = T
        OBVIOUS
  <2>2. \A t \in T : in[t] = {b \in S : K[b] = t}
        BY DEF Members
  <2>3. \A t \in T : n[t] = Cardinality(in[t])
    <3> SUFFICES ASSUME NEW t \in T
                 PROVE  n[t] = Cardinality(in[t])
        OBVIOUS
    <3>1. groups[t] = Group(invoices, Members(invoices, t))
          BY <1>2
    <3>2. Group(invoices, Members(invoices, t)).count = Cardinality(Members(invoices, t))
          BY DEF Group
    <3>3. n[t] = groups[t].count /\ in[t] = Members(invoices, t)
          OBVIOUS
    <3> HIDE DEF n, in
    <3> QED  BY <3>1, <3>2, <3>3
  <2> HIDE DEF S, T, K, one, in, n
  <2>4. ASSUME NEW F \in SUBSET S
        PROVE  Total(one, F) = Cardinality(F)
    <3>1. IsFiniteSet(F)
          BY <1>1, FS_Subset
    <3>2. \A b \in F : one[b] = 1
          BY <2>1
    <3> QED  BY <3>1, <3>2, TotalOnes
  <2>5. ASSUME NEW t \in T
        PROVE  n[t] = Total(one, in[t])
    <3>1. in[t] \in SUBSET S
          BY <2>2
    <3>2. Total(one, in[t]) = Cardinality(in[t])
          BY <2>4, <3>1
    <3> QED  BY <2>3, <3>2
  <2>6. (\A b \in S : K[b] \in T) /\ (\A b \in S : one[b] \in Int)
        BY <1>3, <2>1
  <2>7. Total(n, T) = Total(one, S)
        BY <1>1, <1>4, <2>2, <2>5, <2>6, TotalByGroup
  <2>8. SumFunction(n) = Total(n, T)
        BY <1>4, <2>1, SumIs
  <2>9. S \in SUBSET S
        OBVIOUS
  <2>10. Total(one, S) = Cardinality(S)
        BY <2>4, <2>9
  <2> QED  BY <2>7, <2>8, <2>10 DEF n
<1> QED  BY <1>5, <1>6

\* The rows of the export, one for each rate of each group, add up to the totals.
LEMMA RowsAddUp ==
    ASSUME NEW invoices, AreInvoices(invoices)
    PROVE  AddUp([row \in CsvRows(Gstr1(invoices)) |-> row.totals],
                 Gstr1(invoices).totals)
<1> DEFINE s == Gstr1(invoices)
           S == Directed(invoices, "sales")
           L == LinesOf(invoices, S)
           T == GroupsIn(s)
           Row(t, r) == [section |-> t[1], key |-> t[2], rate |-> r,
                         totals |-> s[t[1]][t[2]].buckets[r]]
           B(t) == Group(invoices, Members(invoices, t)).buckets
           k == [p \in DOMAIN L |-> Row(GroupKey(invoices[p[1]]), L[p].rate)]
           rows == CsvRows(s)
           in == [row \in rows |-> {p \in DOMAIN L : k[p] = row}]
           parts == [row \in rows |-> row.totals]
<1>1. /\ IsFiniteSet(S) /\ AreLines(L)
      /\ \A p \in DOMAIN L : p = <<p[1], p[2]>> /\ p[1] \in S
      /\ s.totals = Totals(L)
      BY SalesAre
<1>2. /\ T = {GroupKey(invoices[b]) : b \in S}
      /\ \A t \in T : s[t[1]][t[2]].buckets = B(t)
  <2>1. \A t \in T : s[t[1]][t[2]] = Group(invoices, Members(invoices, t))
        BY GroupsAre
  <2> QED  BY <2>1, GroupsAre
<1>3. \A t \in T : DOMAIN B(t) = {L[p].rate : p \in GroupPlaces(invoices, t)}
  <2>1. "taxable" \in Amounts
        BY DEF Amounts
  <2> QED  BY <2>1, GroupTotals
<1>4. \A x : x \in rows <=> \E t \in T : \E r \in DOMAIN B(t) : x = Row(t, r)
  <2> HIDE DEF s
  <2>1. ASSUME NEW c \in {"b2b", "b2c"}
        PROVE  \A g \in DOMAIN s[c] : <<c, g>> \in T
        BY DEF GroupsIn
  <2>2. \A t \in T : \/ t[1] = "b2b" /\ t[2] \in DOMAIN s["b2b"]
                     \/ t[1] = "b2c" /\ t[2] \in DOMAIN s["b2c"]
        BY DEF GroupsIn
  <2>3. ASSUME NEW x \in rows
        PROVE  \E t \in T : \E r \in DOMAIN B(t) : x = Row(t, r)
    <3>0. \E c \in {"b2b", "b2c"} : \E g \in DOMAIN s[c] :
             \E r \in DOMAIN s[c][g].buckets :
                 x = [section |-> c, key |-> g, rate |-> r, totals |-> s[c][g].buckets[r]]
          BY DEF CsvRows
    <3>a. PICK c \in {"b2b", "b2c"} : \E g \in DOMAIN s[c] :
             \E r \in DOMAIN s[c][g].buckets :
                 x = [section |-> c, key |-> g, rate |-> r, totals |-> s[c][g].buckets[r]]
          BY <3>0
    <3>b. PICK g \in DOMAIN s[c] : \E r \in DOMAIN s[c][g].buckets :
                 x = [section |-> c, key |-> g, rate |-> r, totals |-> s[c][g].buckets[r]]
          BY <3>a
    <3>1. PICK r \in DOMAIN s[c][g].buckets :
             x = [section |-> c, key |-> g, rate |-> r, totals |-> s[c][g].buckets[r]]
          BY <3>b
    <3>2. <<c, g>> \in T /\ x = Row(<<c, g>>, r)
          BY <2>1, <3>1
    <3>3. r \in DOMAIN B(<<c, g>>)
          BY <1>2, <3>2
    <3> QED  BY <3>2, <3>3
  <2>4. ASSUME NEW t \in T, NEW r \in DOMAIN B(t)
        PROVE  Row(t, r) \in rows
    <3>1. r \in DOMAIN s[t[1]][t[2]].buckets
          BY <1>2
    <3> QED  BY <2>2, <3>1 DEF CsvRows
  <2> QED  BY <2>3, <2>4
<1>5. \A p \in DOMAIN L : /\ GroupKey(invoices[p[1]]) \in T
                          /\ L[p].rate \in DOMAIN B(GroupKey(invoices[p[1]]))
                          /\ k[p] = Row(GroupKey(invoices[p[1]]), L[p].rate)
  <2> SUFFICES ASSUME NEW p \in DOMAIN L
               PROVE  /\ GroupKey(invoices[p[1]]) \in T
                      /\ L[p].rate \in DOMAIN B(GroupKey(invoices[p[1]]))
      OBVIOUS
  <2>1. GroupKey(invoices[p[1]]) \in T
        BY <1>1, <1>2
  <2>2. p \in GroupPlaces(invoices, GroupKey(invoices[p[1]]))
        BY DEF GroupPlaces
  <2> HIDE DEF L, B, T
  <2> QED  BY <1>3, <2>1, <2>2
<1>6. \A p \in DOMAIN L : k[p] \in rows
  <2> HIDE DEF rows, T, B, L, k, s
  <2> QED  BY <1>4, <1>5
<1>7. \A row \in rows : in[row] = {p \in DOMAIN L : k[p] = row} /\ parts[row] = row.totals
      OBVIOUS
<1>8. ASSUME NEW t \in T, NEW r \in DOMAIN B(t)
      PROVE  {p \in DOMAIN L : k[p] = Row(t, r)}
               = {p \in GroupPlaces(invoices, t) : L[p].rate = r}
  <2>1. \A b \in S : GroupKey(invoices[b])
                       = <<GroupKey(invoices[b])[1], GroupKey(invoices[b])[2]>>
        BY DEF GroupKey
  <2>2. PICK b \in S : t = GroupKey(invoices[b])
        BY <1>2
  <2>3. ASSUME NEW p \in DOMAIN L
        PROVE  k[p] = Row(t, r) <=> GroupKey(invoices[p[1]]) = t /\ L[p].rate = r
    <3> DEFINE u == GroupKey(invoices[p[1]])
    <3>1. u = <<u[1], u[2]>> /\ t = <<t[1], t[2]>>
          BY <1>1, <2>1, <2>2
    <3>2. k[p] = Row(u, L[p].rate)
          OBVIOUS
    <3> HIDE DEF u, k, L, s
    <3>3. Row(u, L[p].rate) = Row(t, r) => u[1] = t[1] /\ u[2] = t[2] /\ L[p].rate = r
      <4>1. /\ Row(u, L[p].rate).section = u[1] /\ Row(t, r).section = t[1]
            /\ Row(u, L[p].rate).key = u[2] /\ Row(t, r).key = t[2]
            /\ Row(u, L[p].rate).rate = L[p].rate /\ Row(t, r).rate = r
            OBVIOUS
      <4> HIDE DEF Row
      <4> QED  BY <4>1
    <3>4. u = t /\ L[p].rate = r => Row(u, L[p].rate) = Row(t, r)
          OBVIOUS
    <3> HIDE DEF Row
    <3>5. k[p] = Row(t, r) <=> u = t /\ L[p].rate = r
          BY <3>1, <3>2, <3>3, <3>4, SMTT(60)
    <3> QED  BY <3>5 DEF u
  <2> HIDE DEF k, Row
  <2> QED  BY <2>3 DEF GroupPlaces
<1>9. ASSUME NEW row \in rows, NEW a \in Amounts
      PROVE  parts[row][a] = Total(Column(L, a), in[row])
  <2>1. PICK t \in T : \E r \in DOMAIN B(t) : row = Row(t, r)
    <3> HIDE DEF rows, T, B, s
    <3> QED  BY <1>4
  <2>2. PICK r \in DOMAIN B(t) : row = Row(t, r)
        BY <2>1
  <2>3. row.totals = B(t)[r]
        BY <1>2, <2>2
  <2>4. B(t)[r][a] = Total(Column(L, a), {p \in GroupPlaces(invoices, t) : L[p].rate = r})
        BY GroupTotals
  <2>5. in[row] = {p \in GroupPlaces(invoices, t) : L[p].rate = r}
    <3>1. {p \in DOMAIN L : k[p] = Row(t, r)}
            = {p \in GroupPlaces(invoices, t) : L[p].rate = r}
          BY <1>8, ZenonT(60)
    <3>2. in[row] = {p \in DOMAIN L : k[p] = row}
          BY <1>7
    <3> HIDE DEF in, L, k, Row
    <3> QED  BY <2>2, <3>1, <3>2, SMTT(60)
  <2> HIDE DEF in, B, L, parts, rows
  <2> QED  BY <1>7, <2>3, <2>4, <2>5
<1>10. IsFiniteSet(rows)
  <2>1. ASSUME NEW row \in rows
        PROVE  \E p \in DOMAIN L : k[p] = row
    <3>1. PICK t \in T : \E r \in DOMAIN B(t) : row = Row(t, r)
      <4> HIDE DEF rows, T, B, s
      <4> QED  BY <1>4
    <3>2. PICK r \in DOMAIN B(t) : row = Row(t, r)
          BY <3>1
    <3>3. PICK p \in GroupPlaces(invoices, t) : r = L[p].rate
          BY <1>3, <3>2
    <3>4. p \in DOMAIN L /\ p \in {q \in GroupPlaces(invoices, t) : L[q].rate = r}
          BY <3>3, SMTT(60) DEF GroupPlaces
    <3>5. k[p] = Row(t, r)
          BY <1>8, <3>4, ZenonT(60)
    <3> QED  BY <3>2, <3>4, <3>5
  <2>2. k = [p \in DOMAIN L |-> k[p]]
        OBVIOUS
  <2>3. IsFiniteSet(DOMAIN L)
        BY <1>1 DEF AreLines
  <2> HIDE DEF k, rows, L
  <2>4. k \in Surjection(DOMAIN L, rows)
        BY <1>6, <2>1, <2>2 DEF Surjection
  <2> QED  BY <2>3, <2>4, FS_Surjection, SMTT(60)
<1>11. DOMAIN parts = rows
       OBVIOUS
<1> HIDE DEF L, rows, k, in, parts, s
<1>12. AddUp(parts, Totals(L))
       BY <1>1, <1>6, <1>7, <1>9, <1>10, <1>11, PartsAddUp
<1> QED  BY <1>1, <1>12 DEF parts, rows, s

\* What SectionsAddUp says, of any finite set of invoices.
LEMMA SectionsOf ==
    ASSUME NEW invoices, AreInvoices(invoices)
    PROVE  LET s == Gstr1(invoices)
               groups == [k \in {<<"b2b", g>> : g \in DOMAIN s.b2b}
                                  \cup {<<"b2c", g>> : g \in DOMAIN s.b2c} |->
                             s[k[1]][k[2]]] IN
           /\ AddUp([k \in DOMAIN groups |-> groups[k].totals], s.totals)
           /\ SumFunction([k \in DOMAIN groups |-> groups[k].count])
                = Cardinality(Directed(invoices, "sales"))
           /\ AddUp(s.rateWise, s.totals)
           /\ AddUp([row \in CsvRows(s) |-> row.totals], s.totals)
           /\ s.totals = Gstr3b(invoices).outward
<1> DEFINE s == Gstr1(invoices)
           groups == [k \in {<<"b2b", g>> : g \in DOMAIN s.b2b}
                              \cup {<<"b2c", g>> : g \in DOMAIN s.b2c} |->
                         s[k[1]][k[2]]]
<1>1. /\ DOMAIN groups = GroupsIn(s)
      /\ \A t \in DOMAIN groups : groups[t] = s[t[1]][t[2]]
      BY DEF GroupsIn
<1>2. AddUp(s.rateWise, s.totals)
      BY SalesAre, BucketsAddUp
<1>3. AddUp([row \in CsvRows(s) |-> row.totals], s.totals)
      BY RowsAddUp
<1>4. s.totals = Gstr3b(invoices).outward
      BY DEF Gstr1, Gstr3b
<1> HIDE DEF groups
<1>5. /\ AddUp([k \in DOMAIN groups |-> groups[k].totals], s.totals)
      /\ SumFunction([k \in DOMAIN groups |-> groups[k].count])
           = Cardinality(Directed(invoices, "sales"))
      BY <1>1, GroupsAddUp
<1> QED  BY <1>2, <1>3, <1>4, <1>5 DEF groups

-----------------------------------------------------------------------------
(* The entries of the vouchers, and what they add up to. *)

AreEntries(entries) ==
    /\ IsFiniteSet(DOMAIN entries)
    /\ \A k \in DOMAIN entries : entries[k].side \in Sides /\ entries[k].amount \in Int

AreVouchers(vouchers) == /\ IsFiniteSet(DOMAIN vouchers)
                         /\ \A i \in DOMAIN vouchers : AreEntries(vouchers[i].entries)

\* What an entry adds to its ledger.
Values(entries) ==
    [k \in DOMAIN entries |-> Signed(entries[k].side, entries[k].amount)]

\* The net of some entries, as a sum of what each adds to its ledger.
LEMMA NetIs ==
    ASSUME NEW entries, AreEntries(entries)
    PROVE  /\ Net(entries) = Total(Values(entries), DOMAIN entries)
           /\ Net(entries) \in Int
           /\ \A k \in DOMAIN entries : Values(entries)[k] \in Int
<1>1. DOMAIN Values(entries) = DOMAIN entries /\ IsFiniteSet(DOMAIN entries)
      BY DEF Values, AreEntries
<1>2. \A k \in DOMAIN entries : Values(entries)[k] \in Int
      BY DEF Values, AreEntries, Signed
<1>3. Net(entries) = Total(Values(entries), DOMAIN entries)
  <2>1. Net(entries) = SumFunction(Values(entries))
        BY DEF Net, Values
  <2> QED  BY <1>1, <2>1, SumIs
<1>4. DOMAIN entries \in SUBSET DOMAIN entries
      OBVIOUS
<1>5. Total(Values(entries), DOMAIN entries) \in Int
      BY <1>1, <1>2, <1>4, TotalInt
<1> QED  BY <1>2, <1>3, <1>5

\* Every place of an entry, and what each adds.
Everywhere(vouchers) ==
    PlacesIn([i \in DOMAIN vouchers |-> DOMAIN vouchers[i].entries], DOMAIN vouchers)

Worth(vouchers) ==
    [p \in Everywhere(vouchers) |->
        Signed(vouchers[p[1]].entries[p[2]].side, vouchers[p[1]].entries[p[2]].amount)]

\* What is at the places of the entries.
LEMMA EverywhereIs ==
    ASSUME NEW vouchers, AreVouchers(vouchers)
    PROVE  /\ IsFiniteSet(Everywhere(vouchers))
           /\ \A p \in Everywhere(vouchers) :
                 /\ p = <<p[1], p[2]>>
                 /\ p[1] \in DOMAIN vouchers
                 /\ p[2] \in DOMAIN vouchers[p[1]].entries
                 /\ vouchers[p[1]].entries[p[2]].side \in Sides
                 /\ vouchers[p[1]].entries[p[2]].amount \in Int
                 /\ Worth(vouchers)[p] \in Int
           /\ \A i \in DOMAIN vouchers : \A k \in DOMAIN vouchers[i].entries :
                 <<i, k>> \in Everywhere(vouchers)
<1> DEFINE D == [i \in DOMAIN vouchers |-> DOMAIN vouchers[i].entries]
           I == DOMAIN vouchers
<1>1. \A i \in I : D[i] = DOMAIN vouchers[i].entries /\ IsFiniteSet(D[i])
      BY DEF AreVouchers, AreEntries
<1>2. IsFiniteSet(I)
      BY DEF AreVouchers
<1> HIDE DEF D, I
<1>3. /\ IsFiniteSet(PlacesIn(D, I))
      /\ \A p \in PlacesIn(D, I) : p = <<p[1], p[2]>> /\ p[1] \in I /\ p[2] \in D[p[1]]
      /\ \A i \in I : \A k \in D[i] : <<i, k>> \in PlacesIn(D, I)
      BY <1>1, <1>2, PlacesAre, PlacesAreFinite
<1>4. PlacesIn(D, I) = Everywhere(vouchers)
      BY DEF Everywhere, D, I
<1>5. ASSUME NEW p \in Everywhere(vouchers)
      PROVE  /\ vouchers[p[1]].entries[p[2]].side \in Sides
             /\ vouchers[p[1]].entries[p[2]].amount \in Int
             /\ Worth(vouchers)[p] \in Int
  <2>1. p[1] \in DOMAIN vouchers /\ p[2] \in DOMAIN vouchers[p[1]].entries
        BY <1>1, <1>3, <1>4 DEF I
  <2>2. /\ vouchers[p[1]].entries[p[2]].side \in Sides
        /\ vouchers[p[1]].entries[p[2]].amount \in Int
        BY <2>1 DEF AreVouchers, AreEntries
  <2> QED  BY <2>2 DEF Worth, Signed
<1> QED  BY <1>1, <1>3, <1>4, <1>5 DEF I

\* The places of some ledgers and dates.
LEMMA PlacesAreSome ==
    ASSUME NEW vouchers, AreVouchers(vouchers), NEW accounts, NEW dates
    PROVE  /\ Places(vouchers, accounts, dates) =
                {p \in Everywhere(vouchers) :
                    /\ vouchers[p[1]].date \in dates
                    /\ vouchers[p[1]].entries[p[2]].ledger \in accounts}
           /\ Places(vouchers, accounts, dates) \in SUBSET Everywhere(vouchers)
           /\ IsFiniteSet(Places(vouchers, accounts, dates))
<1> DEFINE Q == {p \in Everywhere(vouchers) :
                    /\ vouchers[p[1]].date \in dates
                    /\ vouchers[p[1]].entries[p[2]].ledger \in accounts}
<1>1. /\ IsFiniteSet(Everywhere(vouchers))
      /\ \A p \in Everywhere(vouchers) : /\ p = <<p[1], p[2]>>
                                         /\ p[1] \in DOMAIN vouchers
                                         /\ p[2] \in DOMAIN vouchers[p[1]].entries
      /\ \A i \in DOMAIN vouchers : \A k \in DOMAIN vouchers[i].entries :
             <<i, k>> \in Everywhere(vouchers)
      BY EverywhereIs
<1>2. ASSUME NEW p \in Places(vouchers, accounts, dates)
      PROVE  p \in Q
      BY <1>1 DEF Places
<1>3. ASSUME NEW p \in Q
      PROVE  p \in Places(vouchers, accounts, dates)
      BY <1>1 DEF Places
<1>4. IsFiniteSet(Q)
      BY <1>1, FS_Subset
<1> HIDE DEF Q
<1>5. Places(vouchers, accounts, dates) = Q
      BY <1>2, <1>3
<1> QED  BY <1>4, <1>5 DEF Q

\* The net of some ledgers on some dates.
NetIn(vouchers, accounts, dates) == Net(EntriesOf(vouchers, accounts, dates))

\* The net of some ledgers and dates, as a sum over the places.
LEMMA NetInIs ==
    ASSUME NEW vouchers, AreVouchers(vouchers), NEW accounts, NEW dates
    PROVE  /\ NetIn(vouchers, accounts, dates)
                = Total(Worth(vouchers), Places(vouchers, accounts, dates))
           /\ NetIn(vouchers, accounts, dates) \in Int
           /\ AreEntries(EntriesOf(vouchers, accounts, dates))
<1> DEFINE E == EntriesOf(vouchers, accounts, dates)
           P == Places(vouchers, accounts, dates)
<1>1. DOMAIN E = P /\ \A p \in P : E[p] = vouchers[p[1]].entries[p[2]]
      BY DEF EntriesOf
<1>2. IsFiniteSet(P) /\ P \in SUBSET Everywhere(vouchers)
      BY PlacesAreSome
<1> HIDE DEF E, P
<1>3. AreEntries(E)
      BY <1>1, <1>2, EverywhereIs DEF AreEntries
<1>4. \A p \in P : Values(E)[p] = Worth(vouchers)[p]
      BY <1>1, <1>2 DEF Values, Worth
<1>5. Total(Values(E), P) = Total(Worth(vouchers), P)
      BY <1>2, <1>4, TotalSame
<1>6. Net(E) = Total(Values(E), P) /\ Net(E) \in Int
      BY <1>1, <1>3, NetIs
<1> QED  BY <1>3, <1>5, <1>6 DEF NetIn, E, P

\* The two sums of a ledger are its net.
LEMMA MovementIs ==
    ASSUME NEW vouchers, AreVouchers(vouchers), NEW l, NEW from, NEW to
    PROVE  /\ Movement(vouchers, l, "dr", from, to) \in Int
           /\ Movement(vouchers, l, "cr", from, to) \in Int
           /\ Movement(vouchers, l, "dr", from, to) - Movement(vouchers, l, "cr", from, to)
                = NetIn(vouchers, {l}, from..to)
<1> DEFINE E == EntriesOf(vouchers, {l}, from..to)
           P == DOMAIN E
           On(s) == {p \in P : E[p].side = s}
           amount(s) == [p \in On(s) |-> E[p].amount]
<1>1. AreEntries(E)
      BY NetInIs
<1>2. ASSUME NEW s \in Sides
      PROVE  /\ Movement(vouchers, l, s, from, to) = SumFunction(amount(s))
             /\ On(s) \in SUBSET P /\ IsFiniteSet(On(s))
             /\ \A p \in On(s) : amount(s)[p] \in Int
             /\ \A p \in On(s) : Values(E)[p] = IF s = "dr" THEN amount(s)[p]
                                                ELSE -amount(s)[p]
  <2>1. /\ DOMAIN RestrictValues(E, LAMBDA e : e.side = s) = On(s)
        /\ \A p \in On(s) : RestrictValues(E, LAMBDA e : e.side = s)[p] = E[p]
        BY DEF RestrictValues, Restrict
  <2>2. Movement(vouchers, l, s, from, to)
          = SumFunction([p \in On(s) |-> RestrictValues(E, LAMBDA e : e.side = s)[p].amount])
        BY <2>1 DEF Movement
  <2>3. [p \in On(s) |-> RestrictValues(E, LAMBDA e : e.side = s)[p].amount] = amount(s)
        BY <2>1
  <2>4. On(s) \in SUBSET P
        OBVIOUS
  <2>5. IsFiniteSet(On(s))
        BY <1>1, <2>4, FS_Subset DEF AreEntries
  <2>6. /\ \A p \in On(s) : amount(s)[p] \in Int
        /\ \A p \in On(s) : Values(E)[p] = IF s = "dr" THEN amount(s)[p]
                                           ELSE -amount(s)[p]
        BY <1>1 DEF AreEntries, Values, Signed
  <2> QED  BY <2>2, <2>3, <2>4, <2>5, <2>6
<1>3. /\ P = On("dr") \cup On("cr")
      /\ On("dr") \cap On("cr") = {}
      BY <1>1 DEF AreEntries, Sides
<1>4. \A s : DOMAIN amount(s) = On(s)
      OBVIOUS
<1>5. "dr" \in Sides /\ "cr" \in Sides
      BY DEF Sides
<1>6. Net(E) = Total(Values(E), P) /\ IsFiniteSet(P) /\ \A p \in P : Values(E)[p] \in Int
      BY <1>1, NetIs DEF AreEntries
<1> HIDE DEF E, P, On, amount
<1>7. Total(Values(E), P) = Total(Values(E), On("dr")) + Total(Values(E), On("cr"))
      BY <1>2, <1>3, <1>5, <1>6, TotalUnion
<1>8. ASSUME NEW s \in Sides
      PROVE  Movement(vouchers, l, s, from, to) = Total(amount(s), On(s))
      BY <1>2, <1>4, SumIs
<1>9. Total(Values(E), On("dr")) = Total(amount("dr"), On("dr"))
  <2>1. \A p \in On("dr") : Values(E)[p] = amount("dr")[p]
        BY <1>2, <1>5
  <2> QED  BY <1>2, <1>5, <2>1, TotalSame
<1>10. Total(Values(E), On("cr")) = -Total(amount("cr"), On("cr"))
  <2>1. \A p \in On("cr") : amount("cr")[p] \in Int /\ Values(E)[p] = -amount("cr")[p]
        BY <1>2, <1>5
  <2> QED  BY <1>2, <1>5, <2>1, TotalNegative
<1>11. ASSUME NEW s \in Sides
       PROVE  Total(amount(s), On(s)) \in Int
  <2>1. On(s) \in SUBSET On(s)
        OBVIOUS
  <2> QED  BY <1>2, <2>1, TotalInt
<1> QED  BY <1>5, <1>6, <1>7, <1>8, <1>9, <1>10, <1>11 DEF NetIn, E

\* Dates that are apart.
LEMMA NetOfBoth ==
    ASSUME NEW vouchers, AreVouchers(vouchers), NEW accounts,
           NEW dates, NEW others, dates \cap others = {}
    PROVE  NetIn(vouchers, accounts, dates \cup others)
             = NetIn(vouchers, accounts, dates) + NetIn(vouchers, accounts, others)
<1> DEFINE S == Everywhere(vouchers)
           f == Worth(vouchers)
           P(d) == Places(vouchers, accounts, d)
<1>1. IsFiniteSet(S) /\ \A p \in S : f[p] \in Int
      BY EverywhereIs
<1>2. \A d : P(d) = {p \in S : /\ vouchers[p[1]].date \in d
                               /\ vouchers[p[1]].entries[p[2]].ledger \in accounts}
      BY PlacesAreSome
<1>3. /\ NetIn(vouchers, accounts, dates) = Total(f, P(dates))
      /\ NetIn(vouchers, accounts, others) = Total(f, P(others))
      /\ NetIn(vouchers, accounts, dates \cup others) = Total(f, P(dates \cup others))
      BY NetInIs
<1> HIDE DEF S, f, P
<1>4. /\ P(dates) \in SUBSET S /\ P(others) \in SUBSET S
      /\ P(dates) \cap P(others) = {}
      /\ P(dates \cup others) = P(dates) \cup P(others)
      BY <1>2
<1>5. Total(f, P(dates) \cup P(others)) = Total(f, P(dates)) + Total(f, P(others))
      BY <1>1, <1>4, TotalUnion
<1>6. Total(f, P(dates \cup others)) = Total(f, P(dates)) + Total(f, P(others))
      BY <1>4, <1>5
<1> QED  BY <1>3, <1>6

\* The net of several ledgers is the sum of the net of each.
LEMMA NetByLedger ==
    ASSUME NEW vouchers, AreVouchers(vouchers), NEW accounts, IsFiniteSet(accounts),
           NEW dates, NEW g, \A l \in accounts : g[l] = NetIn(vouchers, {l}, dates)
    PROVE  Total(g, accounts) = NetIn(vouchers, accounts, dates)
<1> DEFINE S == Places(vouchers, accounts, dates)
           f == Worth(vouchers)
           k == [p \in S |-> vouchers[p[1]].entries[p[2]].ledger]
           part == [l \in accounts |-> Places(vouchers, {l}, dates)]
<1>1. /\ S = {p \in Everywhere(vouchers) :
                 /\ vouchers[p[1]].date \in dates
                 /\ vouchers[p[1]].entries[p[2]].ledger \in accounts}
      /\ IsFiniteSet(S)
      BY PlacesAreSome
<1>2. \A p \in S : f[p] \in Int
      BY <1>1, EverywhereIs
<1>3. \A p \in S : k[p] \in accounts
      BY <1>1
<1>4. ASSUME NEW l \in accounts
      PROVE  part[l] = {p \in S : k[p] = l}
  <2>1. Places(vouchers, {l}, dates)
          = {p \in Everywhere(vouchers) :
                /\ vouchers[p[1]].date \in dates
                /\ vouchers[p[1]].entries[p[2]].ledger \in {l}}
        BY PlacesAreSome
  <2> QED  BY <1>1, <2>1
<1>5. \A l \in accounts : g[l] = Total(f, part[l])
  <2> SUFFICES ASSUME NEW l \in accounts
               PROVE  g[l] = Total(f, part[l])
      OBVIOUS
  <2>1. NetIn(vouchers, {l}, dates) = Total(f, Places(vouchers, {l}, dates))
        BY NetInIs
  <2> QED  BY <2>1
<1>6. NetIn(vouchers, accounts, dates) = Total(f, S)
      BY NetInIs
<1> HIDE DEF S, f, k, part
<1>7. Total(g, accounts) = Total(f, S)
  <2>1. \A l \in accounts : part[l] = {p \in S : k[p] = l}
        BY <1>4
  <2>2. IsFiniteSet(S)
        BY <1>1
  <2> QED  BY <1>2, <1>3, <1>5, <2>1, <2>2, TotalByGroup
<1> QED  BY <1>6, <1>7

\* The entries of one voucher in some ledgers.
EntriesIn(voucher, accounts) ==
    {k \in DOMAIN voucher.entries : voucher.entries[k].ledger \in accounts}

\* The net of some ledgers, voucher by voucher.
LEMMA NetByVoucher ==
    ASSUME NEW vouchers, AreVouchers(vouchers), NEW accounts, NEW dates,
           NEW g, \A i \in DOMAIN vouchers : vouchers[i].date \in dates =>
                     g[i] = Total(Values(vouchers[i].entries),
                                  EntriesIn(vouchers[i], accounts))
    PROVE  NetIn(vouchers, accounts, dates)
             = Total(g, {i \in DOMAIN vouchers : vouchers[i].date \in dates})
<1> DEFINE I == {i \in DOMAIN vouchers : vouchers[i].date \in dates}
           D == [i \in I |-> EntriesIn(vouchers[i], accounts)]
           f == Worth(vouchers)
           e == [i \in I |-> Values(vouchers[i].entries)]
<1>1. IsFiniteSet(I) /\ \A i \in I : IsFiniteSet(D[i])
  <2>1. I \in SUBSET DOMAIN vouchers
        OBVIOUS
  <2>2. \A i \in I : /\ D[i] \in SUBSET DOMAIN vouchers[i].entries
                     /\ IsFiniteSet(DOMAIN vouchers[i].entries)
        BY DEF EntriesIn, AreVouchers, AreEntries
  <2> HIDE DEF I, D
  <2> QED  BY <2>1, <2>2, FS_Subset DEF AreVouchers
<1>2. Places(vouchers, accounts, dates) = PlacesIn(D, I)
      BY DEF Places, PlacesIn, EntriesIn
<1>3. /\ \A p \in Places(vouchers, accounts, dates) : f[p] \in Int
      /\ NetIn(vouchers, accounts, dates) = Total(f, Places(vouchers, accounts, dates))
      BY PlacesAreSome, EverywhereIs, NetInIs
<1>4. \A i \in I : \A k \in D[i] : e[i][k] = f[<<i, k>>]
  <2> SUFFICES ASSUME NEW i \in I, NEW k \in D[i]
               PROVE  e[i][k] = f[<<i, k>>]
      OBVIOUS
  <2>1. i \in DOMAIN vouchers /\ k \in DOMAIN vouchers[i].entries
        BY DEF EntriesIn
  <2>2. <<i, k>> \in Everywhere(vouchers)
        BY <2>1, EverywhereIs
  <2> QED  BY <2>1, <2>2 DEF Values, Worth
<1>5. \A i \in I : g[i] = Total(e[i], D[i])
      OBVIOUS
<1> HIDE DEF I, D, f, e
<1>6. Total(f, PlacesIn(D, I)) = Total(g, I)
      BY <1>1, <1>2, <1>3, <1>4, <1>5, TotalNested
<1> QED  BY <1>2, <1>3, <1>6 DEF I

\* A later voucher changes no sum over other dates.
LEMMA NetOfPrefix ==
    ASSUME NEW vouchers, NEW n \in Nat, NEW accounts, NEW dates,
           DOMAIN vouchers \subseteq Nat, 1..n \subseteq DOMAIN vouchers,
           \A i \in DOMAIN vouchers : vouchers[i].date \in dates => i \in 1..n
    PROVE  EntriesOf(Restrict(vouchers, 1..n), accounts, dates)
             = EntriesOf(vouchers, accounts, dates)
<1> DEFINE v == Restrict(vouchers, 1..n)
<1>1. DOMAIN v = 1..n /\ \A i \in 1..n : v[i] = vouchers[i]
      BY DEF Restrict
<1> HIDE DEF v
<1>2. {i \in DOMAIN v : v[i].date \in dates}
        = {i \in DOMAIN vouchers : vouchers[i].date \in dates}
      BY <1>1
<1>3. Places(v, accounts, dates) = Places(vouchers, accounts, dates)
      BY <1>1, <1>2 DEF Places
<1>4. \A p \in Places(v, accounts, dates) :
          v[p[1]].entries[p[2]] = vouchers[p[1]].entries[p[2]]
  <2> SUFFICES ASSUME NEW p \in Places(v, accounts, dates)
               PROVE  p[1] \in 1..n
      BY <1>1
  <2> QED  BY <1>1 DEF Places
<1> QED  BY <1>3, <1>4 DEF EntriesOf, v

-----------------------------------------------------------------------------
(* The statements, as sums of closing balances. *)

AreBalances(lines) ==
    /\ IsFiniteSet(DOMAIN lines)
    /\ \A l \in DOMAIN lines : /\ lines[l].nature \in Natures
                               /\ ClosingNet(lines[l]) \in Int

Closing(lines) == [l \in DOMAIN lines |-> ClosingNet(lines[l])]

OfNatures(lines, natures) == {l \in DOMAIN lines : lines[l].nature \in natures}

InSection(lines, n, direct) ==
    {l \in DOMAIN lines : lines[l].nature = n /\ (lines[l].class \in Direct) \in direct}

\* Ledgers whose balance is zero add nothing.
LEMMA TotalWithoutZeros ==
    ASSUME NEW S, IsFiniteSet(S), NEW f, \A x \in S : f[x] \in Int,
           NEW R \in SUBSET S, \A x \in S \ R : f[x] = 0
    PROVE  Total(f, R) = Total(f, S) /\ Total(f, S) \in Int
<1> DEFINE Z == S \ R
<1>1. Z \in SUBSET S /\ R \cap Z = {} /\ R \cup Z = S /\ S \in SUBSET S
      OBVIOUS
<1>2. \A x \in Z : f[x] = 0
      OBVIOUS
<1> HIDE DEF Z
<1>3. IsFiniteSet(Z)
      BY <1>1, FS_Subset
<1>4. Total(f, R \cup Z) = Total(f, R) + Total(f, Z)
      BY <1>1, TotalUnion
<1>5. Total(f, Z) = 0
      BY <1>2, <1>3, TotalZero
<1>6. Total(f, R) \in Int /\ Total(f, S) \in Int
      BY <1>1, TotalInt
<1>7. Total(f, S) = Total(f, R) + Total(f, Z)
      BY <1>1, <1>4
<1> QED  BY <1>5, <1>6, <1>7

\* A trial balance shows each closing balance, and is out by their sum.
LEMMA TrialIs ==
    ASSUME NEW lines, AreBalances(lines)
    PROVE  LET t == TrialBalance(lines) IN
           /\ \A l \in DOMAIN lines :
                 Shown(t.debits, l) - Shown(t.credits, l) = Closing(lines)[l]
           /\ t.totalDebit - t.totalCredit = Total(Closing(lines), DOMAIN lines)
           /\ Total(Closing(lines), DOMAIN lines) \in Int
<1> DEFINE c == Closing(lines)
           S == DOMAIN lines
           R == {l \in DOMAIN lines : ClosingNet(lines[l]) # 0}
           d == [l \in R |-> DebitBalance(lines[l])]
           e == [l \in R |-> CreditBalance(lines[l])]
           t == TrialBalance(lines)
<1>1. /\ t.debits = d /\ t.credits = e
      /\ t.totalDebit = SumFunction(d) /\ t.totalCredit = SumFunction(e)
      BY DEF TrialBalance
<1>2. /\ \A l \in S : c[l] \in Int
      /\ \A l \in S \ R : c[l] = 0
      /\ R \in SUBSET S
      BY DEF AreBalances, Closing
<1>3. IsFiniteSet(S) /\ IsFiniteSet(R)
      BY <1>2, FS_Subset DEF AreBalances
<1>4. DOMAIN d = R /\ DOMAIN e = R
      OBVIOUS
<1>5. \A l \in R : d[l] \in Int /\ e[l] \in Int /\ c[l] = d[l] - e[l]
      BY DEF AreBalances, Closing, DebitBalance, CreditBalance, Positive
<1> HIDE DEF c, S, R, d, e, t
<1>6. \A l \in S : Shown(d, l) - Shown(e, l) = c[l]
      BY <1>2, <1>4, <1>5 DEF Shown
<1>7. Total(c, R) = Total(d, R) - Total(e, R)
      BY <1>3, <1>5, TotalMinus
<1>8. Total(c, R) = Total(c, S) /\ Total(c, S) \in Int
      BY <1>2, <1>3, TotalWithoutZeros
<1>9. SumFunction(d) = Total(d, R) /\ SumFunction(e) = Total(e, R)
      BY <1>3, <1>4, SumIs
<1>10. t.totalDebit - t.totalCredit = Total(c, S)
      BY <1>1, <1>7, <1>8, <1>9
<1> QED  BY <1>1, <1>6, <1>8, <1>10 DEF c, S, t

\* A section shows the closing balances of its ledgers, and adds them up.
LEMMA SectionIs ==
    ASSUME NEW lines, AreBalances(lines), NEW n \in Natures, NEW direct
    PROVE  LET f == Section(lines, n, direct)
               D == InSection(lines, n, direct)
               total == Total(Closing(lines), D) IN
           /\ SumFunction(f) = IF n \in {"asset", "expense"} THEN total ELSE -total
           /\ \A l \in D : Shown(f, l) = IF n \in {"asset", "expense"}
                                         THEN Closing(lines)[l] ELSE -Closing(lines)[l]
           /\ \A l \in DOMAIN lines \ D : Shown(f, l) = 0
           /\ total \in Int
<1> DEFINE f == Section(lines, n, direct)
           c == Closing(lines)
           D == InSection(lines, n, direct)
           R == {l \in D : ClosingNet(lines[l]) # 0}
<1>1. DOMAIN f = R
      BY DEF Section, InSection
<1>2. /\ \A l \in D : c[l] \in Int
      /\ \A l \in D \ R : c[l] = 0
      /\ R \in SUBSET D /\ D \in SUBSET DOMAIN lines
      BY DEF AreBalances, Closing, InSection
<1>3. IsFiniteSet(D)
      BY <1>2, FS_Subset DEF AreBalances
<1>4. IsFiniteSet(R)
      BY <1>2, <1>3, FS_Subset
<1>5. \A l \in R : f[l] = IF n \in {"asset", "expense"} THEN c[l] ELSE -c[l]
      BY DEF Section, Closing, InSection
<1> HIDE DEF f, c, D, R
<1>6. Total(c, R) = Total(c, D) /\ Total(c, D) \in Int
      BY <1>2, <1>3, TotalWithoutZeros
<1>7. SumFunction(f) = Total(f, R)
      BY <1>1, <1>4, SumIs
<1>8. CASE n \in {"asset", "expense"}
  <2>1. \A l \in R : f[l] = c[l]
        BY <1>5, <1>8
  <2>2. Total(f, R) = Total(c, R)
        BY <1>4, <2>1, TotalSame
  <2>3. \A l \in D : Shown(f, l) = c[l]
        BY <1>1, <1>2, <2>1 DEF Shown
  <2>4. \A l \in DOMAIN lines \ D : Shown(f, l) = 0
        BY <1>1, <1>2 DEF Shown
  <2> QED  BY <1>6, <1>7, <1>8, <2>2, <2>3, <2>4 DEF f, c, D
<1>9. CASE n \notin {"asset", "expense"}
  <2>1. \A l \in R : c[l] \in Int /\ f[l] = -c[l]
        BY <1>2, <1>5, <1>9
  <2>2. Total(f, R) = -Total(c, R)
        BY <1>4, <2>1, TotalNegative
  <2>3. \A l \in D : Shown(f, l) = -c[l]
        BY <1>1, <1>2, <2>1 DEF Shown
  <2>4. \A l \in DOMAIN lines \ D : Shown(f, l) = 0
        BY <1>1, <1>2 DEF Shown
  <2> QED  BY <1>6, <1>7, <1>9, <2>2, <2>3, <2>4 DEF f, c, D
<1> QED  BY <1>8, <1>9

\* A profit is what the income and expense ledgers are in credit.
LEMMA ProfitIs ==
    ASSUME NEW lines, AreBalances(lines)
    PROVE  /\ ProfitAndLoss(lines).netProfit
                = -Total(Closing(lines), OfNatures(lines, {"income", "expense"}))
           /\ Total(Closing(lines), OfNatures(lines, {"income", "expense"})) \in Int
<1> DEFINE c == Closing(lines)
           S == DOMAIN lines
           D(n, b) == InSection(lines, n, {b})
           N(n) == OfNatures(lines, {n})
           B == OfNatures(lines, {"income", "expense"})
<1>1. IsFiniteSet(S) /\ \A l \in S : c[l] \in Int
      BY DEF AreBalances, Closing
<1>2. ASSUME NEW b \in BOOLEAN
      PROVE  /\ SumFunction(Section(lines, "income", {b})) = -Total(c, D("income", b))
             /\ SumFunction(Section(lines, "expense", {b})) = Total(c, D("expense", b))
             /\ Total(c, D("income", b)) \in Int /\ Total(c, D("expense", b)) \in Int
  <2>1. "income" \in Natures /\ "expense" \in Natures
        BY DEF Natures
  <2>2. /\ SumFunction(Section(lines, "income", {b})) = -Total(c, D("income", b))
        /\ Total(c, D("income", b)) \in Int
        BY <2>1, SectionIs
  <2>3. /\ SumFunction(Section(lines, "expense", {b})) = Total(c, D("expense", b))
        /\ Total(c, D("expense", b)) \in Int
        BY <2>1, SectionIs
  <2> QED  BY <2>2, <2>3
<1>3. \A n : /\ D(n, TRUE) \in SUBSET S /\ D(n, FALSE) \in SUBSET S
             /\ D(n, TRUE) \cap D(n, FALSE) = {}
             /\ N(n) = D(n, TRUE) \cup D(n, FALSE)
  <2> SUFFICES ASSUME NEW n
               PROVE  /\ D(n, TRUE) \in SUBSET S /\ D(n, FALSE) \in SUBSET S
                      /\ D(n, TRUE) \cap D(n, FALSE) = {}
                      /\ N(n) = D(n, TRUE) \cup D(n, FALSE)
      OBVIOUS
  <2>3. \A x : /\ ((x \in Direct) \in {TRUE}) <=> x \in Direct
              /\ ((x \in Direct) \in {FALSE}) <=> x \notin Direct
    <3> SUFFICES ASSUME NEW x
                 PROVE  /\ ((x \in Direct) \in {TRUE}) <=> x \in Direct
                        /\ ((x \in Direct) \in {FALSE}) <=> x \notin Direct
        OBVIOUS
    <3>1. CASE x \in Direct
          BY <3>1
    <3>2. CASE x \notin Direct
      <4>1. (x \in Direct) = FALSE
            BY <3>2
      <4>2. (x \in Direct) \in {FALSE}
            BY <4>1
      <4>3. ~((x \in Direct) \in {TRUE})
            BY <3>2, Zenon
      <4> QED  BY <3>2, <4>2, <4>3
    <3> QED  BY <3>1, <3>2
  <2>1. /\ D(n, TRUE) = {l \in S : lines[l].nature = n /\ lines[l].class \in Direct}
        /\ D(n, FALSE) = {l \in S : lines[l].nature = n /\ lines[l].class \notin Direct}
        BY <2>3, Zenon DEF InSection
  <2>2. N(n) = {l \in S : lines[l].nature = n}
        BY DEF OfNatures
  <2> QED  BY <2>1, <2>2
<1>4. /\ N("income") \in SUBSET S /\ N("expense") \in SUBSET S
      /\ N("income") \cap N("expense") = {}
      /\ B = N("income") \cup N("expense")
      BY DEF OfNatures
<1> DEFINE di == SumFunction(Section(lines, "income", {TRUE}))
           de == SumFunction(Section(lines, "expense", {TRUE}))
           ii == SumFunction(Section(lines, "income", {FALSE}))
           ie == SumFunction(Section(lines, "expense", {FALSE}))
<1>5. ProfitAndLoss(lines).netProfit = (di - de) + ii - ie
      BY DEF ProfitAndLoss
<1> HIDE DEF c, S, D, N, B
<1>6. ASSUME NEW n
      PROVE  Total(c, N(n)) = Total(c, D(n, TRUE)) + Total(c, D(n, FALSE))
  <2> DEFINE P == D(n, TRUE)
             Q == D(n, FALSE)
  <2>1. P \in SUBSET S /\ Q \in SUBSET S /\ P \cap Q = {}
        BY <1>3
  <2>2. N(n) = P \cup Q
        BY <1>3
  <2> HIDE DEF P, Q
  <2>3. Total(c, P \cup Q) = Total(c, P) + Total(c, Q)
        BY <1>1, <2>1, TotalUnion
  <2> QED  BY <2>2, <2>3 DEF P, Q
<1>7. Total(c, B) = Total(c, N("income")) + Total(c, N("expense"))
  <2>1. Total(c, N("income") \cup N("expense"))
          = Total(c, N("income")) + Total(c, N("expense"))
        BY <1>1, <1>4, TotalUnion
  <2> QED  BY <1>4, <2>1
<1>8. /\ Total(c, N("income")) = Total(c, D("income", TRUE)) + Total(c, D("income", FALSE))
      /\ Total(c, N("expense")) = Total(c, D("expense", TRUE)) + Total(c, D("expense", FALSE))
      BY <1>6
<1>9. /\ di = -Total(c, D("income", TRUE)) /\ ii = -Total(c, D("income", FALSE))
      /\ de = Total(c, D("expense", TRUE)) /\ ie = Total(c, D("expense", FALSE))
      /\ Total(c, D("income", TRUE)) \in Int /\ Total(c, D("income", FALSE)) \in Int
      /\ Total(c, D("expense", TRUE)) \in Int /\ Total(c, D("expense", FALSE)) \in Int
      BY <1>2
<1> DEFINE p == Total(c, D("income", TRUE))
           q == Total(c, D("income", FALSE))
           u == Total(c, D("expense", TRUE))
           v == Total(c, D("expense", FALSE))
           w == Total(c, B)
<1>10. /\ p \in Int /\ q \in Int /\ u \in Int /\ v \in Int
       /\ di = -p /\ ii = -q /\ de = u /\ ie = v
      BY <1>9
<1>11. w = (p + q) + (u + v)
      BY <1>7, <1>8
<1> HIDE DEF di, de, ii, ie, p, q, u, v, w
<1>12. (di - de) + ii - ie = -w /\ w \in Int
      BY <1>10, <1>11
<1> QED  BY <1>5, <1>12 DEF c, B, w

\* A balance sheet shows the closing balances of the other ledgers, and is out by
\* their sum less the profit it is given.
LEMMA SheetIs ==
    ASSUME NEW lines, AreBalances(lines), NEW profit
    PROVE  LET s == BalanceSheet(lines, profit)
               own == OfNatures(lines, {"asset", "liability"}) IN
           /\ \A l \in own : Shown(s.assets, l) - Shown(s.liabilities, l) = Closing(lines)[l]
           /\ s.netProfit = profit
           /\ profit \in Int =>
                 s.totalAssets - s.totalLiabilities = Total(Closing(lines), own) - profit
           /\ Total(Closing(lines), own) \in Int
<1> DEFINE c == Closing(lines)
           S == DOMAIN lines
           D(n) == InSection(lines, n, BOOLEAN)
           s == BalanceSheet(lines, profit)
           own == OfNatures(lines, {"asset", "liability"})
           a == Section(lines, "asset", BOOLEAN)
           b == Section(lines, "liability", BOOLEAN)
<1>1. IsFiniteSet(S) /\ \A l \in S : c[l] \in Int
      BY DEF AreBalances, Closing
<1>2. /\ SumFunction(a) = Total(c, D("asset")) /\ Total(c, D("asset")) \in Int
      /\ \A l \in D("asset") : Shown(a, l) = c[l]
      /\ \A l \in S \ D("asset") : Shown(a, l) = 0
  <2>1. "asset" \in Natures
        BY DEF Natures
  <2> QED  BY <2>1, SectionIs
<1>3. /\ SumFunction(b) = -Total(c, D("liability")) /\ Total(c, D("liability")) \in Int
      /\ \A l \in D("liability") : Shown(b, l) = -c[l]
      /\ \A l \in S \ D("liability") : Shown(b, l) = 0
  <2>1. "liability" \in Natures
        BY DEF Natures
  <2> QED  BY <2>1, SectionIs
<1>4. /\ D("asset") \in SUBSET S /\ D("liability") \in SUBSET S
      /\ D("asset") \cap D("liability") = {}
      /\ own = D("asset") \cup D("liability")
      BY DEF OfNatures, InSection
<1>5. /\ s.assets = a /\ s.liabilities = b /\ s.netProfit = profit
      /\ s.totalAssets = SumFunction(a) /\ s.totalLiabilities = SumFunction(b) + profit
      BY DEF BalanceSheet
<1> HIDE DEF c, S, D, s, own, a, b
<1>6. Total(c, own) = Total(c, D("asset")) + Total(c, D("liability"))
  <2>1. Total(c, D("asset") \cup D("liability"))
          = Total(c, D("asset")) + Total(c, D("liability"))
        BY <1>1, <1>4, TotalUnion
  <2> QED  BY <1>4, <2>1
<1>7. \A l \in own : Shown(a, l) - Shown(b, l) = c[l]
  <2> SUFFICES ASSUME NEW l \in own
               PROVE  Shown(a, l) - Shown(b, l) = c[l]
      OBVIOUS
  <2>1. CASE l \in D("asset")
        BY <1>1, <1>2, <1>3, <1>4, <2>1
  <2>2. CASE l \in D("liability")
        BY <1>1, <1>2, <1>3, <1>4, <2>2
  <2> QED  BY <1>4, <2>1, <2>2
<1>8. profit \in Int => s.totalAssets - s.totalLiabilities = Total(c, own) - profit
      BY <1>2, <1>3, <1>5, <1>6
<1>9. Total(c, own) \in Int
      BY <1>2, <1>3, <1>6
<1> QED  BY <1>5, <1>7, <1>8, <1>9 DEF c, s, own

-----------------------------------------------------------------------------
(* The invariant. *)

AreAccounts(accounts) ==
    /\ IsFiniteSet(DOMAIN accounts)
    /\ \A l \in DOMAIN accounts : /\ accounts[l].nature \in Natures
                                  /\ accounts[l].opening \in Int

TodayInv == today \in Epoch..Late

LedgersInv == AreAccounts(ledgers)

ArrivedInv == arrived \in SUBSET Invoices /\ IsFiniteSet(arrived)

\* A voucher has the entries it was asked for, which balance, as they are stored.
Keeps(voucher, entries) == Balanced(entries) /\ voucher.entries = Stored(entries)

IsEntered(voucher) ==
    /\ voucher.source = NoValue
    /\ \E draft \in Drafts : Keeps(voucher, draft.entries)

IsPosting(voucher) ==
    /\ voucher.source \in arrived
    /\ Bill[voucher.source].date # NoValue => voucher.date = Bill[voucher.source].date
    /\ Keeps(voucher, InvoiceEntries(Bill[voucher.source]))

IsVoucher(voucher) ==
    /\ voucher.date \in Early..Late
    /\ IsEntered(voucher) \/ IsPosting(voucher)
    /\ \A k \in DOMAIN voucher.entries : voucher.entries[k].ledger \in DOMAIN ledgers

BooksInv ==
    /\ books \in Seq(Range(books))
    /\ \A i \in DOMAIN books : IsVoucher(books[i])
    /\ \A i, j \in DOMAIN books :
          books[i].source = books[j].source /\ books[i].source # NoValue => i = j

Kinds == {"trial", "sheet", "profit", "outstanding", "statement"}

IsReport(r) ==
    /\ r \in [kind : Kinds, of : {r.of}, from : Int, to : Int, first : BOOLEAN,
              year : Int, step : {"ledgers", "before", "sums"}, listed : {r.listed},
              before : {r.before}, profit : Int, ledgerMade : BOOLEAN,
              dates : SUBSET (Early..Late)]
    /\ Early <= r.year
    /\ r.kind # "profit" => Epoch <= r.from /\ r.from <= r.to
    /\ r.kind = "statement" => r.of \in DOMAIN ledgers

\* What the first SELECT returned.
ListInv ==
    report.step \in {"before", "sums"} =>
        /\ AreAccounts(report.listed)
        /\ ~report.ledgerMade => report.listed = ledgers

\* What the second returned: the sums of the first n vouchers.  The dates of the
\* others were kept.
SumsInv ==
    report.step = "sums" =>
        \E n \in 0..Len(books) :
            /\ report.before = Before(Restrict(books, 1..n), report.listed, From(report))
            /\ \A i \in DOMAIN books : i > n => books[i].date \in report.dates

\* What the first pass over a balance sheet returned.
ProfitInv ==
    /\ Running /\ report.kind = "sheet" /\ ~report.first
    /\ ~report.ledgerMade /\ report.dates = {}
    => report.profit = -NetOf(Nominal, report.year..report.to)

ReportInv == /\ Running => IsReport(report)
             /\ ListInv /\ SumsInv /\ ProfitInv

-----------------------------------------------------------------------------
(* The invoices of a period. *)

\* The invoices a return reads.
LEMMA InPeriodIs ==
    ASSUME ArrivedInv, NEW day
    PROVE  /\ AreInvoices(InPeriod(day))
           /\ DOMAIN InPeriod(day) = {b \in arrived : Bill[b].date = day}
           /\ \A b \in DOMAIN InPeriod(day) : InPeriod(day)[b] = Bill[b]
<1> DEFINE S == {b \in arrived : Bill[b].date = day}
<1>1. InPeriod(day) = [b \in S |-> Bill[b]]
      BY DEF InPeriod, Restrict
<1>2. S \in SUBSET arrived /\ IsFiniteSet(S)
      BY FS_Subset DEF ArrivedInv
<1>3. \A b \in S : AreLines(Bill[b].lines)
      BY ReportsAssumption DEF ArrivedInv, AreLines
<1> QED  BY <1>1, <1>2, <1>3 DEF AreInvoices

\* Invoices only arrive.
LEMMA ArrivedInductive ==
    ASSUME ArrivedInv, [Next]_vars
    PROVE  ArrivedInv'
<1>1. CASE \E b \in Invoices : Arrive(b)
      BY <1>1, FS_AddElement DEF ArrivedInv, Arrive
<1>2. CASE UNCHANGED arrived
      BY <1>2 DEF ArrivedInv
<1> QED  BY <1>1, <1>2 DEF Next, vars, Ask, ListLedgers, SumBefore, SumPeriod,
            CreateLedger, Enter, Post, NextDay

\* The parts of the GSTR-1 of any period are the whole, whatever has arrived.
THEOREM ReturnsAddUp == Spec => []SectionsAddUp
<1>1. Init => ArrivedInv
      BY FS_EmptySet DEF Init, ArrivedInv
<1>2. ArrivedInv /\ [Next]_vars => ArrivedInv'
      BY ArrivedInductive
<1>3. ArrivedInv => SectionsAddUp
  <2> SUFFICES ASSUME ArrivedInv, NEW day \in Days
               PROVE  LET invoices == InPeriod(day)
                          s == Gstr1(invoices)
                          groups == [k \in {<<"b2b", g>> : g \in DOMAIN s.b2b}
                                             \cup {<<"b2c", g>> : g \in DOMAIN s.b2c} |->
                                        s[k[1]][k[2]]] IN
                      /\ AddUp([k \in DOMAIN groups |-> groups[k].totals], s.totals)
                      /\ SumFunction([k \in DOMAIN groups |-> groups[k].count])
                           = Cardinality(Directed(invoices, "sales"))
                      /\ AddUp(s.rateWise, s.totals)
                      /\ AddUp([row \in CsvRows(s) |-> row.totals], s.totals)
                      /\ s.totals = Gstr3b(invoices).outward
      BY DEF SectionsAddUp
  <2>1. AreInvoices(InPeriod(day))
        BY InPeriodIs
  <2> QED  BY <2>1, SectionsOf
<1> QED  BY <1>1, <1>2, <1>3, PTL DEF Spec

-----------------------------------------------------------------------------
(* The ledgers. *)

\* The accounts with one more.
LEMMA WithIs ==
    ASSUME NEW a, AreAccounts(a), NEW l, NEW v, v.nature \in Natures, v.opening \in Int
    PROVE  /\ AreAccounts(With(a, l, v))
           /\ DOMAIN With(a, l, v) = DOMAIN a \cup {l}
<1>1. IsFiniteSet(DOMAIN a \cup {l})
      BY FS_AddElement DEF AreAccounts
<1> QED  BY <1>1 DEF AreAccounts, With

\* A set of four is finite.
LEMMA FourAreFinite ==
    ASSUME NEW a, NEW b, NEW c, NEW d
    PROVE  IsFiniteSet({a, b, c, d})
<1>1. IsFiniteSet({a} \cup {b})
      BY FS_Singleton, FS_AddElement
<1>2. IsFiniteSet(({a} \cup {b}) \cup {c})
      BY <1>1, FS_AddElement
<1>3. IsFiniteSet((({a} \cup {b}) \cup {c}) \cup {d})
      BY <1>2, FS_AddElement
<1>4. (({a} \cup {b}) \cup {c}) \cup {d} = {a, b, c, d}
      OBVIOUS
<1> QED  BY <1>3, <1>4

\* The tax ledgers, by direction and head.
LEMMA TaxLedgersAre ==
    /\ \A h \in Heads : /\ TaxLedger.sales[h] \in {"Output CGST", "Output SGST",
                                                   "Output IGST", "Output CESS"}
                        /\ TaxLedger.purchase[h] \in {"Input CGST", "Input SGST",
                                                      "Input IGST", "Input CESS"}
    /\ TaxLedgers = {"Output CGST", "Output SGST", "Output IGST", "Output CESS"}
                       \cup {"Input CGST", "Input SGST", "Input IGST", "Input CESS"}
    /\ IsFiniteSet(TaxLedgers)
<1> DEFINE s == [cgst |-> "Output CGST", sgst |-> "Output SGST",
                 igst |-> "Output IGST", cess |-> "Output CESS"]
           p == [cgst |-> "Input CGST", sgst |-> "Input SGST",
                 igst |-> "Input IGST", cess |-> "Input CESS"]
           S == {"Output CGST", "Output SGST", "Output IGST", "Output CESS"}
           P == {"Input CGST", "Input SGST", "Input IGST", "Input CESS"}
<1>1. /\ TaxLedger["sales"] = s /\ TaxLedger["purchase"] = p
      /\ TaxLedger.sales = s /\ TaxLedger.purchase = p
      BY DEF TaxLedger
<1>2. DOMAIN s = Heads /\ DOMAIN p = Heads
      BY DEF Heads
<1>3. /\ s["cgst"] = "Output CGST" /\ s["sgst"] = "Output SGST"
      /\ s["igst"] = "Output IGST" /\ s["cess"] = "Output CESS"
      /\ p["cgst"] = "Input CGST" /\ p["sgst"] = "Input SGST"
      /\ p["igst"] = "Input IGST" /\ p["cess"] = "Input CESS"
      OBVIOUS
<1> HIDE DEF s, p
<1>4. /\ \A h \in Heads : s[h] \in S /\ p[h] \in P
      /\ \A x \in S : \E h \in Heads : s[h] = x
      /\ \A x \in P : \E h \in Heads : p[h] = x
  <2>1. "cgst" \in Heads /\ "sgst" \in Heads /\ "igst" \in Heads /\ "cess" \in Heads
        BY DEF Heads
  <2>2. \A h \in Heads : h = "cgst" \/ h = "sgst" \/ h = "igst" \/ h = "cess"
        BY DEF Heads
  <2>3. \A h \in Heads : s[h] \in S /\ p[h] \in P
        BY <1>3, <2>2
  <2> QED  BY <1>3, <2>1, <2>3
<1> HIDE DEF s, p, S, P
<1>5. Range(s) = S /\ Range(p) = P
      BY <1>2, <1>4 DEF Range
<1>6. TaxLedgers = S \cup P
      BY <1>1, <1>5 DEF TaxLedgers
<1>7. IsFiniteSet(S) /\ IsFiniteSet(P)
      BY FourAreFinite DEF S, P
<1>8. IsFiniteSet(S \cup P)
      BY <1>7, FS_Union
<1>9. \A h \in Heads : TaxLedger.sales[h] \in S /\ TaxLedger.purchase[h] \in P
      BY <1>1, <1>4
<1> QED  BY <1>6, <1>8, <1>9 DEF S, P

\* The standard chart is a chart of accounts.
LEMMA ChartIs == AreAccounts(Chart)
<1> DEFINE tax == {<<l, "liability", "duties_taxes">> : l \in TaxLedgers}
           others == {<<"Cash", "asset", "cash">>, <<"Bank Account", "asset", "bank">>,
                      <<"Sales", "income", "sales">>,
                      <<"Purchase", "expense", "purchase">>,
                      <<"Round Off", "expense", "indirect_expense">>,
                      <<"Opening Balance Equity", "liability", "capital">>}
           rows == tax \cup others
           names == TaxLedgers \cup ({"Cash", "Bank Account", "Sales", "Purchase"}
                      \cup {"Round Off", "Opening Balance Equity"})
           Row(l) == CHOOSE row \in rows : row[1] = l
<1>1. Chart = [l \in {row[1] : row \in rows} |->
                  Account(Row(l)[2], Row(l)[3], 0)]
      BY DEF Chart
<1>2. \A row \in rows : row[1] \in names /\ row[2] \in Natures
  <2>1. \A row \in tax : row[1] \in names /\ row[2] \in Natures
    <3> SUFFICES ASSUME NEW row \in tax
                 PROVE  row[1] \in names /\ row[2] \in Natures
        OBVIOUS
    <3>1. PICK l \in TaxLedgers : row = <<l, "liability", "duties_taxes">>
          OBVIOUS
    <3> QED  BY <3>1 DEF Natures
  <2>2. \A row \in others : row[1] \in names /\ row[2] \in Natures
    <3> SUFFICES ASSUME NEW row \in others
                 PROVE  row[1] \in names /\ row[2] \in Natures
        OBVIOUS
    <3>1. \/ row = <<"Cash", "asset", "cash">>
          \/ row = <<"Bank Account", "asset", "bank">>
          \/ row = <<"Sales", "income", "sales">>
          \/ row = <<"Purchase", "expense", "purchase">>
          \/ row = <<"Round Off", "expense", "indirect_expense">>
          \/ row = <<"Opening Balance Equity", "liability", "capital">>
          OBVIOUS
    <3> HIDE DEF others
    <3>2. CASE row = <<"Cash", "asset", "cash">>
          BY <3>2 DEF Natures
    <3>3. CASE row = <<"Bank Account", "asset", "bank">>
          BY <3>3 DEF Natures
    <3>4. CASE row = <<"Sales", "income", "sales">>
          BY <3>4 DEF Natures
    <3>5. CASE row = <<"Purchase", "expense", "purchase">>
          BY <3>5 DEF Natures
    <3>6. CASE row = <<"Round Off", "expense", "indirect_expense">>
          BY <3>6 DEF Natures
    <3>7. CASE row = <<"Opening Balance Equity", "liability", "capital">>
          BY <3>7 DEF Natures
    <3> QED  BY <3>1, <3>2, <3>3, <3>4, <3>5, <3>6, <3>7
  <2> QED  BY <2>1, <2>2
<1>3. IsFiniteSet(names)
  <2>1. IsFiniteSet({"Cash", "Bank Account", "Sales", "Purchase"})
        BY FourAreFinite
  <2>2. {"Round Off", "Opening Balance Equity"}
          = {"Round Off", "Opening Balance Equity", "Round Off", "Round Off"}
        OBVIOUS
  <2>3. IsFiniteSet({"Round Off", "Opening Balance Equity"})
        BY <2>2, FourAreFinite
  <2> QED  BY <2>1, <2>3, TaxLedgersAre, FS_Union
<1> HIDE DEF rows, names
<1>4. IsFiniteSet({row[1] : row \in rows})
  <2>1. {row[1] : row \in rows} \subseteq names
        BY <1>2
  <2> QED  BY <1>3, <2>1, FS_Subset
<1>5. \A l \in {row[1] : row \in rows} : Row(l)[2] \in Natures
  <2> SUFFICES ASSUME NEW row \in rows
               PROVE  Row(row[1])[2] \in Natures
      OBVIOUS
  <2>1. Row(row[1]) \in rows
        OBVIOUS
  <2> QED  BY <1>2, <2>1
<1>6. DOMAIN Chart = {row[1] : row \in rows}
      BY <1>1
<1>7. \A l \in DOMAIN Chart : Chart[l].nature = Row(l)[2] /\ Chart[l].opening = 0
      BY <1>1 DEF Account
<1> HIDE DEF Row
<1> QED  BY <1>4, <1>5, <1>6, <1>7 DEF AreAccounts

-----------------------------------------------------------------------------
(* What is stored of the entries that a voucher is asked for. *)

\* Ten times a function.
LEMMA TotalTenfold ==
    ASSUME NEW S, IsFiniteSet(S), NEW f, NEW g,
           \A x \in S : f[x] \in Int /\ g[x] = 10 * f[x]
    PROVE  Total(g, S) = 10 * Total(f, S)
<1> DEFINE C == {s \in SUBSET S : Total(g, s) = 10 * Total(f, s)}
<1>1. \A x \in S : f[x] \in Int /\ g[x] \in Int
      OBVIOUS
<1>2. {} \in C
  <2>1. Total(f, {}) = 0 /\ Total(g, {}) = 0
        BY TotalStep
  <2> QED  BY <2>1
<1>3. ASSUME NEW s \in SUBSET S, NEW x \in S \ s, s \in C
      PROVE  s \cup {x} \in C
  <2>1. Total(f, s \cup {x}) = f[x] + Total(f, s) /\ Total(f, s) \in Int
        BY <1>1, TotalWith
  <2>2. Total(g, s \cup {x}) = g[x] + Total(g, s) /\ Total(g, s) \in Int
        BY <1>1, TotalWith
  <2>3. Total(g, s) = 10 * Total(f, s) /\ s \cup {x} \in SUBSET S
        BY <1>3
  <2>4. g[x] = 10 * f[x] /\ f[x] \in Int
        OBVIOUS
  <2>5. Total(g, s \cup {x}) = 10 * Total(f, s \cup {x})
        BY <2>1, <2>2, <2>3, <2>4
  <2> QED  BY <2>3, <2>5
<1> HIDE DEF C
<1>4. S \in C
      BY <1>2, <1>3, SubsetInduction
<1> QED  BY <1>4 DEF C

\* What is stored of an entry.
LEMMA StoredIs ==
    ASSUME NEW entries, AreEntries(entries)
    PROVE  /\ DOMAIN Stored(entries) = DOMAIN entries
           /\ AreEntries(Stored(entries))
           /\ \A k \in DOMAIN entries :
                 /\ Stored(entries)[k].ledger = entries[k].ledger
                 /\ Stored(entries)[k].side = entries[k].side
                 /\ Stored(entries)[k].amount = (entries[k].amount + 5) \div 10
<1>1. \A n \in Int : (n + 5) \div 10 \in Int
      OBVIOUS
<1>2. /\ DOMAIN Stored(entries) = DOMAIN entries
      /\ \A k \in DOMAIN entries :
            /\ Stored(entries)[k].ledger = entries[k].ledger
            /\ Stored(entries)[k].side = entries[k].side
            /\ Stored(entries)[k].amount = (entries[k].amount + 5) \div 10
      BY DEF Stored
<1> QED  BY <1>1, <1>2 DEF AreEntries

\* A stored voucher is out of balance by the tolerance at most, and by half a
\* paisa for each of its entries.
LEMMA StoredSlack ==
    ASSUME NEW entries, AreEntries(entries), Balanced(entries)
    PROVE  LET n == Net(Stored(entries))
               slack == 2 * Tolerance + Cardinality(DOMAIN entries) IN
           n \in Int /\ slack \in Int /\ -slack <= 2 * n /\ 2 * n <= slack
<1> DEFINE S == DOMAIN entries
           f == Values(entries)
           g == Values(Stored(entries))
           ten == [k \in S |-> 10 * g[k]]
           d == [k \in S |-> ten[k] - f[k]]
           five == [k \in S |-> 5]
           card == Cardinality(S)
<1>1. IsFiniteSet(S) /\ card \in Nat
      BY FS_CardinalityType DEF AreEntries
<1>2. /\ Net(entries) = Total(f, S)
      /\ \A k \in S : f[k] \in Int
      BY NetIs
<1>3. /\ Net(Stored(entries)) = Total(g, S)
      /\ Net(Stored(entries)) \in Int
      /\ \A k \in S : g[k] \in Int
      BY StoredIs, NetIs
<1>4. Net(entries) \in -10..10
      BY DEF Balanced, Tolerance
<1>5. \A k \in S : -5 <= d[k] /\ d[k] <= 5 /\ d[k] \in Int
  <2> SUFFICES ASSUME NEW k \in S
               PROVE  -5 <= d[k] /\ d[k] <= 5 /\ d[k] \in Int
      OBVIOUS
  <2>1. entries[k].side \in Sides /\ entries[k].amount \in Int
        BY DEF AreEntries
  <2>2. f[k] = IF entries[k].side = "dr" THEN entries[k].amount ELSE -entries[k].amount
        BY DEF Values, Signed
  <2>3. g[k] = IF entries[k].side = "dr" THEN (entries[k].amount + 5) \div 10
                                         ELSE -((entries[k].amount + 5) \div 10)
        BY StoredIs DEF Values, Signed
  <2>4. \A n \in Int : LET m == (n + 5) \div 10 IN
            /\ m \in Int
            /\ -5 <= 10 * m - n /\ 10 * m - n <= 5
        OBVIOUS
  <2> DEFINE n == entries[k].amount
             m == (n + 5) \div 10
  <2>5. m \in Int /\ -5 <= 10 * m - n /\ 10 * m - n <= 5
        BY <2>1, <2>4
  <2>6. d[k] = 10 * g[k] - f[k]
        OBVIOUS
  <2>7. \/ f[k] = n /\ g[k] = m
        \/ f[k] = -n /\ g[k] = -m
        BY <2>2, <2>3
  <2>8. n \in Int
        BY <2>1
  <2> HIDE DEF n, m, d
  <2> QED  BY <2>5, <2>6, <2>7, <2>8
<1>6. \A k \in S : ten[k] = 10 * g[k] /\ ten[k] \in Int /\ d[k] = ten[k] - f[k]
                   /\ five[k] = 5
      BY <1>3
<1> HIDE DEF S, f, g, ten, d, five, card
<1>7. Total(ten, S) = 10 * Total(g, S)
      BY <1>1, <1>3, <1>6, TotalTenfold
<1>8. Total(d, S) = Total(ten, S) - Total(f, S)
      BY <1>1, <1>2, <1>6, TotalMinus
<1>9. Total(five, S) = 5 * card
  <2>1. Total(five, S) = 5 * Cardinality(S \cap S)
        BY <1>1, <1>6, TotalCount
  <2> QED  BY <2>1 DEF card
<1>10. -Total(five, S) <= Total(d, S) /\ Total(d, S) <= Total(five, S)
  <2>1. \A k \in S : d[k] \in Int /\ five[k] \in Int
                     /\ -five[k] <= d[k] /\ d[k] <= five[k]
        BY <1>5, <1>6
  <2> QED  BY <1>1, <2>1, TotalWithin
<1> DEFINE n == Net(Stored(entries))
           m == Net(entries)
<1>11. /\ -(5 * card) <= 10 * n - m /\ 10 * n - m <= 5 * card
       /\ n \in Int /\ m \in -10..10
      BY <1>2, <1>3, <1>4, <1>7, <1>8, <1>9, <1>10
<1> HIDE DEF n, m
<1>12. -(2 + card) <= 2 * n /\ 2 * n <= 2 + card
      BY <1>1, <1>11
<1> QED  BY <1>1, <1>11, <1>12 DEF n, card, S, Tolerance

-----------------------------------------------------------------------------
(* The entries of an invoice. *)

AreBillLines(bill) ==
    AreLines(bill.lines) /\ bill.direction \in {"sales", "purchase"}

LegsOf(bill) == {"party", "taxable"} \cup {h \in Heads : Totals(bill.lines)[h] > 0}

AllLegs == {"party", "taxable", "cgst"} \cup {"sgst", "igst", "cess"}

\* The entries that an invoice asks for.
LEMMA LegsAre ==
    ASSUME NEW bill, AreBillLines(bill)
    PROVE  LET t == Totals(bill.lines)
               e == InvoiceEntries(bill) IN
           /\ \A a \in Amounts : t[a] \in Int
           /\ LegsOf(bill) \in SUBSET AllLegs /\ IsFiniteSet(AllLegs)
           /\ DOMAIN e = LegsOf(bill)
           /\ AreEntries(e)
           /\ e["party"] = [ledger |-> bill.party,
                            side |-> IF bill.direction = "sales" THEN "dr" ELSE "cr",
                            amount |-> 10 * (t.taxable + TaxOf(t))]
           /\ e["taxable"] = [ledger |-> BaseLedger[bill.direction],
                              side |-> IF bill.direction = "sales" THEN "cr" ELSE "dr",
                              amount |-> 10 * t.taxable]
           /\ \A h \in Heads : t[h] > 0 =>
                 e[h] = [ledger |-> TaxLedger[bill.direction][h],
                         side |-> IF bill.direction = "sales" THEN "cr" ELSE "dr",
                         amount |-> 10 * t[h]]
<1> DEFINE t == Totals(bill.lines)
           e == InvoiceEntries(bill)
<1>1. \A a \in Amounts : t[a] \in Int
      BY TotalsAre DEF AreBillLines
<1>2. /\ Heads = {"cgst", "sgst", "igst", "cess"}
      /\ Amounts = {"cgst", "sgst", "igst", "cess", "taxable"}
      BY DEF Heads, Amounts
<1>3. LegsOf(bill) \in SUBSET AllLegs
      BY <1>2 DEF LegsOf, AllLegs
<1>4. IsFiniteSet(AllLegs)
  <2>1. IsFiniteSet({"party", "taxable", "cgst"})
    <3>1. {"party", "taxable", "cgst"} = {"party", "taxable", "cgst", "cgst"}
          OBVIOUS
    <3> QED  BY <3>1, FourAreFinite
  <2>2. IsFiniteSet({"sgst", "igst", "cess"})
    <3>1. {"sgst", "igst", "cess"} = {"sgst", "igst", "cess", "cess"}
          OBVIOUS
    <3> QED  BY <3>1, FourAreFinite
  <2> QED  BY <2>1, <2>2, FS_Union DEF AllLegs
<1>5. IsFiniteSet(LegsOf(bill))
      BY <1>3, <1>4, FS_Subset
<1> DEFINE LedgerOf(k) == CASE k = "party"   -> bill.party
                            [] k = "taxable" -> BaseLedger[bill.direction]
                            [] OTHER         -> TaxLedger[bill.direction][k]
           paise(k) == IF k = "party" THEN t.taxable + TaxOf(t) ELSE t[k]
<1>6. e = [k \in LegsOf(bill) |->
             [ledger |-> LedgerOf(k),
              side   |-> IF (k = "party") = (bill.direction = "sales") THEN "dr" ELSE "cr",
              amount |-> 10 * paise(k)]]
      BY DEF InvoiceEntries, LegsOf
<1>7. "party" \in LegsOf(bill) /\ "taxable" \in LegsOf(bill)
      BY DEF LegsOf
<1> HIDE DEF t, e
<1>8. e["party"] = [ledger |-> bill.party,
                    side |-> IF bill.direction = "sales" THEN "dr" ELSE "cr",
                    amount |-> 10 * (t.taxable + TaxOf(t))]
      BY <1>6, <1>7
<1>9. e["taxable"] = [ledger |-> BaseLedger[bill.direction],
                      side |-> IF bill.direction = "sales" THEN "cr" ELSE "dr",
                      amount |-> 10 * t.taxable]
      BY <1>6, <1>7
<1>10. \A h \in Heads : t[h] > 0 =>
          e[h] = [ledger |-> TaxLedger[bill.direction][h],
                  side |-> IF bill.direction = "sales" THEN "cr" ELSE "dr",
                  amount |-> 10 * t[h]]
  <2> SUFFICES ASSUME NEW h \in Heads, t[h] > 0
               PROVE  e[h] = [ledger |-> TaxLedger[bill.direction][h],
                              side |-> IF bill.direction = "sales" THEN "cr" ELSE "dr",
                              amount |-> 10 * t[h]]
      OBVIOUS
  <2>1. h # "party" /\ h # "taxable"
        BY <1>2
  <2>2. h \in LegsOf(bill)
        BY DEF LegsOf, t
  <2>3. LedgerOf(h) = TaxLedger[bill.direction][h] /\ paise(h) = t[h]
        BY <2>1
  <2>4. ((h = "party") = (bill.direction = "sales")) <=> bill.direction # "sales"
        BY <2>1
  <2> HIDE DEF LedgerOf, paise
  <2> QED  BY <1>6, <2>2, <2>3, <2>4
<1>11. \A k \in LegsOf(bill) : paise(k) \in Int
  <2> SUFFICES ASSUME NEW k \in LegsOf(bill)
               PROVE  paise(k) \in Int
      OBVIOUS
  <2>1. t.taxable \in Int /\ TaxOf(t) \in Int
        BY <1>1, <1>2 DEF TaxOf
  <2>2. k = "party" \/ k \in Amounts
        BY <1>2 DEF LegsOf
  <2> QED  BY <1>1, <2>1, <2>2
<1>12. AreEntries(e)
  <2> HIDE DEF LedgerOf, paise
  <2>1. DOMAIN e = LegsOf(bill)
        BY <1>6
  <2>2. \A k \in LegsOf(bill) : e[k].side \in Sides
        BY <1>6 DEF Sides
  <2>3. \A k \in LegsOf(bill) : e[k].amount \in Int
        BY <1>6, <1>11
  <2> QED  BY <1>5, <2>1, <2>2, <2>3 DEF AreEntries
<1> QED  BY <1>1, <1>3, <1>4, <1>6, <1>8, <1>9, <1>10, <1>12 DEF t, e

\* A sum over the six entries an invoice may have.
LEMMA TotalOfLegs ==
    ASSUME NEW f, \A k \in AllLegs : f[k] \in Int, IsFiniteSet(AllLegs)
    PROVE  Total(f, AllLegs) = f["party"] + f["taxable"] + f["cgst"] + f["sgst"]
                                 + f["igst"] + f["cess"]
<1> DEFINE a == {"party"}
           b == a \cup {"taxable"}
           c == b \cup {"cgst"}
           d == c \cup {"sgst"}
           e == d \cup {"igst"}
           u == e \cup {"cess"}
<1>1. AllLegs = u
      BY DEF AllLegs
<1>2. Total(f, {}) = 0
      BY TotalStep, FS_EmptySet
<1>3. Total(f, a) = f["party"] + Total(f, a \ {"party"}) /\ a \ {"party"} = {}
  <2>1. "party" \in AllLegs /\ "party" \in a
        BY DEF AllLegs
  <2>2. a \ {"party"} = {} /\ IsFiniteSet(a) /\ \A k \in a : f[k] \in Int
        BY <2>1, FS_Singleton
  <2> HIDE DEF a
  <2>3. Total(f, a) = f["party"] + Total(f, a \ {"party"})
        BY <2>1, <2>2, TotalAdd
  <2> QED  BY <2>2, <2>3
<1>5. /\ a \in SUBSET AllLegs /\ b \in SUBSET AllLegs /\ c \in SUBSET AllLegs
      /\ d \in SUBSET AllLegs /\ e \in SUBSET AllLegs
      BY DEF AllLegs
<1>6. /\ "taxable" \in AllLegs \ a /\ "cgst" \in AllLegs \ b /\ "sgst" \in AllLegs \ c
      /\ "igst" \in AllLegs \ d /\ "cess" \in AllLegs \ e
      BY DEF AllLegs
<1> HIDE DEF a, b, c, d, e
<1>7. Total(f, a \cup {"taxable"}) = f["taxable"] + Total(f, a) /\ Total(f, a) \in Int
      BY <1>5, <1>6, TotalWith
<1>8. Total(f, b \cup {"cgst"}) = f["cgst"] + Total(f, b) /\ Total(f, b) \in Int
      BY <1>5, <1>6, TotalWith
<1>9. Total(f, c \cup {"sgst"}) = f["sgst"] + Total(f, c) /\ Total(f, c) \in Int
      BY <1>5, <1>6, TotalWith
<1>10. Total(f, d \cup {"igst"}) = f["igst"] + Total(f, d) /\ Total(f, d) \in Int
      BY <1>5, <1>6, TotalWith
<1>11. Total(f, e \cup {"cess"}) = f["cess"] + Total(f, e) /\ Total(f, e) \in Int
      BY <1>5, <1>6, TotalWith
<1>12. /\ f["party"] \in Int /\ f["taxable"] \in Int /\ f["cgst"] \in Int
       /\ f["sgst"] \in Int /\ f["igst"] \in Int /\ f["cess"] \in Int
      BY DEF AllLegs
<1>13. /\ Total(f, a) = f["party"]
       /\ Total(f, b) = f["taxable"] + Total(f, a)
       /\ Total(f, c) = f["cgst"] + Total(f, b)
       /\ Total(f, d) = f["sgst"] + Total(f, c)
       /\ Total(f, e) = f["igst"] + Total(f, d)
       /\ Total(f, AllLegs) = f["cess"] + Total(f, e)
  <2>1. Total(f, a) = f["party"]
    <3>1. Total(f, a) = f["party"] + 0
          BY <1>2, <1>3, Zenon
    <3> QED  BY <1>12, <3>1
  <2>2. Total(f, b) = f["taxable"] + Total(f, a)
        BY <1>7 DEF b
  <2>3. Total(f, c) = f["cgst"] + Total(f, b)
        BY <1>8 DEF c
  <2>4. Total(f, d) = f["sgst"] + Total(f, c)
        BY <1>9 DEF d
  <2>5. Total(f, e) = f["igst"] + Total(f, d)
        BY <1>10 DEF e
  <2>6. Total(f, AllLegs) = f["cess"] + Total(f, e)
        BY <1>1, <1>11
  <2> QED  BY <2>1, <2>2, <2>3, <2>4, <2>5, <2>6
<1> QED  BY <1>12, <1>13

\* A voucher leaves out the taxes that are not positive, and balances: so no tax
\* is further below zero than the tolerance.
LEMMA TaxesArePositive ==
    ASSUME NEW bill, AreBillLines(bill), Balanced(InvoiceEntries(bill)), NEW h \in Heads
    PROVE  LET t == Totals(bill.lines) IN t[h] \in Int /\ t[h] >= -Tolerance
<1> DEFINE t == Totals(bill.lines)
           e == InvoiceEntries(bill)
           S == LegsOf(bill)
           v == Values(e)
           w == [k \in AllLegs |-> IF k \in S THEN v[k] ELSE 0]
           n == Net(e)
           sales == bill.direction = "sales"
<1>1. /\ n \in -10..10
      /\ n = Total(v, S)
      /\ \A k \in S : v[k] \in Int
  <2>1. AreEntries(e) /\ DOMAIN e = S
        BY LegsAre
  <2>2. n \in -10..10
        BY DEF Balanced, Tolerance
  <2> HIDE DEF e, S, v, n
  <2>3. Net(e) = Total(Values(e), S) /\ \A k \in S : Values(e)[k] \in Int
        BY <2>1, NetIs
  <2> QED  BY <2>2, <2>3 DEF v, n
<1>2. S \in SUBSET AllLegs /\ IsFiniteSet(AllLegs) /\ IsFiniteSet(S)
      BY LegsAre, FS_Subset
<1>3. \A k \in AllLegs : w[k] = IF k \in S THEN v[k] ELSE 0
      OBVIOUS
<1>4. \A g \in Heads : t[g] \in Int
      BY LegsAre DEF Amounts
<1>5. t.taxable \in Int
      BY LegsAre DEF Amounts
<1>6. /\ v["party"] = IF sales THEN 10 * (t.taxable + TaxOf(t))
                               ELSE -(10 * (t.taxable + TaxOf(t)))
      /\ v["taxable"] = IF sales THEN -(10 * t.taxable) ELSE 10 * t.taxable
      /\ \A g \in Heads : t[g] > 0 => v[g] = IF sales THEN -(10 * t[g]) ELSE 10 * t[g]
  <2>1. \A k \in S : v[k] = Signed(e[k].side, e[k].amount)
        BY LegsAre DEF Values
  <2>2. "party" \in S /\ "taxable" \in S /\ \A g \in Heads : t[g] > 0 => g \in S
        BY DEF LegsOf
  <2>3. v["party"] = IF sales THEN 10 * (t.taxable + TaxOf(t))
                              ELSE -(10 * (t.taxable + TaxOf(t)))
    <3>1. v["party"] = Signed(e["party"].side, e["party"].amount)
          BY <2>1, <2>2
    <3>2. e["party"] = [ledger |-> bill.party, side |-> IF sales THEN "dr" ELSE "cr",
                        amount |-> 10 * (t.taxable + TaxOf(t))]
          BY LegsAre
    <3> HIDE DEF v, e, t
    <3> QED  BY <3>1, <3>2 DEF Signed
  <2>4. v["taxable"] = IF sales THEN -(10 * t.taxable) ELSE 10 * t.taxable
    <3>1. v["taxable"] = Signed(e["taxable"].side, e["taxable"].amount)
          BY <2>1, <2>2
    <3>2. e["taxable"] = [ledger |-> BaseLedger[bill.direction],
                          side |-> IF sales THEN "cr" ELSE "dr",
                          amount |-> 10 * t.taxable]
          BY LegsAre
    <3> HIDE DEF v, e, t
    <3> QED  BY <3>1, <3>2 DEF Signed
  <2>5. ASSUME NEW g \in Heads, t[g] > 0
        PROVE  v[g] = IF sales THEN -(10 * t[g]) ELSE 10 * t[g]
    <3>1. v[g] = Signed(e[g].side, e[g].amount)
          BY <2>1, <2>2, <2>5
    <3>2. e[g] = [ledger |-> TaxLedger[bill.direction][g],
                  side |-> IF sales THEN "cr" ELSE "dr",
                  amount |-> 10 * t[g]]
          BY <2>5, LegsAre
    <3> HIDE DEF v, e, t
    <3> QED  BY <3>1, <3>2 DEF Signed
  <2> QED  BY <2>3, <2>4, <2>5
<1>7. /\ "party" \in S /\ "taxable" \in S
      /\ \A g \in Heads : g \in AllLegs /\ (g \in S <=> t[g] > 0)
      BY DEF LegsOf, AllLegs, Heads
<1> HIDE DEF t, e, S, v, w, n, sales
<1>8. n = Total(w, AllLegs)
  <2>1. \A k \in AllLegs : w[k] \in Int
        BY <1>1, <1>3
  <2>2. \A k \in AllLegs \ S : w[k] = 0
        BY <1>3
  <2>3. Total(w, S) = Total(w, AllLegs)
        BY <1>2, <2>1, <2>2, TotalWithoutZeros
  <2>4. \A k \in S : v[k] = w[k]
        BY <1>2, <1>3
  <2>5. Total(v, S) = Total(w, S)
        BY <1>2, <2>4, TotalSame
  <2> QED  BY <1>1, <2>3, <2>5
<1>9. n = w["party"] + w["taxable"] + w["cgst"] + w["sgst"] + w["igst"] + w["cess"]
  <2>1. \A k \in AllLegs : w[k] \in Int
        BY <1>1, <1>3
  <2> QED  BY <1>2, <1>8, <2>1, TotalOfLegs
<1> DEFINE tax == t.cgst + t.sgst + t.igst + t.cess
           low(g) == IF t[g] > 0 THEN 0 ELSE t[g]
<1>10. /\ w["party"] = IF sales THEN 10 * (t.taxable + tax) ELSE -(10 * (t.taxable + tax))
       /\ w["taxable"] = IF sales THEN -(10 * t.taxable) ELSE 10 * t.taxable
      BY <1>2, <1>3, <1>6, <1>7 DEF TaxOf
<1>11. \A g \in Heads : /\ w[g] = IF sales THEN -(10 * (t[g] - low(g)))
                                           ELSE 10 * (t[g] - low(g))
                        /\ low(g) \in Int /\ low(g) <= 0 /\ low(g) <= t[g]
  <2> SUFFICES ASSUME NEW g \in Heads
               PROVE  /\ w[g] = IF sales THEN -(10 * (t[g] - low(g)))
                                         ELSE 10 * (t[g] - low(g))
                      /\ low(g) \in Int /\ low(g) <= 0 /\ low(g) <= t[g]
      OBVIOUS
  <2>1. t[g] \in Int
        BY <1>4
  <2>2. CASE t[g] > 0
        BY <1>3, <1>6, <1>7, <2>1, <2>2
  <2>3. CASE ~(t[g] > 0)
        BY <1>3, <1>7, <2>1, <2>3
  <2> QED  BY <2>2, <2>3
<1>12. "cgst" \in Heads /\ "sgst" \in Heads /\ "igst" \in Heads /\ "cess" \in Heads
      BY DEF Heads
<1> HIDE DEF low
<1> DEFINE p == low("cgst")
           q == low("sgst")
           r == low("igst")
           s == low("cess")
<1>13. /\ n = IF sales THEN 10 * (p + q + r + s) ELSE -(10 * (p + q + r + s))
       /\ p \in Int /\ q \in Int /\ r \in Int /\ s \in Int
       /\ p <= 0 /\ q <= 0 /\ r <= 0 /\ s <= 0
  <2>1. /\ t.cgst \in Int /\ t.sgst \in Int /\ t.igst \in Int /\ t.cess \in Int
        BY <1>4, <1>12
  <2>2. /\ p \in Int /\ q \in Int /\ r \in Int /\ s \in Int
        /\ p <= 0 /\ q <= 0 /\ r <= 0 /\ s <= 0
        BY <1>11, <1>12
  <2>3. CASE sales
    <3>1. /\ w["cgst"] = -(10 * (t.cgst - p)) /\ w["sgst"] = -(10 * (t.sgst - q))
          /\ w["igst"] = -(10 * (t.igst - r)) /\ w["cess"] = -(10 * (t.cess - s))
          BY <1>11, <1>12, <2>3
    <3>2. w["party"] = 10 * (t.taxable + tax) /\ w["taxable"] = -(10 * t.taxable)
          BY <1>10, <2>3
    <3> HIDE DEF p, q, r, s
    <3>3. n = 10 * (p + q + r + s)
          BY <1>5, <1>9, <2>1, <2>2, <3>1, <3>2
    <3> QED  BY <2>2, <2>3, <3>3
  <2>4. CASE ~sales
    <3>1. /\ w["cgst"] = 10 * (t.cgst - p) /\ w["sgst"] = 10 * (t.sgst - q)
          /\ w["igst"] = 10 * (t.igst - r) /\ w["cess"] = 10 * (t.cess - s)
          BY <1>11, <1>12, <2>4
    <3>2. w["party"] = -(10 * (t.taxable + tax)) /\ w["taxable"] = 10 * t.taxable
          BY <1>10, <2>4
    <3> HIDE DEF p, q, r, s
    <3>3. n = -(10 * (p + q + r + s))
          BY <1>5, <1>9, <2>1, <2>2, <3>1, <3>2
    <3> QED  BY <2>2, <2>4, <3>3
  <2> QED  BY <2>3, <2>4
<1>14. p >= -1 /\ q >= -1 /\ r >= -1 /\ s >= -1
  <2> HIDE DEF p, q, r, s
  <2>1. n \in Int /\ -10 <= n /\ n <= 10
        BY <1>1
  <2>2. p + q + r + s >= -1
        BY <1>13, <2>1
  <2> QED  BY <1>13, <2>2
<1>15. low(h) >= -1
      BY <1>14 DEF Heads
<1>16. low(h) \in Int /\ low(h) <= t[h] /\ t[h] \in Int
      BY <1>4, <1>11
<1> QED  BY <1>15, <1>16 DEF t, Tolerance

-----------------------------------------------------------------------------
(* The ledgers and the vouchers that a step leaves. *)

\* A sequence with one element more.
LEMMA Appended ==
    ASSUME NEW s, s \in Seq(Range(s)), NEW v
    PROVE  LET t == Append(s, v) IN
           /\ t \in Seq(Range(t))
           /\ Len(s) \in Nat /\ DOMAIN s = 1..Len(s)
           /\ Len(t) = Len(s) + 1 /\ DOMAIN t = DOMAIN s \cup {Len(t)}
           /\ Len(t) \notin DOMAIN s
           /\ \A i \in DOMAIN s : t[i] = s[i]
           /\ t[Len(t)] = v
<1> DEFINE R == Range(s) \cup {v}
           t == Append(s, v)
<1>1. s \in Seq(R)
      OBVIOUS
<1>2. /\ t \in Seq(R)
      /\ Len(s) \in Nat /\ DOMAIN s = 1..Len(s)
      /\ Len(t) = Len(s) + 1
      /\ \A i \in 1..Len(s) : t[i] = s[i]
      /\ t[Len(t)] = v
      BY <1>1
<1>3. DOMAIN t = 1..Len(t) /\ \A i \in 1..Len(t) : t[i] \in Range(t)
      BY <1>2 DEF Range
<1>4. t \in Seq(Range(t))
      BY <1>2, <1>3
<1> HIDE DEF t
<1>5. DOMAIN t = DOMAIN s \cup {Len(t)} /\ Len(t) \notin DOMAIN s
      BY <1>2, <1>3
<1> QED  BY <1>2, <1>4, <1>5 DEF t

\* The other constants of a bill.
LEMMA BillIs ==
    ASSUME NEW b \in Invoices
    PROVE  /\ AreBillLines(Bill[b])
           /\ Bill[b].date \in (Early..Late) \cup {NoValue}
           /\ b # NoValue
BY ReportsAssumption DEF AreBillLines, AreLines

\* Ledgers are only added, and stay accounts.
LEMMA LedgersGrow ==
    ASSUME LedgersInv, ArrivedInv, [Next]_vars
    PROVE  LedgersInv' /\ DOMAIN ledgers \subseteq DOMAIN ledgers' /\ arrived \subseteq arrived'
<1>1. ASSUME NEW l \in DOMAIN NewLedgers, CreateLedger(l)
      PROVE  LedgersInv' /\ DOMAIN ledgers \subseteq DOMAIN ledgers' /\ arrived' = arrived
  <2>1. NewLedgers[l].nature \in Natures /\ NewLedgers[l].opening \in Int
        BY ReportsAssumption
  <2>2. ledgers' = With(ledgers, l, NewLedgers[l]) /\ arrived' = arrived
        BY <1>1 DEF CreateLedger
  <2>3. /\ AreAccounts(With(ledgers, l, NewLedgers[l]))
        /\ DOMAIN With(ledgers, l, NewLedgers[l]) = DOMAIN ledgers \cup {l}
        BY <2>1, WithIs DEF LedgersInv
  <2> QED  BY <2>2, <2>3 DEF LedgersInv
<1>2. ASSUME NEW b \in Invoices, Post(b)
      PROVE  LedgersInv' /\ DOMAIN ledgers \subseteq DOMAIN ledgers' /\ arrived' = arrived
  <2> DEFINE v == PartyAccount(Bill[b].direction)
  <2>1. v.nature \in Natures /\ v.opening \in Int
        BY DEF PartyAccount, Account, Natures
  <2>2. ledgers' = With(ledgers, Bill[b].party, v) /\ arrived' = arrived
        BY <1>2 DEF Post, CreateVoucher, WithParty
  <2> HIDE DEF v
  <2>3. /\ AreAccounts(With(ledgers, Bill[b].party, v))
        /\ DOMAIN With(ledgers, Bill[b].party, v) = DOMAIN ledgers \cup {Bill[b].party}
        BY <2>1, WithIs DEF LedgersInv
  <2> QED  BY <2>2, <2>3 DEF LedgersInv
<1>3. ASSUME NEW b \in Invoices, Arrive(b)
      PROVE  ledgers' = ledgers /\ arrived \subseteq arrived'
      BY <1>3 DEF Arrive
<1>4. ASSUME NEW draft \in Drafts, Enter(draft)
      PROVE  ledgers' = ledgers /\ arrived' = arrived
      BY <1>4 DEF Enter, CreateVoucher
<1>5. ASSUME Ask \/ ListLedgers \/ SumBefore \/ SumPeriod \/ NextDay \/ UNCHANGED vars
      PROVE  ledgers' = ledgers /\ arrived' = arrived
      BY <1>5 DEF Ask, ListLedgers, SumBefore, SumPeriod, NextDay, vars
<1>6. ledgers' = ledgers => LedgersInv'
      BY DEF LedgersInv
<1> QED  BY <1>1, <1>2, <1>3, <1>4, <1>5, <1>6 DEF Next

\* The date stays within the calendar.
LEMMA TodayInductive ==
    ASSUME TodayInv, [Next]_vars
    PROVE  TodayInv'
<1>1. CASE NextDay
      BY <1>1, CalendarIsNatural DEF TodayInv, NextDay, Epoch, Late
<1>2. CASE UNCHANGED today
      BY <1>2 DEF TodayInv
<1> QED  BY <1>1, <1>2 DEF Next, vars, Ask, ListLedgers, SumBefore, SumPeriod,
            CreateLedger, Enter, Post, Arrive

\* Invoices and ledgers only come: what was said of a voucher stays true.
LEMMA VoucherStays ==
    ASSUME NEW v, IsVoucher(v), arrived \subseteq arrived',
           DOMAIN ledgers \subseteq DOMAIN ledgers'
    PROVE  IsVoucher(v)'
<1>1. IsPosting(v) => IsPosting(v)'
      BY DEF IsPosting
<1>2. IsEntered(v) => IsEntered(v)'
      BY DEF IsEntered
<1> QED  BY <1>1, <1>2 DEF IsVoucher

\* A voucher more, that is one and that no other has the source of.
LEMMA BooksGrow ==
    ASSUME BooksInv, LedgersInv, ArrivedInv, [Next]_vars,
           NEW v, books' = Append(books, v), IsVoucher(v)',
           \A i \in DOMAIN books : v.source # NoValue => books[i].source # v.source
    PROVE  BooksInv'
<1>1. /\ books' \in Seq(Range(books'))
      /\ DOMAIN books' = DOMAIN books \cup {Len(books')}
      /\ Len(books') \notin DOMAIN books
      /\ \A i \in DOMAIN books : books'[i] = books[i]
      /\ books'[Len(books')] = v
  <2>1. books \in Seq(Range(books))
        BY DEF BooksInv
  <2> QED  BY <2>1, Appended
<1>2. ASSUME NEW i \in DOMAIN books
      PROVE  IsVoucher(books[i])'
  <2>1. PICK w : w = books[i]
        OBVIOUS
  <2>2. IsVoucher(w)
        BY <2>1 DEF BooksInv
  <2>3. IsVoucher(w)'
        BY <2>2, LedgersGrow, VoucherStays
  <2>4. books'[i] = w
        BY <1>1, <2>1
  <2> QED  BY <2>3, <2>4
<1>3. \A i \in DOMAIN books' : IsVoucher(books[i])'
  <2> SUFFICES ASSUME NEW i \in DOMAIN books'
               PROVE  IsVoucher(books[i])'
      OBVIOUS
  <2>1. CASE i \in DOMAIN books
        BY <1>2, <2>1
  <2>2. CASE i = Len(books')
    <3>1. books'[i] = v
          BY <1>1, <2>2
    <3> QED  BY <3>1
  <2> QED  BY <1>1, <2>1, <2>2
<1>4. \A i, j \in DOMAIN books' :
          books'[i].source = books'[j].source /\ books'[i].source # NoValue => i = j
      BY <1>1 DEF BooksInv
<1> QED  BY <1>1, <1>3, <1>4 DEF BooksInv

\* Every step keeps what is said of the vouchers.
LEMMA BooksInductive ==
    ASSUME TodayInv, LedgersInv, ArrivedInv, BooksInv, [Next]_vars
    PROVE  BooksInv'
<1>1. ASSUME books' = books
      PROVE  BooksInv'
  <2>1. ASSUME NEW i \in DOMAIN books
        PROVE  IsVoucher(books[i])'
    <3>1. PICK w : w = books[i]
          OBVIOUS
    <3>2. IsVoucher(w)
          BY <3>1 DEF BooksInv
    <3>3. IsVoucher(w)'
          BY <3>2, LedgersGrow, VoucherStays
    <3> QED  BY <1>1, <3>1, <3>3
  <2>2. /\ books \in Seq(Range(books))
        /\ \A i, j \in DOMAIN books :
              books[i].source = books[j].source /\ books[i].source # NoValue => i = j
        BY DEF BooksInv
  <2> QED  BY <1>1, <2>1, <2>2 DEF BooksInv
<1>2. ASSUME NEW draft \in Drafts, Enter(draft)
      PROVE  BooksInv'
  <2> DEFINE v == [date |-> draft.date, source |-> NoValue,
                   entries |-> Stored(draft.entries)]
  <2>1. /\ Balanced(draft.entries)
        /\ \A k \in DOMAIN draft.entries : draft.entries[k].ledger \in DOMAIN ledgers
        /\ books' = Append(books, v)
        /\ ledgers' = ledgers
        BY <1>2 DEF Enter, CreateVoucher
  <2>2. AreEntries(draft.entries) /\ draft.date \in Days
        BY ReportsAssumption DEF AreEntries
  <2>3. v.date \in Early..Late
        BY <2>2, CalendarIsNatural DEF Days, Early, Late
  <2>4. IsEntered(v)'
        BY <2>1 DEF IsEntered, Keeps
  <2>5. \A k \in DOMAIN v.entries : v.entries[k].ledger \in DOMAIN ledgers'
        BY <2>1, <2>2, StoredIs
  <2>6. IsVoucher(v)'
        BY <2>3, <2>4, <2>5 DEF IsVoucher
  <2>7. v.source = NoValue
        OBVIOUS
  <2> HIDE DEF v
  <2> QED  BY <2>1, <2>6, <2>7, BooksGrow
<1>3. ASSUME NEW b \in Invoices, Post(b)
      PROVE  BooksInv'
  <2> DEFINE e == InvoiceEntries(Bill[b])
  <2>0. PICK v : v = [date |-> VoucherDate(Bill[b]), source |-> b, entries |-> Stored(e)]
        OBVIOUS
  <2>1. /\ b \in arrived /\ arrived' = arrived
        /\ \A i \in DOMAIN books : books[i].source # b
        /\ Balanced(e)
        /\ \A k \in DOMAIN e : e[k].ledger \in DOMAIN ledgers'
        /\ books' = Append(books, v)
        BY <1>3, <2>0 DEF Post, CreateVoucher, IsPosted
  <2>2. AreEntries(e)
        BY BillIs, LegsAre
  <2>3. /\ v.date \in Early..Late
        /\ Bill[b].date # NoValue => v.date = Bill[b].date
    <3>1. today \in Early..Late
          BY CalendarIsNatural DEF TodayInv, Epoch, Early, Late
    <3>2. Bill[b].date \in (Early..Late) \cup {NoValue}
          BY BillIs
    <3> QED  BY <2>0, <3>1, <3>2 DEF VoucherDate
  <2>4. v.source = b /\ v.entries = Stored(e)
        BY <2>0
  <2>5. \A k \in DOMAIN v.entries : v.entries[k].ledger \in DOMAIN ledgers'
        BY <2>1, <2>2, <2>4, StoredIs
  <2> HIDE DEF e
  <2>6. IsPosting(v)'
        BY <2>1, <2>3, <2>4 DEF IsPosting, Keeps, e
  <2>7. IsVoucher(v)'
        BY <2>3, <2>5, <2>6 DEF IsVoucher
  <2>8. \A i \in DOMAIN books : books[i].source # v.source
        BY <2>1, <2>4
  <2> QED  BY <2>1, <2>7, <2>8, BooksGrow
<1> QED  BY <1>1, <1>2, <1>3 DEF Next, vars, Ask, ListLedgers, SumBefore, SumPeriod,
            CreateLedger, Arrive, NextDay

\* What the books are made of.
LEMMA VouchersAre ==
    ASSUME BooksInv, ArrivedInv
    PROVE  /\ AreVouchers(books)
           /\ Len(books) \in Nat /\ DOMAIN books = 1..Len(books)
           /\ \A i \in DOMAIN books :
                 LET n == Net(books[i].entries)
                     slack == 2 * Tolerance + Cardinality(DOMAIN books[i].entries) IN
                 n \in Int /\ slack \in Int /\ -slack <= 2 * n /\ 2 * n <= slack
<1>1. Len(books) \in Nat /\ DOMAIN books = 1..Len(books)
      BY DEF BooksInv
<1>2. \A i \in DOMAIN books :
          \E entries : /\ AreEntries(entries) /\ Balanced(entries)
                       /\ books[i].entries = Stored(entries)
  <2> SUFFICES ASSUME NEW i \in DOMAIN books
               PROVE  \E entries : /\ AreEntries(entries) /\ Balanced(entries)
                                   /\ books[i].entries = Stored(entries)
      OBVIOUS
  <2>1. CASE IsEntered(books[i])
    <3>1. PICK draft \in Drafts : Keeps(books[i], draft.entries)
          BY <2>1 DEF IsEntered
    <3>2. AreEntries(draft.entries)
          BY ReportsAssumption DEF AreEntries
    <3> QED  BY <3>1, <3>2 DEF Keeps
  <2>2. CASE IsPosting(books[i])
    <3>1. books[i].source \in Invoices
          BY <2>2 DEF IsPosting, ArrivedInv
    <3>2. AreEntries(InvoiceEntries(Bill[books[i].source]))
          BY <3>1, BillIs, LegsAre
    <3> QED  BY <2>2, <3>2 DEF IsPosting, Keeps
  <2> QED  BY <2>1, <2>2 DEF BooksInv, IsVoucher
<1>3. ASSUME NEW i \in DOMAIN books
      PROVE  /\ AreEntries(books[i].entries)
             /\ LET n == Net(books[i].entries)
                    slack == 2 * Tolerance + Cardinality(DOMAIN books[i].entries) IN
                n \in Int /\ slack \in Int /\ -slack <= 2 * n /\ 2 * n <= slack
  <2>1. PICK entries : /\ AreEntries(entries) /\ Balanced(entries)
                       /\ books[i].entries = Stored(entries)
        BY <1>2
  <2>2. /\ AreEntries(Stored(entries))
        /\ DOMAIN Stored(entries) = DOMAIN entries
        BY <2>1, StoredIs
  <2>3. LET n == Net(Stored(entries))
            slack == 2 * Tolerance + Cardinality(DOMAIN entries) IN
        n \in Int /\ slack \in Int /\ -slack <= 2 * n /\ 2 * n <= slack
        BY <2>1, StoredSlack
  <2> QED  BY <2>1, <2>2, <2>3
<1>4. IsFiniteSet(DOMAIN books)
      BY <1>1, FS_Interval
<1> QED  BY <1>1, <1>3, <1>4 DEF AreVouchers

-----------------------------------------------------------------------------
(* The books and the returns. *)

\* The tax ledgers are one for each direction and head, and no other ledger.
LEMMA TaxLedgersDiffer ==
    /\ \A d \in {"sales", "purchase"}, h \in Heads : TaxLedger[d][h] \in TaxLedgers
    /\ \A d, c \in {"sales", "purchase"}, h, g \in Heads :
          TaxLedger[d][h] = TaxLedger[c][g] => d = c /\ h = g
    /\ \A d \in {"sales", "purchase"} : BaseLedger[d] \notin TaxLedgers
<1>1. /\ TaxLedger["sales"]["cgst"] = "Output CGST" /\ TaxLedger["sales"]["sgst"] = "Output SGST"
      /\ TaxLedger["sales"]["igst"] = "Output IGST" /\ TaxLedger["sales"]["cess"] = "Output CESS"
      /\ TaxLedger["purchase"]["cgst"] = "Input CGST" /\ TaxLedger["purchase"]["sgst"] = "Input SGST"
      /\ TaxLedger["purchase"]["igst"] = "Input IGST" /\ TaxLedger["purchase"]["cess"] = "Input CESS"
      BY DEF TaxLedger
<1>2. \A h \in Heads : h = "cgst" \/ h = "sgst" \/ h = "igst" \/ h = "cess"
      BY DEF Heads
<1>3. ASSUME NEW d \in {"sales", "purchase"}, NEW h \in Heads
      PROVE  TaxLedger[d][h] \in TaxLedgers
      BY <1>1, <1>2, TaxLedgersAre
<1>4. ASSUME NEW h \in Heads, NEW g \in Heads
      PROVE  /\ TaxLedger["sales"][h] = TaxLedger["sales"][g] => h = g
             /\ TaxLedger["purchase"][h] = TaxLedger["purchase"][g] => h = g
             /\ TaxLedger["sales"][h] # TaxLedger["purchase"][g]
  <2>1. h = "cgst" \/ h = "sgst" \/ h = "igst" \/ h = "cess"
        BY <1>2
  <2>2. g = "cgst" \/ g = "sgst" \/ g = "igst" \/ g = "cess"
        BY <1>2
  <2>3. CASE h = "cgst"
        BY <1>1, <2>2, <2>3
  <2>4. CASE h = "sgst"
        BY <1>1, <2>2, <2>4
  <2>5. CASE h = "igst"
        BY <1>1, <2>2, <2>5
  <2>6. CASE h = "cess"
        BY <1>1, <2>2, <2>6
  <2> QED  BY <2>1, <2>3, <2>4, <2>5, <2>6
<1>5. ASSUME NEW d \in {"sales", "purchase"}
      PROVE  BaseLedger[d] \notin TaxLedgers
  <2>1. BaseLedger[d] = "Sales" \/ BaseLedger[d] = "Purchase"
        BY DEF BaseLedger
  <2> QED  BY <2>1, TaxLedgersAre
<1>6. \A d, c \in {"sales", "purchase"}, h, g \in Heads :
          TaxLedger[d][h] = TaxLedger[c][g] => d = c /\ h = g
      BY <1>4
<1> QED  BY <1>3, <1>5, <1>6

\* The sum over one element.
LEMMA TotalOne ==
    ASSUME NEW f, NEW a, f[a] \in Int
    PROVE  Total(f, {a}) = f[a]
<1> DEFINE S == {a}
<1>1. IsFiniteSet(S) /\ a \in S /\ \A x \in S : f[x] \in Int
      BY FS_Singleton
<1>2. S \ {a} = {}
      OBVIOUS
<1> HIDE DEF S
<1>3. Total(f, S) = f[a] + Total(f, S \ {a})
      BY <1>1, TotalAdd
<1>4. Total(f, {}) = 0
      BY TotalStep, FS_EmptySet
<1>5. Total(f, S) = f[a] + 0
      BY <1>2, <1>3, <1>4, Zenon
<1> QED  BY <1>5 DEF S

\* What a voucher has in the ledger of a head.
InHead(voucher, d, h) ==
    Total(Values(voucher.entries), EntriesIn(voucher, {TaxLedger[d][h]}))

\* What the voucher of an invoice adds to a tax ledger.
LEMMA PostingInHead ==
    ASSUME NEW bill, AreBillLines(bill), bill.party \notin TaxLedgers,
           NEW v, Keeps(v, InvoiceEntries(bill)),
           NEW d \in {"sales", "purchase"}, NEW h \in Heads
    PROVE  LET t == Totals(bill.lines) IN
           InHead(v, d, h) = IF bill.direction # d \/ ~(t[h] > 0) THEN 0
                             ELSE IF d = "sales" THEN -t[h] ELSE t[h]
<1> DEFINE t == Totals(bill.lines)
           e == InvoiceEntries(bill)
           T == TaxLedger[d][h]
           c == bill.direction
           E == EntriesIn(v, {T})
           f == Values(v.entries)
<1>1. /\ v.entries = Stored(e)
      /\ AreEntries(e) /\ DOMAIN e = LegsOf(bill)
      /\ c \in {"sales", "purchase"}
      BY LegsAre DEF Keeps, AreBillLines
<1>2. /\ DOMAIN v.entries = LegsOf(bill)
      /\ \A k \in LegsOf(bill) : v.entries[k].ledger = e[k].ledger
      BY <1>1, StoredIs
<1>3. /\ e["party"].ledger = bill.party
      /\ e["taxable"].ledger = BaseLedger[c]
  <2>1. /\ e["party"] = [ledger |-> bill.party,
                         side |-> IF bill.direction = "sales" THEN "dr" ELSE "cr",
                         amount |-> 10 * (t.taxable + TaxOf(t))]
        /\ e["taxable"] = [ledger |-> BaseLedger[bill.direction],
                           side |-> IF bill.direction = "sales" THEN "cr" ELSE "dr",
                           amount |-> 10 * t.taxable]
        BY LegsAre
  <2> HIDE DEF e, t
  <2>2. e["party"].ledger = bill.party
        BY <2>1
  <2>3. e["taxable"].ledger = BaseLedger[bill.direction]
        BY <2>1
  <2> QED  BY <2>2, <2>3
<1>4. \A g \in Heads : t[g] > 0 => /\ e[g].ledger = TaxLedger[c][g]
                                   /\ e[g].side = IF c = "sales" THEN "cr" ELSE "dr"
                                   /\ e[g].amount = 10 * t[g]
  <2>1. \A g \in Heads : t[g] > 0 =>
            e[g] = [ledger |-> TaxLedger[bill.direction][g],
                    side |-> IF bill.direction = "sales" THEN "cr" ELSE "dr",
                    amount |-> 10 * t[g]]
        BY LegsAre
  <2> HIDE DEF e, t
  <2> SUFFICES ASSUME NEW g \in Heads, t[g] > 0
               PROVE  /\ e[g].ledger = TaxLedger[c][g]
                      /\ e[g].side = IF c = "sales" THEN "cr" ELSE "dr"
                      /\ e[g].amount = 10 * t[g]
      OBVIOUS
  <2>2. e[g] = [ledger |-> TaxLedger[bill.direction][g],
                side |-> IF bill.direction = "sales" THEN "cr" ELSE "dr",
                amount |-> 10 * t[g]]
        BY <2>1
  <2> QED  BY <2>2
<1>5. T \in TaxLedgers /\ BaseLedger[c] \notin TaxLedgers
      BY <1>1, TaxLedgersDiffer
<1>6. \A k \in LegsOf(bill) : k = "party" \/ k = "taxable" \/ (k \in Heads /\ t[k] > 0)
      BY DEF LegsOf
<1>7. \A g \in Heads : (g \in LegsOf(bill) <=> t[g] > 0) /\ t[g] \in Int
  <2>1. \A g \in Heads : g \in Amounts /\ g # "party" /\ g # "taxable"
        BY DEF Heads, Amounts
  <2>2. \A a \in Amounts : t[a] \in Int
        BY LegsAre
  <2> QED  BY <2>1, <2>2 DEF LegsOf
<1>8. E = {k \in LegsOf(bill) : e[k].ledger = T}
      BY <1>2 DEF EntriesIn
<1>9. \A g \in Heads : TaxLedger[c][g] = T => c = d /\ g = h
      BY <1>1, TaxLedgersDiffer
<1> HIDE DEF t, e, T, E, f, c
<1>10. \A k \in E : k = h /\ c = d /\ t[h] > 0
  <2> SUFFICES ASSUME NEW k \in E
               PROVE  k = h /\ c = d /\ t[h] > 0
      OBVIOUS
  <2>1. k \in LegsOf(bill) /\ e[k].ledger = T
        BY <1>8
  <2>2. k # "party" /\ k # "taxable"
        BY <1>3, <1>5, <2>1 DEF c
  <2>3. k \in Heads /\ t[k] > 0
        BY <1>6, <2>1, <2>2
  <2>4. TaxLedger[c][k] = T
        BY <1>4, <2>1, <2>3
  <2> QED  BY <1>9, <2>3, <2>4
<1>11. CASE c # d \/ ~(t[h] > 0)
  <2>1. E = {}
        BY <1>10, <1>11
  <2>2. Total(f, {}) = 0
        BY TotalStep, FS_EmptySet
  <2> QED  BY <1>11, <2>1, <2>2 DEF InHead, t, E, f, c, T
<1>12. CASE c = d /\ t[h] > 0
  <2>1. e[h].ledger = T /\ h \in LegsOf(bill)
        BY <1>4, <1>7, <1>12 DEF T
  <2>2. h \in E
        BY <1>8, <2>1
  <2>3. E = {h}
        BY <1>10, <2>2
  <2>4. f[h] = Signed(Stored(e)[h].side, Stored(e)[h].amount)
        BY <1>1, <1>2, <2>1 DEF Values, f
  <2>5. /\ Stored(e)[h].side = IF c = "sales" THEN "cr" ELSE "dr"
        /\ Stored(e)[h].amount = (10 * t[h] + 5) \div 10
        BY <1>1, <1>4, <1>12, <2>1, StoredIs
  <2>6. \A n \in Int : (10 * n + 5) \div 10 = n
        OBVIOUS
  <2>7. Stored(e)[h].amount = t[h] /\ t[h] \in Int
        BY <1>7, <2>5, <2>6
  <2>8. f[h] = IF d = "sales" THEN -t[h] ELSE t[h]
        BY <1>12, <2>4, <2>5, <2>7 DEF Signed
  <2>9. f[h] \in Int
        BY <2>7, <2>8
  <2>10. Total(f, {h}) = f[h]
        BY <2>9, TotalOne
  <2>11. InHead(v, d, h) = f[h]
        BY <2>3, <2>10 DEF InHead, E, f, T
  <2> QED  BY <1>12, <2>8, <2>11 DEF t, c
<1> QED  BY <1>11, <1>12

\* What the returns have of a head is the sum of what the invoices have.
LEMMA TotalsByInvoice ==
    ASSUME NEW invoices, AreInvoices(invoices), NEW some \in SUBSET DOMAIN invoices,
           NEW h \in Heads,
           NEW f, \A b \in some : f[b] = Totals(invoices[b].lines)[h]
    PROVE  /\ Totals(LinesOf(invoices, some))[h] = Total(f, some)
           /\ Totals(LinesOf(invoices, some))[h] \in Int
           /\ \A b \in some : f[b] \in Int
<1> DEFINE L == LinesOf(invoices, some)
           D == [b \in DOMAIN invoices |-> DOMAIN invoices[b].lines]
           c == Column(L, h)
           e == [b \in some |-> Column(invoices[b].lines, h)]
<1>1. h \in Amounts
      BY DEF Amounts
<1>2. AreLines(L) /\ DOMAIN L = LinePlaces(invoices, some)
      BY LinesOfAre
<1>3. /\ Totals(L)[h] = Total(c, LinePlaces(invoices, some))
      /\ Totals(L)[h] \in Int
      BY <1>1, <1>2, TotalsAre
<1>4. \A p \in LinePlaces(invoices, some) :
          /\ c[p] \in Int
          /\ p[1] \in some /\ p[2] \in DOMAIN invoices[p[1]].lines
          /\ c[p] = invoices[p[1]].lines[p[2]][h]
      BY <1>1, <1>2, LinesOfAre DEF AreLines, Column
<1>5. IsFiniteSet(some) /\ \A b \in some : AreLines(invoices[b].lines)
      BY FS_Subset DEF AreInvoices
<1>6. \A b \in some : /\ f[b] = Total(e[b], DOMAIN invoices[b].lines)
                      /\ f[b] \in Int
      BY <1>1, <1>5, TotalsAre
<1>7. LinePlaces(invoices, some) = PlacesIn(D, some)
      BY DEF LinePlaces
<1>8. \A b \in some : \A k \in D[b] : e[b][k] = c[<<b, k>>]
  <2> SUFFICES ASSUME NEW b \in some, NEW k \in D[b]
               PROVE  e[b][k] = c[<<b, k>>]
      OBVIOUS
  <2>1. <<b, k>> \in LinePlaces(invoices, some)
        BY <1>7, PlacesAre
  <2>2. c[<<b, k>>] = invoices[b].lines[k][h]
        BY <1>4, <2>1
  <2>3. k \in DOMAIN invoices[b].lines
        OBVIOUS
  <2>4. e[b][k] = invoices[b].lines[k][h]
        BY <2>3 DEF Column
  <2> QED  BY <2>2, <2>4
<1>9. \A b \in some : IsFiniteSet(D[b]) /\ D[b] = DOMAIN invoices[b].lines
      BY <1>5 DEF AreLines
<1> HIDE DEF c, e, D, L
<1>10. Total(c, PlacesIn(D, some)) = Total(f, some)
  <2>1. \A p \in PlacesIn(D, some) : c[p] \in Int
        BY <1>4, <1>7
  <2>2. \A b \in some : f[b] = Total(e[b], D[b])
        BY <1>6, <1>9
  <2> QED  BY <1>5, <1>8, <1>9, <2>1, <2>2, TotalNested
<1> QED  BY <1>3, <1>6, <1>7, <1>10 DEF L

\* The tax of a head, invoice by invoice.
LEMMA TotalsByDirection ==
    ASSUME NEW invoices, AreInvoices(invoices), NEW d, NEW h \in Heads,
           NEW f, \A b \in Directed(invoices, d) : f[b] = Totals(invoices[b].lines)[h]
    PROVE  /\ Totals(LinesOf(invoices, Directed(invoices, d)))[h]
                = Total(f, Directed(invoices, d))
           /\ \A b \in Directed(invoices, d) : f[b] \in Int
<1> DEFINE S == Directed(invoices, d)
<1>1. S \in SUBSET DOMAIN invoices
      BY DEF Directed
<1>2. \A b \in S : f[b] = Totals(invoices[b].lines)[h]
      OBVIOUS
<1> HIDE DEF S
<1>3. Totals(LinesOf(invoices, S))[h] = Total(f, S) /\ \A b \in S : f[b] \in Int
      BY <1>1, <1>2, TotalsByInvoice
<1> QED  BY <1>3 DEF S

\* NetByVoucher, with a name for the vouchers of the dates.
LEMMA NetOfPart ==
    ASSUME NEW vouchers, AreVouchers(vouchers), NEW accounts, NEW dates, NEW part,
           part = {i \in DOMAIN vouchers : vouchers[i].date \in dates},
           NEW g, \A i \in part : g[i] = Total(Values(vouchers[i].entries),
                                              EntriesIn(vouchers[i], accounts))
    PROVE  NetIn(vouchers, accounts, dates) = Total(g, part)
<1>1. \A i \in DOMAIN vouchers : vouchers[i].date \in dates =>
          g[i] = Total(Values(vouchers[i].entries), EntriesIn(vouchers[i], accounts))
      OBVIOUS
<1>2. NetIn(vouchers, accounts, dates)
        = Total(g, {i \in DOMAIN vouchers : vouchers[i].date \in dates})
      BY <1>1, NetByVoucher
<1> QED  BY <1>2

\* The books and a return are whole: every invoice of the day is posted, and what
\* was posted on the day is of the day.
IsWhole(day) ==
    /\ \A b \in arrived : Bill[b].date = day => IsPosted(b)
    /\ \A i \in DOMAIN books : books[i].date = day =>
          IF books[i].source = NoValue
          THEN \A j \in DOMAIN books[i].entries :
                   books[i].entries[j].ledger \notin TaxLedgers
          ELSE /\ Bill[books[i].source].date = day
               /\ Bill[books[i].source].party \notin TaxLedgers

OnDay(day) == {i \in DOMAIN books : books[i].date = day}

\* Voucher by voucher, the tax ledger and the return differ by the tolerance.
LEMMA VoucherAgrees ==
    ASSUME BooksInv, ArrivedInv, NEW day \in Days, IsWhole(day), NEW i \in OnDay(day),
           NEW d \in {"sales", "purchase"}, NEW h \in Heads
    PROVE  LET b == books[i].source
               told == IF /\ b \in DOMAIN InPeriod(day)
                          /\ Bill[b].direction = d
                       THEN Totals(Bill[b].lines)[h] ELSE 0
               kept == IF d = "sales" THEN -InHead(books[i], d, h)
                                      ELSE InHead(books[i], d, h) IN
           /\ told \in Int /\ kept \in Int /\ InHead(books[i], d, h) \in Int
           /\ -Tolerance <= told - kept /\ told - kept <= Tolerance
<1> DEFINE b == books[i].source
           v == books[i]
           t == Totals(Bill[b].lines)
<1>1. i \in DOMAIN books /\ v.date = day /\ IsVoucher(v)
      BY DEF OnDay, BooksInv
<1>2. CASE IsEntered(v)
  <2>1. b = NoValue /\ b \notin DOMAIN InPeriod(day)
        BY <1>2, InPeriodIs, ReportsAssumption DEF IsEntered, ArrivedInv
  <2>2. \A j \in DOMAIN v.entries : v.entries[j].ledger \notin TaxLedgers
        BY <1>1, <2>1 DEF IsWhole
  <2>3. EntriesIn(v, {TaxLedger[d][h]}) = {}
        BY <2>2, TaxLedgersDiffer DEF EntriesIn
  <2>4. Total(Values(v.entries), {}) = 0
        BY TotalStep, FS_EmptySet
  <2>5. InHead(v, d, h) = 0
        BY <2>3, <2>4 DEF InHead
  <2> QED  BY <2>1, <2>5 DEF Tolerance
<1>3. CASE IsPosting(v)
  <2>1. b \in arrived /\ b \in Invoices /\ Keeps(v, InvoiceEntries(Bill[b]))
        BY <1>3 DEF IsPosting, ArrivedInv
  <2>2. AreBillLines(Bill[b]) /\ b # NoValue
        BY <2>1, BillIs
  <2>3. Bill[b].date = day /\ Bill[b].party \notin TaxLedgers
        BY <1>1, <2>2 DEF IsWhole
  <2>4. b \in DOMAIN InPeriod(day)
        BY <2>1, <2>3, InPeriodIs
  <2>5. t[h] \in Int /\ t[h] >= -Tolerance
        BY <2>1, <2>2, TaxesArePositive DEF Keeps
  <2> DEFINE c == Bill[b].direction
             x == InHead(v, d, h)
  <2>6. x = IF c # d \/ ~(t[h] > 0) THEN 0 ELSE IF d = "sales" THEN -t[h] ELSE t[h]
        BY <2>1, <2>2, <2>3, PostingInHead
  <2> HIDE DEF t, x
  <2>7. LET told == IF c = d THEN t[h] ELSE 0
            kept == IF d = "sales" THEN -x ELSE x IN
        /\ told \in Int /\ kept \in Int /\ x \in Int
        /\ -Tolerance <= told - kept /\ told - kept <= Tolerance
        BY <2>5, <2>6 DEF Tolerance
  <2> QED  BY <2>4, <2>7 DEF t, x
<1> QED  BY <1>1, <1>2, <1>3 DEF IsVoucher

\* The net of a tax ledger on a day, and what the return of the day says.
LEMMA HeadAgrees ==
    ASSUME BooksInv, ArrivedInv, NEW day \in Days, IsWhole(day),
           NEW d \in {"sales", "purchase"}, NEW h \in Heads
    PROVE  LET told == Totals(LinesOf(InPeriod(day), Directed(InPeriod(day), d)))[h]
               net == NetIn(books, {TaxLedger[d][h]}, {day})
               kept == IF d = "sales" THEN -net ELSE net
               slack == Tolerance * Cardinality(OnDay(day)) IN
           Distance(told, kept) <= slack
<1> DEFINE inv == InPeriod(day)
           S == Directed(inv, d)
           mine == OnDay(day)
           tt == [b \in S |-> Totals(inv[b].lines)[h]]
           k == [i \in mine |-> books[i].source]
           u == [i \in mine |-> IF k[i] \in S THEN tt[k[i]] ELSE 0]
           g == [i \in DOMAIN books |-> InHead(books[i], d, h)]
           w == [i \in mine |-> IF d = "sales" THEN -g[i] ELSE g[i]]
           z == [i \in mine |-> u[i] - w[i]]
           one == [i \in mine |-> Tolerance]
           told == Totals(LinesOf(inv, S))[h]
           net == NetIn(books, {TaxLedger[d][h]}, {day})
           kept == IF d = "sales" THEN -net ELSE net
<1>1. /\ AreInvoices(inv)
      /\ DOMAIN inv = {b \in arrived : Bill[b].date = day}
      /\ \A b \in DOMAIN inv : inv[b] = Bill[b]
      BY InPeriodIs
<1>2. /\ AreVouchers(books) /\ IsFiniteSet(DOMAIN books)
      /\ mine \in SUBSET DOMAIN books /\ IsFiniteSet(mine)
      BY VouchersAre, FS_Subset DEF AreVouchers, OnDay
<1>3. /\ S \in SUBSET DOMAIN inv /\ IsFiniteSet(S)
      /\ \A b \in S : Bill[b].direction = d
      /\ \A b \in DOMAIN inv : Bill[b].direction = d => b \in S
      BY <1>1, FS_Subset DEF Directed, AreInvoices
<1>4. told = Total(tt, S) /\ \A b \in S : tt[b] \in Int
  <2>1. \A b \in S : tt[b] = Totals(inv[b].lines)[h]
        OBVIOUS
  <2> HIDE DEF inv, tt
  <2> QED  BY <1>1, <2>1, TotalsByDirection
<1>5. Names(k, mine, S)
  <2>1. \A x, y \in mine : k[x] \in S /\ k[x] = k[y] => x = y
    <3> SUFFICES ASSUME NEW x \in mine, NEW y \in mine, k[x] \in S, k[x] = k[y]
                 PROVE  x = y
        OBVIOUS
    <3>1. /\ x \in DOMAIN books /\ y \in DOMAIN books
          /\ books[x].source = books[y].source /\ books[x].source \in arrived
          BY <1>1, <1>2, <1>3
    <3>2. books[x].source # NoValue
          BY <3>1, ReportsAssumption DEF ArrivedInv
    <3> QED  BY <3>1, <3>2 DEF BooksInv
  <2>2. ASSUME NEW b \in S
        PROVE  \E x \in mine : k[x] = b
    <3>1. b \in arrived /\ Bill[b].date = day
          BY <1>1, <1>3
    <3>2. PICK i \in DOMAIN books : books[i].source = b
          BY <3>1 DEF IsWhole, IsPosted
    <3>3. b # NoValue /\ day # NoValue
          BY <3>1, ReportsAssumption, CalendarIsNatural DEF ArrivedInv, Days, Early, Late
    <3>4. books[i].date = day
          BY <3>1, <3>2, <3>3 DEF BooksInv, IsVoucher, IsEntered, IsPosting
    <3>5. i \in mine
          BY <3>4 DEF OnDay
    <3> QED  BY <3>2, <3>5
  <2> QED  BY <2>1, <2>2 DEF Names
<1>6. \A i \in mine : /\ u[i] \in Int /\ w[i] \in Int /\ g[i] \in Int
                      /\ z[i] = u[i] - w[i] /\ z[i] \in Int
                      /\ -Tolerance <= z[i] /\ z[i] <= Tolerance
  <2> SUFFICES ASSUME NEW i \in mine
               PROVE  /\ u[i] \in Int /\ w[i] \in Int /\ g[i] \in Int
                      /\ z[i] = u[i] - w[i] /\ z[i] \in Int
                      /\ -Tolerance <= z[i] /\ z[i] <= Tolerance
      OBVIOUS
  <2> DEFINE b == books[i].source
             s == IF b \in DOMAIN InPeriod(day) /\ Bill[b].direction = d
                  THEN Totals(Bill[b].lines)[h] ELSE 0
             x == IF d = "sales" THEN -InHead(books[i], d, h) ELSE InHead(books[i], d, h)
  <2>1. /\ s \in Int /\ x \in Int /\ InHead(books[i], d, h) \in Int
        /\ -Tolerance <= s - x /\ s - x <= Tolerance
        BY VoucherAgrees
  <2>2. u[i] = s
        BY <1>1, <1>3
  <2>3. g[i] = InHead(books[i], d, h)
        BY <1>2
  <2>4. w[i] = x /\ z[i] = u[i] - w[i]
        BY <2>3
  <2> HIDE DEF s, x, u, g, w, z
  <2> QED  BY <2>1, <2>2, <2>3, <2>4
<1>7. net = Total(g, mine)
  <2> DEFINE A == {TaxLedger[d][h]}
             D == {day}
  <2>1. \A i \in mine : g[i] = Total(Values(books[i].entries), EntriesIn(books[i], A))
        BY <1>2 DEF InHead
  <2>2. mine = {i \in DOMAIN books : books[i].date \in D}
        BY DEF OnDay
  <2>3. AreVouchers(books)
        BY <1>2
  <2> HIDE DEF g, mine, A, D
  <2>4. NetIn(books, A, D) = Total(g, mine)
        BY <2>1, <2>2, <2>3, NetOfPart
  <2> QED  BY <2>4 DEF A, D
<1>8. /\ \A i \in mine : w[i] = IF d = "sales" THEN -g[i] ELSE g[i]
      /\ \A i \in mine : u[i] = IF k[i] \in S THEN tt[k[i]] ELSE 0
      /\ \A i \in mine : one[i] = Tolerance
      OBVIOUS
<1> DEFINE n == Cardinality(mine)
<1>9. n \in Nat
      BY <1>2, FS_CardinalityType
<1> HIDE DEF inv, S, mine, tt, k, u, g, w, z, one, told, net, n
<1>10. Total(u, mine) = Total(tt, S)
      BY <1>2, <1>3, <1>4, <1>5, <1>8, TotalOver
<1>11. Total(w, mine) = kept
  <2>1. CASE d = "sales"
    <3>1. \A i \in mine : g[i] \in Int /\ w[i] = -g[i]
          BY <1>6, <1>8, <2>1
    <3>2. Total(w, mine) = -Total(g, mine)
          BY <1>2, <3>1, TotalNegative
    <3> QED  BY <1>7, <2>1, <3>2
  <2>2. CASE d # "sales"
    <3>1. \A i \in mine : w[i] = g[i]
          BY <1>8, <2>2
    <3>2. Total(w, mine) = Total(g, mine)
          BY <1>2, <3>1, TotalSame
    <3> QED  BY <1>7, <2>2, <3>2
  <2> QED  BY <2>1, <2>2
<1>12. Total(z, mine) = Total(u, mine) - Total(w, mine)
  <2>1. \A i \in mine : u[i] \in Int /\ w[i] \in Int /\ z[i] = u[i] - w[i]
        BY <1>6
  <2> QED  BY <1>2, <2>1, TotalMinus
<1>13. Total(one, mine) = 1 * n
  <2>1. \A i \in mine : one[i] = IF i \in mine THEN 1 ELSE 0
        BY <1>8 DEF Tolerance
  <2>2. Total(one, mine) = 1 * Cardinality(mine \cap mine)
        BY <1>2, <2>1, TotalCount
  <2> QED  BY <2>2 DEF n
<1>14. -Total(one, mine) <= Total(z, mine) /\ Total(z, mine) <= Total(one, mine)
  <2>1. \A i \in mine : z[i] \in Int /\ one[i] \in Int /\ -one[i] <= z[i] /\ z[i] <= one[i]
        BY <1>6, <1>8 DEF Tolerance
  <2> QED  BY <1>2, <2>1, TotalWithin
<1>15. told \in Int /\ kept \in Int
  <2>1. told \in Int
        BY <1>2, <1>3, <1>4, TotalInt
  <2>2. \A i \in mine : w[i] \in Int
        BY <1>6
  <2>3. Total(w, mine) \in Int
        BY <1>2, <2>2, TotalInt
  <2> QED  BY <1>11, <2>1, <2>3
<1>16. -n <= told - kept /\ told - kept <= n
  <2> HIDE DEF kept
  <2>1. Total(z, mine) = told - kept
        BY <1>4, <1>10, <1>11, <1>12
  <2> QED  BY <1>9, <1>13, <1>14, <1>15, <2>1
<1>17. Distance(told, kept) <= Tolerance * n
  <2> HIDE DEF kept
  <2> QED  BY <1>9, <1>15, <1>16 DEF Distance, Tolerance
<1> QED  BY <1>17 DEF told, net, n, mine, inv, S

-----------------------------------------------------------------------------
(* What every state has, whatever report is in the making. *)

BookedInv == TodayInv /\ LedgersInv /\ ArrivedInv /\ BooksInv

\* The chart of accounts alone.
LEMMA BookedInitially == Init => BookedInv
<1> SUFFICES ASSUME Init
             PROVE  BookedInv
    OBVIOUS
<1>1. TodayInv
      BY CalendarIsNatural DEF Init, TodayInv, Epoch, Late
<1>2. LedgersInv
      BY ChartIs DEF Init, LedgersInv
<1>3. ArrivedInv
      BY FS_EmptySet DEF Init, ArrivedInv
<1>4. books = <<>> /\ DOMAIN books = {}
      BY DEF Init
<1>5. BooksInv
      BY <1>4 DEF BooksInv
<1> QED  BY <1>1, <1>2, <1>3, <1>5 DEF BookedInv

\* Every step keeps the ledgers, the invoices and the vouchers.
LEMMA BookedInductive ==
    ASSUME BookedInv, [Next]_vars
    PROVE  BookedInv'
BY TodayInductive, LedgersGrow, ArrivedInductive, BooksInductive DEF BookedInv

\* So they are kept.
LEMMA BookedAlways == Spec => []BookedInv
<1>1. BookedInv /\ [Next]_vars => BookedInv'
      BY BookedInductive
<1> QED  BY BookedInitially, <1>1, PTL DEF Spec

\* Whatever is posted, entered and dated as it is, the tax ledgers of a day agree
\* with the return of the day head by head, up to the tolerance of each voucher.
THEOREM BooksAgree == Spec => []BooksAgreeWithReturns
<1>1. BookedInv => BooksAgreeWithReturns
  <2> SUFFICES ASSUME BookedInv, NEW day \in Days,
                      LET mine == {i \in DOMAIN books : books[i].date = day} IN
                      /\ \A b \in arrived : Bill[b].date = day => IsPosted(b)
                      /\ \A i \in mine :
                            IF books[i].source = NoValue
                            THEN \A j \in DOMAIN books[i].entries :
                                     books[i].entries[j].ledger \notin TaxLedgers
                            ELSE /\ Bill[books[i].source].date = day
                                 /\ Bill[books[i].source].party \notin TaxLedgers,
                      NEW h \in Heads
               PROVE  LET mine == {i \in DOMAIN books : books[i].date = day}
                          return == Gstr3b(InPeriod(day))
                          slack == Tolerance * Cardinality(mine) IN
                      /\ Distance(return.outward[h],
                                  -NetOf({TaxLedger.sales[h]}, {day})) <= slack
                      /\ Distance(return.itc[h],
                                  NetOf({TaxLedger.purchase[h]}, {day})) <= slack
      BY DEF BooksAgreeWithReturns
  <2> DEFINE inv == InPeriod(day)
             slack == Tolerance * Cardinality(OnDay(day))
  <2>1. IsWhole(day) /\ BooksInv /\ ArrivedInv
        BY DEF IsWhole, BookedInv
  <2>2. /\ Gstr3b(inv).outward = Totals(LinesOf(inv, Directed(inv, "sales")))
        /\ Gstr3b(inv).itc = Totals(LinesOf(inv, Directed(inv, "purchase")))
        BY DEF Gstr3b
  <2>3. Distance(Totals(LinesOf(inv, Directed(inv, "sales")))[h],
                 -NetIn(books, {TaxLedger["sales"][h]}, {day})) <= slack
        BY <2>1, HeadAgrees
  <2>4. Distance(Totals(LinesOf(inv, Directed(inv, "purchase")))[h],
                 NetIn(books, {TaxLedger["purchase"][h]}, {day})) <= slack
        BY <2>1, HeadAgrees
  <2> QED  BY <2>2, <2>3, <2>4 DEF NetOf, NetIn, OnDay
<1> QED  BY <1>1, BookedAlways, PTL

-----------------------------------------------------------------------------
(* What the three SELECTs of a report add up to. *)

\* The sums before a period are the nets of each ledger.
LEMMA BeforeIs ==
    ASSUME NEW vouchers, AreVouchers(vouchers), NEW accounts, NEW from \in Int
    PROVE  LET before == Before(vouchers, accounts, from) IN
           /\ DOMAIN before = DOMAIN accounts
           /\ \A l \in DOMAIN accounts :
                 /\ before[l] = NetIn(vouchers, {l}, Early..(from - 1))
                 /\ before[l] \in Int
<1> DEFINE before == Before(vouchers, accounts, from)
           until == from - 1
<1>1. before = [l \in DOMAIN accounts |-> Movement(vouchers, l, "dr", Early, until)
                                            - Movement(vouchers, l, "cr", Early, until)]
      BY DEF Before
<1> HIDE DEF until, before
<1>2. ASSUME NEW l
      PROVE  /\ Movement(vouchers, l, "dr", Early, until) \in Int
             /\ Movement(vouchers, l, "cr", Early, until) \in Int
             /\ Movement(vouchers, l, "dr", Early, until)
                  - Movement(vouchers, l, "cr", Early, until)
                  = NetIn(vouchers, {l}, Early..until)
      BY MovementIs
<1> QED  BY <1>1, <1>2 DEF before, until

\* The lines of a report, as far as the statements look at them.
LinesOn(lines, accounts, vouchers, base, from, to) ==
    /\ DOMAIN lines = DOMAIN accounts
    /\ \A l \in DOMAIN accounts :
          /\ lines[l].nature = accounts[l].nature
          /\ lines[l].class = accounts[l].class
          /\ lines[l].opening = base[l]
          /\ ClosingNet(lines[l]) = base[l] + NetIn(vouchers, {l}, from..to)
          /\ ClosingNet(lines[l]) \in Int

\* The lines of any accounts and vouchers.
LEMMA LinesAre ==
    ASSUME NEW accounts, AreAccounts(accounts), NEW vouchers, AreVouchers(vouchers),
           NEW before, \A l \in DOMAIN accounts : before[l] \in Int,
           NEW from, NEW to, NEW includes \in BOOLEAN
    PROVE  LET lines == LedgerLines(accounts, before, vouchers, from, to, includes)
               base == [l \in DOMAIN accounts |->
                           IF includes THEN accounts[l].opening + before[l] ELSE 0] IN
           /\ LinesOn(lines, accounts, vouchers, base, from, to)
           /\ AreBalances(lines)
           /\ \A l \in DOMAIN accounts : base[l] \in Int
<1> DEFINE lines == LedgerLines(accounts, before, vouchers, from, to, includes)
           base == [l \in DOMAIN accounts |->
                       IF includes THEN accounts[l].opening + before[l] ELSE 0]
<1>1. \A l \in DOMAIN accounts : base[l] \in Int
      BY DEF AreAccounts
<1>2. /\ DOMAIN lines = DOMAIN accounts
      /\ \A l \in DOMAIN accounts :
            /\ lines[l].nature = accounts[l].nature
            /\ lines[l].class = accounts[l].class
            /\ lines[l].opening = base[l]
            /\ lines[l].debit = Movement(vouchers, l, "dr", from, to)
            /\ lines[l].credit = Movement(vouchers, l, "cr", from, to)
      BY DEF LedgerLines
<1> HIDE DEF lines, base
<1>3. ASSUME NEW l \in DOMAIN accounts
      PROVE  /\ ClosingNet(lines[l]) = base[l] + NetIn(vouchers, {l}, from..to)
             /\ ClosingNet(lines[l]) \in Int
  <2> DEFINE d == Movement(vouchers, l, "dr", from, to)
             c == Movement(vouchers, l, "cr", from, to)
             n == NetIn(vouchers, {l}, from..to)
  <2>1. d \in Int /\ c \in Int /\ d - c = n
        BY MovementIs
  <2>2. ClosingNet(lines[l]) = base[l] + d - c /\ base[l] \in Int
        BY <1>1, <1>2 DEF ClosingNet
  <2> HIDE DEF d, c, n
  <2>3. ClosingNet(lines[l]) = base[l] + n /\ ClosingNet(lines[l]) \in Int
        BY <2>1, <2>2
  <2> QED  BY <2>3 DEF n
<1>4. LinesOn(lines, accounts, vouchers, base, from, to)
      BY <1>2, <1>3 DEF LinesOn
<1>5. AreBalances(lines)
      BY <1>2, <1>3 DEF AreBalances, AreAccounts
<1> QED  BY <1>1, <1>4, <1>5 DEF lines, base

\* The closing balances of some of the ledgers.
LEMMA ClosingOf ==
    ASSUME NEW accounts, AreAccounts(accounts), NEW vouchers, AreVouchers(vouchers),
           NEW base, \A l \in DOMAIN accounts : base[l] \in Int, NEW from, NEW to,
           NEW lines, LinesOn(lines, accounts, vouchers, base, from, to),
           NEW some \in SUBSET DOMAIN accounts
    PROVE  /\ Total(Closing(lines), some)
                = Total(base, some) + NetIn(vouchers, some, from..to)
           /\ Total(base, some) \in Int
           /\ NetIn(vouchers, some, from..to) \in Int
<1> DEFINE dates == from..to
           g == [l \in some |-> NetIn(vouchers, {l}, dates)]
           c == Closing(lines)
<1>1. IsFiniteSet(some)
      BY FS_Subset DEF AreAccounts
<1>2. ASSUME NEW l \in some
      PROVE  base[l] \in Int /\ g[l] \in Int /\ c[l] = base[l] + g[l]
  <2>1. g[l] \in Int
        BY NetInIs
  <2>2. c[l] = base[l] + g[l] /\ base[l] \in Int
        BY DEF Closing, LinesOn
  <2> QED  BY <2>1, <2>2
<1>3. \A l \in some : g[l] = NetIn(vouchers, {l}, dates)
      OBVIOUS
<1> HIDE DEF dates, g, c
<1>4. Total(c, some) = Total(base, some) + Total(g, some)
      BY <1>1, <1>2, TotalPlus
<1>5. Total(g, some) = NetIn(vouchers, some, dates)
      BY <1>1, <1>3, NetByLedger
<1>6. NetIn(vouchers, some, dates) \in Int
      BY NetInIs
<1>7. Total(base, some) \in Int
      BY <1>1, <1>2, TotalInt
<1>8. Total(c, some) = Total(base, some) + NetIn(vouchers, some, dates)
      BY <1>4, <1>5
<1> QED  BY <1>6, <1>7, <1>8 DEF c, dates

NominalOf(accounts) == {l \in DOMAIN accounts : accounts[l].nature \in {"income", "expense"}}

\* The profit of a report that leaves the opening balances out.
LEMMA ProfitOf ==
    ASSUME NEW accounts, AreAccounts(accounts), NEW vouchers, AreVouchers(vouchers),
           NEW before, \A l \in DOMAIN accounts : before[l] \in Int, NEW from, NEW to
    PROVE  LET lines == LedgerLines(accounts, before, vouchers, from, to, FALSE)
               net == NetIn(vouchers, NominalOf(accounts), from..to) IN
           ProfitAndLoss(lines).netProfit = -net /\ net \in Int
<1> DEFINE lines == LedgerLines(accounts, before, vouchers, from, to, FALSE)
           base == [l \in DOMAIN accounts |->
                       IF FALSE THEN accounts[l].opening + before[l] ELSE 0]
           some == NominalOf(accounts)
           net == NetIn(vouchers, some, from..to)
<1>1. /\ LinesOn(lines, accounts, vouchers, base, from, to)
      /\ AreBalances(lines)
      /\ \A l \in DOMAIN accounts : base[l] \in Int
      BY LinesAre
<1>2. \A l \in DOMAIN accounts : base[l] = 0
      OBVIOUS
<1>3. some \in SUBSET DOMAIN accounts /\ IsFiniteSet(some)
      BY FS_Subset DEF NominalOf, AreAccounts
<1> HIDE DEF lines, base, some
<1>4. OfNatures(lines, {"income", "expense"}) = some
      BY <1>1 DEF OfNatures, LinesOn, some, NominalOf
<1>5. ProfitAndLoss(lines).netProfit = -Total(Closing(lines), some)
      BY <1>1, <1>4, ProfitIs
<1>6. Total(Closing(lines), some) = Total(base, some) + net /\ net \in Int
      BY <1>1, <1>3, ClosingOf
<1>7. Total(base, some) = 0
      BY <1>2, <1>3, TotalZero
<1> HIDE DEF net
<1>8. ProfitAndLoss(lines).netProfit = -net
      BY <1>5, <1>6, <1>7
<1> QED  BY <1>6, <1>8 DEF lines, net, some

-----------------------------------------------------------------------------
(* The report in the making. *)

\* The vouchers that a sum has seen.
Seen(n) == Restrict(books, 1..n)

\* The vouchers there were when the sums before the period were made.
LEMMA SeenIs ==
    ASSUME BooksInv, ArrivedInv, NEW n \in 0..Len(books)
    PROVE  /\ AreVouchers(Seen(n))
           /\ n \in Nat /\ 1..n \subseteq DOMAIN books
           /\ DOMAIN Seen(n) = 1..n
           /\ \A i \in 1..n : Seen(n)[i] = books[i]
<1>1. /\ AreVouchers(books)
      /\ Len(books) \in Nat /\ DOMAIN books = 1..Len(books)
      BY VouchersAre
<1>2. n \in Nat /\ 1..n \subseteq DOMAIN books
      BY <1>1
<1>3. DOMAIN Seen(n) = 1..n /\ \A i \in 1..n : Seen(n)[i] = books[i]
      BY DEF Seen, Restrict
<1>4. IsFiniteSet(1..n)
      BY <1>2, FS_Interval
<1> QED  BY <1>1, <1>2, <1>3, <1>4 DEF AreVouchers

\* The lines that a report has read when it has made its sums.
LEMMA SumsAre ==
    ASSUME BookedInv, Running, IsReport(report), ListInv, report.step = "sums",
           NEW n \in 0..Len(books),
           report.before = Before(Seen(n), report.listed, From(report))
    PROVE  /\ AreAccounts(report.listed) /\ AreVouchers(books) /\ AreVouchers(Seen(n))
           /\ From(report) \in Int
           /\ \A l \in DOMAIN report.listed :
                 /\ report.before[l] \in Int
                 /\ report.before[l] = NetIn(Seen(n), {l}, Early..(From(report) - 1))
<1>1. AreAccounts(report.listed)
      BY DEF ListInv
<1>2. AreVouchers(books) /\ AreVouchers(Seen(n))
      BY VouchersAre, SeenIs DEF BookedInv
<1>3. From(report) \in Int
      BY DEF IsReport, From
<1>4. \A l \in DOMAIN report.listed :
          /\ report.before[l] \in Int
          /\ report.before[l] = NetIn(Seen(n), {l}, Early..(From(report) - 1))
  <2> DEFINE before == Before(Seen(n), report.listed, From(report))
  <2>1. \A l \in DOMAIN report.listed :
            /\ before[l] = NetIn(Seen(n), {l}, Early..(From(report) - 1))
            /\ before[l] \in Int
        BY <1>2, <1>3, BeforeIs
  <2>2. report.before = before
        OBVIOUS
  <2> HIDE DEF before
  <2> QED  BY <2>1, <2>2
<1> QED  BY <1>1, <1>2, <1>3, <1>4

\* A financial year begins within the calendar.
LEMMA CalendarIs ==
    ASSUME TodayInv
    PROVE  /\ YearStart(today) \in Int /\ YearStart(today) >= Early
           /\ YearEnd(today) \in Int
<1>1. today - 1 \in Nat /\ YearLength \in Nat \ {0}
      BY CalendarIsNatural DEF TodayInv, Epoch, Late
<1>2. \A a \in Nat, b \in Nat \ {0} : a \div b \in Nat
      OBVIOUS
<1>3. \A a, b \in Nat : a * b \in Nat
      OBVIOUS
<1>4. ((today - 1) \div YearLength) * YearLength \in Nat
      BY <1>1, <1>2, <1>3
<1> DEFINE k == ((today - 1) \div YearLength) * YearLength
<1>5. k \in Nat
      BY <1>4
<1>6. YearStart(today) = k + 1 /\ YearEnd(today) = k + 1 + YearLength - 1
      BY DEF YearStart, YearEnd
<1> HIDE DEF k
<1> QED  BY <1>1, <1>5, <1>6 DEF Early

\* A report that is asked for has a period.
LEMMA AskedIs ==
    ASSUME BookedInv, Ask
    PROVE  /\ report'.step = "ledgers" /\ report' # NoReport
           /\ report'.kind = "sheet" => report'.first
           /\ IsReport(report')
<1> DEFINE Fits(kind, of, from, to) ==
               /\ kind \in Kinds /\ from \in Int /\ to \in Int
               /\ kind # "profit" => Epoch <= from /\ from <= to
               /\ kind = "statement" => of \in DOMAIN ledgers
<1>1. ASSUME NEW kind, NEW of, NEW from, NEW to, Fits(kind, of, from, to),
             report' = Asked(kind, of, from, to)
      PROVE  /\ report'.step = "ledgers" /\ report' # NoReport
             /\ report'.kind = "sheet" => report'.first
             /\ IsReport(report')
  <2>1. YearStart(today) \in Int /\ YearStart(today) >= Early
        BY CalendarIs DEF BookedInv
  <2> DEFINE y == YearStart(today)
  <2>2. report' = [kind |-> kind, of |-> of, from |-> from, to |-> to,
                   first |-> kind = "sheet", year |-> y,
                   step |-> "ledgers", listed |-> <<>>, before |-> <<>>, profit |-> 0,
                   ledgerMade |-> FALSE, dates |-> {}]
        BY <1>1 DEF Asked
  <2> HIDE DEF y
  <2>3. report'.step = "ledgers" /\ report'.kind = kind /\ report'.first = (kind = "sheet")
        BY <2>2
  <2>4. report' # NoReport
        BY <2>3 DEF NoReport
  <2>5. IsReport(report')
        BY <1>1, <2>1, <2>2 DEF IsReport, y
  <2> QED  BY <2>3, <2>4, <2>5
<1>2. LastDay \in Nat
      BY CalendarIsNatural
<1>3. ASSUME NEW kind \in {"trial", "sheet"}, NEW asOn \in Days
      PROVE  Fits(kind, NoValue, Epoch, asOn)
      BY <1>2 DEF Kinds, Days, Epoch
<1>4. Fits("profit", NoValue, YearStart(today), YearEnd(today))
      BY CalendarIs DEF Kinds, BookedInv
<1>5. ASSUME NEW kind \in {"receivable", "payable"}
      PROVE  Fits("outstanding", kind, Epoch, FarFuture)
      BY <1>2 DEF Kinds, Epoch, FarFuture, Late
<1>6. ASSUME NEW l \in Watched \cap DOMAIN ledgers, NEW from \in Days
      PROVE  Fits("statement", l, from, FarFuture)
      BY <1>2 DEF Kinds, Days, Epoch, FarFuture, Late
<1> HIDE DEF Fits
<1> QED  BY <1>1, <1>3, <1>4, <1>5, <1>6 DEF Ask

\* A report has read nothing when it is asked for.
LEMMA AskKeeps ==
    ASSUME BookedInv, Ask
    PROVE  ReportInv'
<1>1. /\ report'.step = "ledgers"
      /\ report'.kind = "sheet" => report'.first
      /\ IsReport(report')
      BY AskedIs
<1>2. ledgers' = ledgers
      BY DEF Ask
<1>3. IsReport(report)'
      BY <1>1, <1>2 DEF IsReport
<1>4. ListInv' /\ SumsInv' /\ ProfitInv'
      BY <1>1 DEF ListInv, SumsInv, ProfitInv
<1> QED  BY <1>3, <1>4 DEF ReportInv

\* The list that is read is the ledgers of that moment.
LEMMA ListLedgersKeeps ==
    ASSUME BookedInv, ReportInv, ListLedgers
    PROVE  ReportInv'
<1>1. /\ report.step = "ledgers"
      /\ report' = [report EXCEPT !.step = "before", !.listed = ledgers]
      /\ books' = books /\ ledgers' = ledgers
      BY DEF ListLedgers
<1>2. Running
      BY <1>1 DEF Running, NoReport
<1>3. IsReport(report)
      BY <1>2 DEF ReportInv
<1>4. /\ report'.step = "before" /\ report'.listed = ledgers
      /\ report'.kind = report.kind /\ report'.first = report.first
      /\ report'.ledgerMade = report.ledgerMade /\ report'.dates = report.dates
      /\ report'.profit = report.profit /\ report'.year = report.year
      /\ report'.to = report.to
      BY <1>1, <1>3 DEF IsReport
<1>5. IsReport(report)'
      BY <1>1, <1>3 DEF IsReport
<1>6. ListInv'
      BY <1>1, <1>4 DEF ListInv, BookedInv, LedgersInv
<1>7. SumsInv'
      BY <1>4 DEF SumsInv
<1>8. ProfitInv'
  <2>1. ProfitInv
        BY DEF ReportInv
  <2>2. NetOf(Nominal, report.year..report.to)' = NetOf(Nominal, report.year..report.to)
        BY <1>1, <1>4 DEF NetOf, Nominal
  <2> QED  BY <1>2, <1>4, <2>1, <2>2 DEF ProfitInv
<1> QED  BY <1>5, <1>6, <1>7, <1>8 DEF ReportInv

\* The sums that are read are those of all vouchers of that moment.
LEMMA SumBeforeKeeps ==
    ASSUME BookedInv, ReportInv, SumBefore
    PROVE  ReportInv'
<1>1. /\ report.step = "before"
      /\ report' = [report EXCEPT
                       !.step = "sums",
                       !.before = Before(books, report.listed, From(report))]
      /\ books' = books /\ ledgers' = ledgers
      BY DEF SumBefore
<1>2. Running
      BY <1>1 DEF Running, NoReport
<1>3. IsReport(report)
      BY <1>2 DEF ReportInv
<1>4. /\ report'.step = "sums" /\ report'.listed = report.listed
      /\ report'.before = Before(books, report.listed, From(report))
      /\ report'.kind = report.kind /\ report'.first = report.first
      /\ report'.ledgerMade = report.ledgerMade /\ report'.dates = report.dates
      /\ report'.profit = report.profit /\ report'.year = report.year
      /\ report'.to = report.to /\ report'.from = report.from
      BY <1>1, <1>3 DEF IsReport
<1>5. IsReport(report)'
      BY <1>1, <1>3 DEF IsReport
<1>6. ListInv'
      BY <1>1, <1>4 DEF ListInv, ReportInv
<1>7. SumsInv'
  <2>1. /\ Len(books) \in Nat /\ DOMAIN books = 1..Len(books)
        /\ books \in Seq(Range(books))
        BY VouchersAre DEF BookedInv, BooksInv
  <2>2. Restrict(books, 1..Len(books)) = books
        BY <2>1 DEF Restrict
  <2>3. From(report)' = From(report)
        BY <1>4 DEF From
  <2>4. report'.before = Before(Restrict(books', 1..Len(books)), report'.listed, From(report'))
        BY <1>1, <1>4, <2>2, <2>3
  <2>5. \A i \in DOMAIN books' : i > Len(books) => books'[i].date \in report'.dates
        BY <1>1, <2>1
  <2>6. Len(books) \in 0..Len(books')
        BY <1>1, <2>1
  <2> QED  BY <2>4, <2>5, <2>6 DEF SumsInv
<1>8. ProfitInv'
  <2>1. ProfitInv
        BY DEF ReportInv
  <2>2. NetOf(Nominal, report.year..report.to)' = NetOf(Nominal, report.year..report.to)
        BY <1>1, <1>4 DEF NetOf, Nominal
  <2> QED  BY <1>2, <1>4, <2>1, <2>2 DEF ProfitInv
<1> QED  BY <1>5, <1>6, <1>7, <1>8 DEF ReportInv

\* The profit of the first pass is that of the moment, unless a ledger was made after
\* the list was read.
LEMMA SumPeriodKeeps ==
    ASSUME BookedInv, ReportInv, SumPeriod
    PROVE  ReportInv'
<1>1. /\ report.step = "sums"
      /\ books' = books /\ ledgers' = ledgers
      BY DEF SumPeriod
<1>2. Running
      BY <1>1 DEF Running, NoReport
<1>3. IsReport(report) /\ ListInv /\ SumsInv
      BY <1>2 DEF ReportInv
<1>4. CASE ~report.first
  <2>1. report' = NoReport
        BY <1>4 DEF SumPeriod
  <2>2. report'.step = "none"
        BY <2>1 DEF NoReport
  <2> QED  BY <2>1, <2>2 DEF ReportInv, Running, ListInv, SumsInv, ProfitInv
<1>5. CASE report.first
  <2> DEFINE profit == ProfitAndLoss(LinesRead(report)).netProfit
  <2>1. report' = [report EXCEPT
                      !.first = FALSE, !.step = "ledgers",
                      !.listed = <<>>, !.before = <<>>, !.profit = profit]
        BY <1>5 DEF SumPeriod
  <2>2. PICK n \in 0..Len(books) :
            report.before = Before(Seen(n), report.listed, From(report))
        BY <1>1, <1>3 DEF SumsInv, Seen
  <2>3. /\ AreAccounts(report.listed) /\ AreVouchers(books)
        /\ \A l \in DOMAIN report.listed : report.before[l] \in Int
        BY <1>1, <1>2, <1>3, <2>2, SumsAre
  <2>4. From(report) = report.year /\ IncludesOpening(report) = FALSE
        BY <1>5 DEF From, IncludesOpening
  <2> DEFINE net == NetIn(books, NominalOf(report.listed), report.year..report.to)
  <2>5. profit = -net /\ net \in Int
    <3> DEFINE lines == LedgerLines(report.listed, report.before, books,
                                    report.year, report.to, FALSE)
    <3>1. LinesRead(report) = lines
          BY <2>4 DEF LinesRead
    <3>2. ProfitAndLoss(lines).netProfit = -net /\ net \in Int
          BY <2>3, ProfitOf
    <3> HIDE DEF lines, net
    <3> QED  BY <3>1, <3>2
  <2> HIDE DEF profit
  <2>6. /\ report'.step = "ledgers"
        /\ report'.ledgerMade = report.ledgerMade
        /\ report'.profit = profit /\ report'.year = report.year
        /\ report'.to = report.to
        BY <1>3, <2>1 DEF IsReport
  <2>7. profit \in Int
        BY <2>5
  <2>8. IsReport(report)'
        BY <1>1, <1>3, <2>1, <2>7 DEF IsReport
  <2>9. ListInv' /\ SumsInv'
        BY <2>6 DEF ListInv, SumsInv
  <2>10. ProfitInv'
    <3> SUFFICES ASSUME ~report'.ledgerMade
                 PROVE  report'.profit = -NetOf(Nominal, report.year..report.to)'
        BY DEF ProfitInv
    <3>1. report.listed = ledgers
          BY <1>1, <1>3, <2>6 DEF ListInv
    <3>2. NominalOf(report.listed) = Nominal
          BY <3>1 DEF NominalOf, Nominal
    <3>3. net = NetOf(Nominal, report.year..report.to)
          BY <3>2 DEF NetIn, NetOf
    <3>4. NetOf(Nominal, report.year..report.to)' = NetOf(Nominal, report.year..report.to)
          BY <1>1, <2>6 DEF NetOf, Nominal
    <3> QED  BY <2>5, <2>6, <3>3, <3>4
  <2> QED  BY <2>8, <2>9, <2>10 DEF ReportInv
<1> QED  BY <1>4, <1>5

\* What another request commits: a ledger, or a voucher and its ledger.
LEMMA CommitKeeps ==
    ASSUME BookedInv, BookedInv', ReportInv, DOMAIN ledgers \subseteq DOMAIN ledgers',
           NEW made \in BOOLEAN, NEW dates, Meanwhile(made, dates),
           made \/ ledgers' = ledgers,
           made \/ dates # {},
           \/ books' = books /\ dates = {}
           \/ \E v : books' = Append(books, v) /\ dates = {v.date}
    PROVE  ReportInv'
<1>1. /\ books \in Seq(Range(books)) /\ books' \in Seq(Range(books'))
      /\ Len(books) \in Nat /\ DOMAIN books = 1..Len(books)
      BY DEF BookedInv, BooksInv
<1>2. /\ DOMAIN books \subseteq DOMAIN books'
      /\ \A i \in DOMAIN books : books'[i] = books[i]
      /\ \A i \in DOMAIN books' \ DOMAIN books : books'[i].date \in dates
      /\ Len(books) <= Len(books') /\ Len(books') \in Nat
      /\ dates \in SUBSET (Early..Late)
  <2>1. CASE books' = books /\ dates = {}
        BY <1>1, <2>1
  <2>2. CASE \E v : books' = Append(books, v) /\ dates = {v.date}
    <3>1. PICK v : books' = Append(books, v) /\ dates = {v.date}
          BY <2>2
    <3>2. /\ Len(books') = Len(books) + 1
          /\ DOMAIN books' = DOMAIN books \cup {Len(books')}
          /\ \A i \in DOMAIN books : books'[i] = books[i]
          /\ books'[Len(books')] = v
      <4>1. books \in Seq(Range(books))
            BY <1>1
      <4> DEFINE b == Append(books, v)
      <4>2. /\ Len(b) = Len(books) + 1
            /\ DOMAIN b = DOMAIN books \cup {Len(b)}
            /\ \A i \in DOMAIN books : b[i] = books[i]
            /\ b[Len(b)] = v
            BY <4>1, Appended
      <4>3. books' = b
            BY <3>1
      <4> HIDE DEF b
      <4> QED  BY <4>2, <4>3
    <3>3. v.date \in Early..Late
          BY <3>2 DEF BookedInv, BooksInv, IsVoucher
    <3>4. \A i \in DOMAIN books' \ DOMAIN books : books'[i].date \in dates
          BY <3>1, <3>2
    <3>5. dates \in SUBSET (Early..Late)
          BY <3>1, <3>3
    <3>6. Len(books) <= Len(books') /\ Len(books') \in Nat
          BY <1>1, <3>2
    <3> QED  BY <3>2, <3>4, <3>5, <3>6
  <2> QED  BY <2>1, <2>2
<1>3. CASE ~Running
  <2>1. report' = NoReport /\ report'.step = "none"
        BY <1>3 DEF Meanwhile, Begun, Running, NoReport
  <2> QED  BY <2>1 DEF ReportInv, Running, ListInv, SumsInv, ProfitInv
<1>4. CASE Running
  <2>1. IsReport(report) /\ ListInv /\ SumsInv /\ ProfitInv
        BY <1>4 DEF ReportInv
  <2>2. /\ report'.step = report.step /\ report'.kind = report.kind
        /\ report'.first = report.first /\ report'.listed = report.listed
        /\ report'.before = report.before /\ report'.from = report.from
        /\ report'.year = report.year /\ report'.of = report.of
        BY <2>1 DEF Meanwhile, IsReport
  <2>3. Begun => /\ report'.ledgerMade = (report.ledgerMade \/ made)
                 /\ report'.dates = report.dates \cup dates
        BY <2>1 DEF Meanwhile, IsReport
  <2>4. IsReport(report)'
    <3>1. CASE Begun
      <4>1. report' = [report EXCEPT !.ledgerMade = @ \/ made, !.dates = @ \cup dates]
            BY <3>1 DEF Meanwhile
      <4>2. (report.ledgerMade \/ made) \in BOOLEAN
            OBVIOUS
      <4>3. (report.dates \cup dates) \in SUBSET (Early..Late)
            BY <1>2, <2>1 DEF IsReport
      <4> QED  BY <2>1, <4>1, <4>2, <4>3 DEF IsReport
    <3>2. CASE ~Begun
      <4>1. report' = report
            BY <3>2 DEF Meanwhile
      <4> QED  BY <2>1, <4>1 DEF IsReport
    <3> QED  BY <3>1, <3>2
  <2>5. ListInv'
    <3> SUFFICES ASSUME report'.step \in {"before", "sums"}
                 PROVE  /\ AreAccounts(report'.listed)
                        /\ ~report'.ledgerMade => report'.listed = ledgers'
        BY DEF ListInv
    <3>1. Begun
          BY <1>4, <2>2 DEF Begun
    <3>2. ~report'.ledgerMade => ~report.ledgerMade /\ ledgers' = ledgers
          BY <2>3, <3>1
    <3> QED  BY <2>1, <2>2, <3>2 DEF ListInv
  <2>6. SumsInv'
    <3> SUFFICES ASSUME report'.step = "sums"
                 PROVE  \E n \in 0..Len(books') :
                            /\ report'.before = Before(Restrict(books', 1..n),
                                                       report'.listed, From(report'))
                            /\ \A i \in DOMAIN books' :
                                  i > n => books'[i].date \in report'.dates
        BY DEF SumsInv
    <3>1. Begun
          BY <1>4, <2>2 DEF Begun
    <3>2. PICK n \in 0..Len(books) :
              /\ report.before = Before(Restrict(books, 1..n), report.listed, From(report))
              /\ \A i \in DOMAIN books : i > n => books[i].date \in report.dates
          BY <2>1, <2>2 DEF SumsInv
    <3>3. Restrict(books', 1..n) = Restrict(books, 1..n)
      <4>1. 1..n \subseteq DOMAIN books
            BY <1>1
      <4> QED  BY <1>2, <4>1 DEF Restrict
    <3>4. From(report') = From(report)
          BY <2>2 DEF From
    <3>5. report'.before = Before(Restrict(books', 1..n), report'.listed, From(report'))
          BY <2>2, <3>2, <3>3, <3>4
    <3>6. \A i \in DOMAIN books' : i > n => books'[i].date \in report'.dates
          BY <1>2, <2>3, <3>1, <3>2
    <3>7. n \in 0..Len(books')
          BY <1>1, <1>2
    <3> QED  BY <3>5, <3>6, <3>7
  <2>7. ProfitInv'
    <3>1. report'.kind = "sheet" /\ ~report'.first => Begun
          BY <1>4, <2>2 DEF Begun
    <3>2. Begun => report'.ledgerMade \/ report'.dates # {}
          BY <2>3
    <3> QED  BY <3>1, <3>2 DEF ProfitInv
  <2> QED  BY <2>4, <2>5, <2>6, <2>7 DEF ReportInv
<1> QED  BY <1>3, <1>4

\* Every step keeps what is said of the report.
LEMMA ReportInductive ==
    ASSUME BookedInv, BookedInv', ReportInv, [Next]_vars
    PROVE  ReportInv'
<1>1. DOMAIN ledgers \subseteq DOMAIN ledgers'
      BY LedgersGrow DEF BookedInv
<1>2. ASSUME NEW l \in DOMAIN NewLedgers, CreateLedger(l)
      PROVE  ReportInv'
  <2>1. books' = books /\ Meanwhile(TRUE, {})
        BY <1>2 DEF CreateLedger
  <2> QED  BY <1>1, <2>1, CommitKeeps
<1>3. ASSUME NEW date, NEW entries, NEW source, NEW accounts,
             CreateVoucher(date, entries, source, accounts)
      PROVE  ReportInv'
  <2>1. PICK v : v = [date |-> date, source |-> source, entries |-> Stored(entries)]
        OBVIOUS
  <2>2. v.date = date
        BY <2>1
  <2>3. books' = Append(books, v) /\ ledgers' = accounts
        BY <1>3, <2>1 DEF CreateVoucher
  <2>4. PICK made \in BOOLEAN : made = (accounts # ledgers)
        OBVIOUS
  <2>5. Meanwhile(made, {date})
        BY <1>3, <2>4 DEF CreateVoucher
  <2>6. /\ made \/ ledgers' = ledgers
        /\ {date} # {}
        /\ \E w : books' = Append(books, w) /\ {date} = {w.date}
        BY <2>2, <2>3, <2>4
  <2> QED  BY <1>1, <2>5, <2>6, CommitKeeps
<1>4. ASSUME NEW draft \in Drafts, Enter(draft)
      PROVE  ReportInv'
  <2>1. PICK date : date = draft.date
        OBVIOUS
  <2>2. PICK accounts : accounts = ledgers
        OBVIOUS
  <2>3. CreateVoucher(date, draft.entries, NoValue, accounts)
        BY <1>4, <2>1, <2>2 DEF Enter
  <2> QED  BY <1>3, <2>3
<1>5. ASSUME NEW b \in Invoices, Post(b)
      PROVE  ReportInv'
  <2>1. PICK date : date = VoucherDate(Bill[b])
        OBVIOUS
  <2>2. PICK accounts : accounts = WithParty(Bill[b])
        OBVIOUS
  <2>3. CreateVoucher(date, InvoiceEntries(Bill[b]), b, accounts)
        BY <1>5, <2>1, <2>2 DEF Post
  <2> QED  BY <1>3, <2>3
<1>6. ASSUME UNCHANGED <<ledgers, books, report>>
      PROVE  ReportInv'
  <2>1. IsReport(report) => IsReport(report)'
        BY <1>6 DEF IsReport
  <2>2. (ListInv => ListInv') /\ (SumsInv => SumsInv')
        BY <1>6 DEF ListInv, SumsInv, From
  <2>3. ProfitInv => ProfitInv'
        BY <1>6 DEF ProfitInv, NetOf, Nominal, Running
  <2> QED  BY <1>6, <2>1, <2>2, <2>3 DEF ReportInv, Running
<1>7. CASE Ask
      BY <1>7, AskKeeps
<1>8. CASE ListLedgers
      BY <1>8, ListLedgersKeeps
<1>9. CASE SumBefore
      BY <1>9, SumBeforeKeeps
<1>10. CASE SumPeriod
      BY <1>10, SumPeriodKeeps
<1>11. ASSUME NEW b \in Invoices, Arrive(b)
       PROVE  ReportInv'
      BY <1>6, <1>11 DEF Arrive
<1>12. CASE NextDay
      BY <1>6, <1>12 DEF NextDay
<1>13. CASE UNCHANGED vars
      BY <1>6, <1>13 DEF vars
<1> QED  BY <1>2, <1>4, <1>5, <1>7, <1>8, <1>9, <1>10, <1>11, <1>12, <1>13 DEF Next

\* The inductive invariant.
LEMMA InvAlways == Spec => [](BookedInv /\ ReportInv)
<1>1. Init => ReportInv
  <2> SUFFICES ASSUME Init
               PROVE  ReportInv
      OBVIOUS
  <2>1. report = NoReport /\ report.step = "none"
        BY DEF Init, NoReport
  <2> QED  BY <2>1 DEF ReportInv, Running, ListInv, SumsInv, ProfitInv
<1>2. BookedInv /\ ReportInv /\ [Next]_vars => BookedInv' /\ ReportInv'
      BY BookedInductive, ReportInductive
<1> QED  BY <1>1, <1>2, BookedInitially, PTL DEF Spec

-----------------------------------------------------------------------------
(* What a report says when it completes. *)

\* The state in which the last SELECT is the next one and no ledger was made.
AtLast == BookedInv /\ ReportInv /\ Completing /\ ~report.ledgerMade

\* What a report that is about to complete has read.
LEMMA AtLastIs ==
    ASSUME AtLast
    PROVE  /\ Running /\ IsReport(report) /\ ListInv /\ ProfitInv
           /\ report.step = "sums" /\ ~report.first
           /\ report.listed = ledgers /\ AreAccounts(ledgers)
           /\ AreVouchers(books)
           /\ From(report) = report.from
           /\ LinesRead(report) = LedgerLines(ledgers, report.before, books,
                                              report.from, report.to,
                                              report.kind # "profit")
           /\ \E n \in 0..Len(books) :
                 /\ report.before = Before(Seen(n), ledgers, report.from)
                 /\ \A i \in DOMAIN books : i > n => books[i].date \in report.dates
           /\ \A l \in DOMAIN ledgers : report.before[l] \in Int
<1>1. report.step = "sums" /\ ~report.first /\ ~report.ledgerMade
      BY DEF AtLast, Completing
<1>2. Running
      BY <1>1 DEF Running, NoReport
<1>3. IsReport(report) /\ ListInv /\ SumsInv /\ ProfitInv
      BY <1>2 DEF AtLast, ReportInv
<1>4. report.listed = ledgers
      BY <1>1, <1>3 DEF ListInv
<1>5. AreAccounts(ledgers)
      BY DEF AtLast, BookedInv, LedgersInv
<1>6. AreVouchers(books)
      BY VouchersAre DEF AtLast, BookedInv
<1>7. From(report) = report.from
      BY <1>1 DEF From
<1>8. LinesRead(report) = LedgerLines(ledgers, report.before, books, report.from,
                                      report.to, report.kind # "profit")
  <2>1. IncludesOpening(report) = (report.kind # "profit")
        BY <1>1 DEF IncludesOpening
  <2> QED  BY <1>4, <1>7, <2>1 DEF LinesRead
<1>9. PICK n \in 0..Len(books) :
          /\ report.before = Before(Seen(n), ledgers, report.from)
          /\ \A i \in DOMAIN books : i > n => books[i].date \in report.dates
      BY <1>1, <1>3, <1>4, <1>7 DEF SumsInv, Seen
<1>10. \A l \in DOMAIN ledgers : report.before[l] \in Int
  <2>1. report.before = Before(Seen(n), report.listed, From(report))
        BY <1>4, <1>7, <1>9
  <2>2. BookedInv
        BY DEF AtLast
  <2>3. \A l \in DOMAIN report.listed : report.before[l] \in Int
        BY <1>1, <1>2, <1>3, <2>1, <2>2, SumsAre
  <2> QED  BY <1>4, <2>3
<1> QED  BY <1>1, <1>2, <1>3, <1>4, <1>5, <1>6, <1>7, <1>8, <1>9, <1>10

\* The sums before the period are those of the books, when no voucher came late.
LEMMA UndisturbedBefore ==
    ASSUME AtLast, ~Disturbed(report), report.kind # "profit", NEW l \in DOMAIN ledgers
    PROVE  report.before[l] = NetIn(books, {l}, Early..(report.from - 1))
<1> DEFINE dates == Early..(report.from - 1)
<1>1. PICK n \in 0..Len(books) :
          /\ report.before = Before(Seen(n), ledgers, report.from)
          /\ \A i \in DOMAIN books : i > n => books[i].date \in report.dates
      BY AtLastIs
<1>2. report.from \in Int
      BY AtLastIs DEF IsReport
<1>3. BooksInv /\ ArrivedInv
      BY DEF AtLast, BookedInv
<1>4. /\ AreVouchers(Seen(n)) /\ n \in Nat /\ 1..n \subseteq DOMAIN books
      /\ Len(books) \in Nat /\ DOMAIN books = 1..Len(books)
      BY <1>3, SeenIs, VouchersAre
<1>5. \A i \in DOMAIN books : books[i].date \in dates => i \in 1..n
  <2> SUFFICES ASSUME NEW i \in DOMAIN books, books[i].date \in dates, i > n
               PROVE  FALSE
      BY <1>4
  <2>1. books[i].date \in report.dates
        BY <1>1
  <2>2. books[i].date < report.from
        BY <1>2 DEF Early
  <2> QED  BY <2>1, <2>2 DEF Disturbed
<1>6. EntriesOf(Seen(n), {l}, dates) = EntriesOf(books, {l}, dates)
  <2> DEFINE A == {l}
  <2>1. DOMAIN books \subseteq Nat
        BY <1>4
  <2> HIDE DEF A, dates
  <2>2. EntriesOf(Seen(n), A, dates) = EntriesOf(books, A, dates)
        BY <1>4, <1>5, <2>1, NetOfPrefix DEF Seen
  <2> QED  BY <2>2 DEF A
<1>7. report.before[l] = NetIn(Seen(n), {l}, dates)
  <2>1. report.listed = ledgers /\ From(report) = report.from
        BY AtLastIs
  <2>2. report.before = Before(Seen(n), report.listed, From(report))
        BY <1>1, <2>1
  <2>3. BookedInv /\ Running /\ IsReport(report) /\ ListInv /\ report.step = "sums"
        BY AtLastIs DEF AtLast
  <2>4. \A x \in DOMAIN report.listed :
            report.before[x] = NetIn(Seen(n), {x}, Early..(From(report) - 1))
        BY <2>2, <2>3, SumsAre
  <2> QED  BY <2>1, <2>4
<1> QED  BY <1>6, <1>7 DEF NetIn

\* The lines of an undisturbed report are the balances of its day.
LEMMA BalancesAre ==
    ASSUME AtLast, ~Disturbed(report), report.kind # "profit"
    PROVE  LET lines == LinesRead(report) IN
           /\ AreBalances(lines)
           /\ DOMAIN lines = DOMAIN ledgers
           /\ \A l \in DOMAIN ledgers :
                 /\ lines[l].nature = ledgers[l].nature
                 /\ lines[l].class = ledgers[l].class
                 /\ lines[l].opening = BalanceOn(l, report.from - 1)
                 /\ ClosingNet(lines[l]) = BalanceOn(l, report.to)
                 /\ BalanceOn(l, report.to) \in Int
                 /\ Closing(lines)[l] = BalanceOn(l, report.to)
                 /\ BalanceOn(l, report.to) = BalanceOn(l, report.from - 1)
                                                + NetIn(books, {l}, report.from..report.to)
<1> DEFINE lines == LinesRead(report)
           base == [l \in DOMAIN ledgers |-> ledgers[l].opening + report.before[l]]
<1>1. /\ AreAccounts(ledgers) /\ AreVouchers(books)
      /\ \A l \in DOMAIN ledgers : report.before[l] \in Int
      BY AtLastIs
<1>2. lines = LedgerLines(ledgers, report.before, books, report.from, report.to, TRUE)
      BY AtLastIs
<1>3. base = [l \in DOMAIN ledgers |->
                 IF TRUE THEN ledgers[l].opening + report.before[l] ELSE 0]
      OBVIOUS
<1>4. /\ report.from \in Int /\ report.to \in Int
      /\ Epoch <= report.from /\ report.from <= report.to
      BY AtLastIs DEF IsReport
<1> HIDE DEF lines, base
<1>5. /\ LinesOn(lines, ledgers, books, base, report.from, report.to)
      /\ AreBalances(lines)
  <2> DEFINE b == [l \in DOMAIN ledgers |->
                      IF TRUE THEN ledgers[l].opening + report.before[l] ELSE 0]
             m == LedgerLines(ledgers, report.before, books, report.from, report.to, TRUE)
  <2>1. LinesOn(m, ledgers, books, b, report.from, report.to) /\ AreBalances(m)
        BY <1>1, LinesAre
  <2> HIDE DEF b, m
  <2>2. lines = m
        BY <1>2 DEF m
  <2>3. base = b
        BY <1>3 DEF b
  <2> QED  BY <2>1, <2>2, <2>3
<1>6. ASSUME NEW l \in DOMAIN ledgers
      PROVE  /\ lines[l].nature = ledgers[l].nature
             /\ lines[l].class = ledgers[l].class
             /\ lines[l].opening = BalanceOn(l, report.from - 1)
             /\ ClosingNet(lines[l]) = BalanceOn(l, report.to)
             /\ BalanceOn(l, report.to) \in Int
             /\ Closing(lines)[l] = BalanceOn(l, report.to)
             /\ BalanceOn(l, report.to) = BalanceOn(l, report.from - 1)
                                            + NetIn(books, {l}, report.from..report.to)
  <2> DEFINE A == {l}
             D == Early..(report.from - 1)
             E == report.from..report.to
             F == Early..report.to
             x == NetIn(books, A, D)
             y == NetIn(books, A, E)
             z == NetIn(books, A, F)
             o == ledgers[l].opening
  <2>1. /\ lines[l].nature = ledgers[l].nature
        /\ lines[l].class = ledgers[l].class
        /\ lines[l].opening = base[l]
        /\ ClosingNet(lines[l]) = base[l] + y
        /\ ClosingNet(lines[l]) \in Int
        BY <1>5 DEF LinesOn
  <2>2. base[l] = o + x
        BY UndisturbedBefore DEF base
  <2>3. D \cap E = {} /\ F = D \cup E
        BY <1>4 DEF Early, Epoch
  <2>4. o \in Int
        BY <1>1 DEF AreAccounts
  <2>5. /\ BalanceOn(l, report.from - 1) = o + x
        /\ BalanceOn(l, report.to) = o + z
        BY DEF BalanceOn, NetOf, NetIn
  <2>6. /\ l \in DOMAIN lines /\ Closing(lines)[l] = ClosingNet(lines[l])
        BY <1>5 DEF LinesOn, Closing
  <2> HIDE DEF A, D, E, F, o
  <2>7. z = x + y
    <3>1. NetIn(books, A, D \cup E) = NetIn(books, A, D) + NetIn(books, A, E)
          BY <1>1, <2>3, NetOfBoth
    <3> QED  BY <2>3, <3>1
  <2>8. x \in Int /\ y \in Int
        BY <1>1, NetInIs
  <2>9. NetIn(books, {l}, report.from..report.to) = y
        BY DEF A, E
  <2> HIDE DEF x, y, z
  <2> QED  BY <2>1, <2>2, <2>4, <2>5, <2>6, <2>7, <2>8, <2>9
<1> QED  BY <1>5, <1>6 DEF LinesOn, lines

\* The figures of each kind.
LEMMA AnswerIs ==
    ASSUME AtLast
    PROVE  LET lines == LinesRead(report) IN
           /\ report.kind = "trial" => Answer = TrialBalance(lines)
           /\ report.kind = "profit" => Answer = ProfitAndLoss(lines)
           /\ report.kind = "sheet" => Answer = BalanceSheet(lines, report.profit)
           /\ report.kind = "outstanding" => Answer = Outstanding(lines, report.of)
           /\ report.kind = "statement" =>
                 Answer = Statement(lines[report.of].opening, books, report.of,
                                    report.from, report.to)
  BY DEF Answer, Figures

\* An outstanding balance is shown when it is positive.
LEMMA OutstandingIs ==
    ASSUME NEW lines, AreBalances(lines), NEW kind, NEW l \in DOMAIN lines,
           lines[l].class = kind
    PROVE  Shown(Outstanding(lines, kind), l)
             = Positive(IF kind = "receivable" THEN ClosingNet(lines[l])
                                               ELSE -ClosingNet(lines[l]))
<1> DEFINE Balance(line) == IF kind = "receivable" THEN DebitBalance(line)
                                                   ELSE CreditBalance(line)
           rows == {x \in DOMAIN lines : lines[x].class = kind /\ Balance(lines[x]) > 0}
           f == Outstanding(lines, kind)
<1>1. DOMAIN f = rows /\ \A x \in rows : f[x] = Balance(lines[x])
      BY DEF Outstanding
<1>2. Balance(lines[l]) = Positive(IF kind = "receivable" THEN ClosingNet(lines[l])
                                                          ELSE -ClosingNet(lines[l]))
      BY DEF DebitBalance, CreditBalance
<1>3. ClosingNet(lines[l]) \in Int
      BY DEF AreBalances
<1>4. Balance(lines[l]) \in Int /\ Balance(lines[l]) >= 0
      BY <1>2, <1>3 DEF Positive
<1>5. (l \in rows) = (Balance(lines[l]) > 0)
      OBVIOUS
<1> HIDE DEF f, rows, Balance
<1>6. CASE l \in rows
      BY <1>1, <1>2, <1>6 DEF Shown, f
<1>7. CASE l \notin rows
  <2>1. Balance(lines[l]) = 0
        BY <1>4, <1>5, <1>7
  <2>2. Shown(f, l) = 0
        BY <1>1, <1>7 DEF Shown
  <2> QED  BY <1>2, <2>1, <2>2 DEF f
<1> QED  BY <1>6, <1>7

\* A trial balance, a balance sheet and the outstanding balances show the balances of
\* their day.
LEMMA BalancesAreTold ==
    ASSUME AtLast, ~Disturbed(report)
    PROVE  /\ report.kind = "trial" =>
                 \A l \in DOMAIN ledgers :
                     Shown(Answer.debits, l) - Shown(Answer.credits, l)
                       = BalanceOn(l, report.to)
           /\ report.kind = "sheet" =>
                 \A l \in DOMAIN ledgers \ Nominal :
                     Shown(Answer.assets, l) - Shown(Answer.liabilities, l)
                       = BalanceOn(l, report.to)
           /\ report.kind = "outstanding" =>
                 \A l \in DOMAIN ledgers : ledgers[l].class = report.of =>
                     Shown(Answer, l) = Positive(IF report.of = "receivable"
                                                 THEN BalanceOn(l, report.to)
                                                 ELSE -BalanceOn(l, report.to))
<1> SUFFICES ASSUME report.kind # "profit"
             PROVE  /\ report.kind = "trial" =>
                          \A l \in DOMAIN ledgers :
                              Shown(Answer.debits, l) - Shown(Answer.credits, l)
                                = BalanceOn(l, report.to)
                    /\ report.kind = "sheet" =>
                          \A l \in DOMAIN ledgers \ Nominal :
                              Shown(Answer.assets, l) - Shown(Answer.liabilities, l)
                                = BalanceOn(l, report.to)
                    /\ report.kind = "outstanding" =>
                          \A l \in DOMAIN ledgers : ledgers[l].class = report.of =>
                              Shown(Answer, l) = Positive(IF report.of = "receivable"
                                                          THEN BalanceOn(l, report.to)
                                                          ELSE -BalanceOn(l, report.to))
    OBVIOUS
<1> DEFINE lines == LinesRead(report)
<1>1. /\ AreBalances(lines)
      /\ DOMAIN lines = DOMAIN ledgers
      /\ \A l \in DOMAIN ledgers :
            /\ lines[l].nature = ledgers[l].nature
            /\ lines[l].class = ledgers[l].class
            /\ ClosingNet(lines[l]) = BalanceOn(l, report.to)
            /\ Closing(lines)[l] = BalanceOn(l, report.to)
      BY BalancesAre
<1>2. /\ report.kind = "trial" => Answer = TrialBalance(lines)
      /\ report.kind = "sheet" => Answer = BalanceSheet(lines, report.profit)
      /\ report.kind = "outstanding" => Answer = Outstanding(lines, report.of)
      BY AnswerIs
<1> HIDE DEF lines
<1>3. ASSUME report.kind = "trial", NEW l \in DOMAIN ledgers
      PROVE  Shown(Answer.debits, l) - Shown(Answer.credits, l) = BalanceOn(l, report.to)
  <2>1. \A x \in DOMAIN lines : Shown(TrialBalance(lines).debits, x)
                                  - Shown(TrialBalance(lines).credits, x)
                                  = Closing(lines)[x]
        BY <1>1, TrialIs
  <2> QED  BY <1>1, <1>2, <1>3, <2>1
<1>4. ASSUME report.kind = "sheet", NEW l \in DOMAIN ledgers \ Nominal
      PROVE  Shown(Answer.assets, l) - Shown(Answer.liabilities, l)
               = BalanceOn(l, report.to)
  <2>1. l \in OfNatures(lines, {"asset", "liability"})
        BY <1>1 DEF OfNatures, Nominal, AreBalances, Natures
  <2>2. \A x \in OfNatures(lines, {"asset", "liability"}) :
            Shown(BalanceSheet(lines, report.profit).assets, x)
              - Shown(BalanceSheet(lines, report.profit).liabilities, x)
              = Closing(lines)[x]
        BY <1>1, SheetIs
  <2> QED  BY <1>1, <1>2, <1>4, <2>1, <2>2
<1>5. ASSUME report.kind = "outstanding", NEW l \in DOMAIN ledgers,
             ledgers[l].class = report.of
      PROVE  Shown(Answer, l) = Positive(IF report.of = "receivable"
                                         THEN BalanceOn(l, report.to)
                                         ELSE -BalanceOn(l, report.to))
  <2>1. l \in DOMAIN lines /\ lines[l].class = report.of
        BY <1>1, <1>5
  <2>2. Shown(Outstanding(lines, report.of), l)
          = Positive(IF report.of = "receivable" THEN ClosingNet(lines[l])
                                                 ELSE -ClosingNet(lines[l]))
        BY <1>1, <2>1, OutstandingIs
  <2> QED  BY <1>1, <1>2, <1>5, <2>2
<1> QED  BY <1>3, <1>4, <1>5

\* A statement goes from the balance before its period to the one at its end.
LEMMA StatementIsTold ==
    ASSUME AtLast, ~Disturbed(report), report.kind = "statement"
    PROVE  /\ Answer.opening = BalanceOn(report.of, report.from - 1)
           /\ Answer.closing = BalanceOn(report.of, report.to)
<1> DEFINE l == report.of
           lines == LinesRead(report)
           dates == report.from..report.to
<1>1. l \in DOMAIN ledgers
      BY AtLastIs DEF IsReport
<1>2. /\ lines[l].opening = BalanceOn(l, report.from - 1)
      /\ BalanceOn(l, report.to) = BalanceOn(l, report.from - 1) + NetIn(books, {l}, dates)
      BY <1>1, BalancesAre
<1>3. Answer = Statement(lines[l].opening, books, l, report.from, report.to)
      BY AnswerIs
<1>4. /\ Answer.opening = lines[l].opening
      /\ Answer.closing = lines[l].opening + Net(EntriesOf(books, {l}, dates))
      BY <1>3 DEF Statement, LedgerStatement
<1> QED  BY <1>2, <1>4 DEF NetIn

\* A profit is what the income and expense ledgers gained in its period.
LEMMA ProfitIsTold ==
    ASSUME AtLast, ~Disturbed(report)
    PROVE  /\ report.kind = "profit" =>
                 Answer.netProfit = -NetOf(Nominal, report.from..report.to)
           /\ report.kind = "sheet" =>
                 Answer.netProfit = -NetOf(Nominal, report.year..report.to)
<1>1. Nominal = NominalOf(ledgers)
      BY DEF Nominal, NominalOf
<1>2. ASSUME report.kind = "profit"
      PROVE  Answer.netProfit = -NetOf(Nominal, report.from..report.to)
  <2> DEFINE net == NetIn(books, NominalOf(ledgers), report.from..report.to)
             lines == LedgerLines(ledgers, report.before, books, report.from,
                                  report.to, FALSE)
  <2>1. LinesRead(report) = lines
    <3>1. (report.kind # "profit") = FALSE
          BY <1>2
    <3> QED  BY <3>1, AtLastIs
  <2>2. /\ AreAccounts(ledgers) /\ AreVouchers(books)
        /\ \A l \in DOMAIN ledgers : report.before[l] \in Int
        BY AtLastIs
  <2>3. ProfitAndLoss(lines).netProfit = -net /\ net \in Int
        BY <2>2, ProfitOf
  <2>4. Answer = ProfitAndLoss(lines)
        BY <1>2, <2>1, AnswerIs
  <2> HIDE DEF lines
  <2> QED  BY <1>1, <2>3, <2>4 DEF NetOf, NetIn
<1>3. ASSUME report.kind = "sheet"
      PROVE  Answer.netProfit = -NetOf(Nominal, report.year..report.to)
  <2>1. Answer = BalanceSheet(LinesRead(report), report.profit)
        BY <1>3, AnswerIs
  <2>2. Answer.netProfit = report.profit
        BY <2>1 DEF BalanceSheet
  <2>3. report.dates = {} /\ ~report.ledgerMade
        BY <1>3 DEF Disturbed
  <2>4. ProfitInv /\ Running /\ ~report.first
        BY AtLastIs
  <2> QED  BY <1>3, <2>2, <2>3, <2>4 DEF ProfitInv
<1> QED  BY <1>2, <1>3

\* A report that is not disturbed tells the books as they are when it completes, for
\* every chart of accounts, every voucher and every order of the commits between its
\* SELECTs.
THEOREM ReportsAgree == Spec => []ReportsAreOfOneMoment
<1>1. BookedInv /\ ReportInv => ReportsAreOfOneMoment
  <2> SUFFICES ASSUME BookedInv, ReportInv, Completing, ~Disturbed(report)
               PROVE  ReportsAreOfOneMoment
      BY DEF ReportsAreOfOneMoment
  <2>1. AtLast
        BY DEF AtLast, Disturbed
  <2>2. report.kind \in Kinds
        BY <2>1, AtLastIs DEF IsReport
  <2>3. CASE report.kind = "trial"
        BY <2>1, <2>3, BalancesAreTold DEF ReportsAreOfOneMoment
  <2>4. CASE report.kind = "sheet"
        BY <2>1, <2>4, BalancesAreTold, ProfitIsTold DEF ReportsAreOfOneMoment
  <2>5. CASE report.kind = "profit"
        BY <2>1, <2>5, ProfitIsTold DEF ReportsAreOfOneMoment
  <2>6. CASE report.kind = "outstanding"
        BY <2>1, <2>6, BalancesAreTold DEF ReportsAreOfOneMoment
  <2>7. CASE report.kind = "statement"
        BY <2>1, <2>7, StatementIsTold DEF ReportsAreOfOneMoment
  <2> QED  BY <2>2, <2>3, <2>4, <2>5, <2>6, <2>7 DEF Kinds
<1> QED  BY <1>1, InvAlways, PTL

-----------------------------------------------------------------------------
(* How far a report may be from tying. *)

\* What each voucher is out of balance.
Nets == [i \in DOMAIN books |-> Net(books[i].entries)]

Slacks == [i \in DOMAIN books |->
              2 * Tolerance + Cardinality(DOMAIN books[i].entries)]

\* Whatever vouchers are taken, they are out by no more than the slack of all.
LEMMA WithinSlack ==
    ASSUME BookedInv, NEW part \in SUBSET DOMAIN books
    PROVE  LET t == Total(Nets, part) IN
           t \in Int /\ Slack \in Int /\ -Slack <= 2 * t /\ 2 * t <= Slack
<1> DEFINE S == DOMAIN books
           h == [i \in S |-> IF i \in part THEN Nets[i] + Nets[i] ELSE 0]
           t == Total(Nets, part)
<1>1. /\ IsFiniteSet(S)
      /\ \A i \in S : /\ Nets[i] \in Int /\ Slacks[i] \in Int
                      /\ -Slacks[i] <= 2 * Nets[i] /\ 2 * Nets[i] <= Slacks[i]
      BY VouchersAre DEF BookedInv, AreVouchers, Nets, Slacks
<1>2. /\ DOMAIN Slacks = S
      /\ Slack = SumFunction(Slacks)
      BY DEF Slack, Slacks
<1>3. Slack = Total(Slacks, S)
      BY <1>1, <1>2, SumIs
<1>4. /\ \A i \in part : h[i] = Nets[i] + Nets[i]
      /\ \A i \in S \ part : h[i] = 0
      /\ \A i \in S : h[i] = IF i \in part THEN Nets[i] + Nets[i] ELSE 0
      OBVIOUS
<1> HIDE DEF h, S
<1>5. part \in SUBSET S /\ IsFiniteSet(part)
      BY <1>1, FS_Subset DEF S
<1>6. \A i \in S : /\ h[i] \in Int /\ Slacks[i] \in Int
                   /\ -Slacks[i] <= h[i] /\ h[i] <= Slacks[i]
      BY <1>1, <1>4
<1>7. -Total(Slacks, S) <= Total(h, S) /\ Total(h, S) <= Total(Slacks, S)
      BY <1>1, <1>6, TotalWithin
<1>8. Total(h, part) = Total(h, S)
      BY <1>1, <1>4, <1>5, <1>6, TotalWithoutZeros
<1>9. \A i \in part : Nets[i] \in Int /\ h[i] = Nets[i] + Nets[i]
      BY <1>1, <1>4, <1>5
<1>10. Total(h, part) = t + t
      BY <1>5, <1>9, TotalPlus
<1>11. t \in Int
      BY <1>5, <1>9, TotalInt
<1>12. Total(Slacks, S) \in Int
  <2>1. S \in SUBSET S /\ \A i \in S : Slacks[i] \in Int
        BY <1>1
  <2> QED  BY <1>1, <2>1, TotalInt
<1> HIDE DEF t
<1>13. t \in Int /\ Slack \in Int /\ -Slack <= 2 * t /\ 2 * t <= Slack
      BY <1>3, <1>7, <1>8, <1>10, <1>11, <1>12
<1> QED  BY <1>13 DEF t

\* Every entry is of a ledger there is: a voucher adds what it is out of balance to
\* all the ledgers together.
LEMMA NetOfAll ==
    ASSUME BookedInv, NEW vouchers, AreVouchers(vouchers),
           DOMAIN vouchers \subseteq DOMAIN books,
           \A i \in DOMAIN vouchers : vouchers[i] = books[i],
           NEW dates, NEW part, part = {i \in DOMAIN vouchers : books[i].date \in dates}
    PROVE  NetIn(vouchers, DOMAIN ledgers, dates) = Total(Nets, part)
<1> DEFINE all == DOMAIN ledgers
<1>1. part = {i \in DOMAIN vouchers : vouchers[i].date \in dates}
      OBVIOUS
<1>2. ASSUME NEW i \in part
      PROVE  Nets[i] = Total(Values(vouchers[i].entries), EntriesIn(vouchers[i], all))
  <2>1. /\ i \in DOMAIN vouchers /\ i \in DOMAIN books
        /\ vouchers[i] = books[i] /\ IsVoucher(books[i])
        BY DEF BookedInv, BooksInv
  <2>2. EntriesIn(vouchers[i], all) = DOMAIN vouchers[i].entries
        BY <2>1 DEF EntriesIn, IsVoucher
  <2>3. AreEntries(vouchers[i].entries)
        BY <2>1 DEF AreVouchers
  <2>4. Net(vouchers[i].entries)
          = Total(Values(vouchers[i].entries), DOMAIN vouchers[i].entries)
        BY <2>3, NetIs
  <2>5. Nets[i] = Net(vouchers[i].entries)
        BY <2>1 DEF Nets
  <2> QED  BY <2>2, <2>4, <2>5
<1> HIDE DEF all
<1>3. NetIn(vouchers, all, dates) = Total(Nets, part)
      BY <1>1, <1>2, NetOfPart
<1> QED  BY <1>3 DEF all

OpeningOf == [l \in DOMAIN ledgers |-> ledgers[l].opening]

\* The opening balances of the ledgers.
LEMMA OpeningsAre ==
    ASSUME BookedInv
    PROVE  /\ IsFiniteSet(DOMAIN ledgers)
           /\ \A l \in DOMAIN ledgers : OpeningOf[l] \in Int
           /\ Openings = Total(OpeningOf, DOMAIN ledgers)
           /\ Openings \in Int
<1>1. /\ IsFiniteSet(DOMAIN ledgers)
      /\ \A l \in DOMAIN ledgers : OpeningOf[l] \in Int
      BY DEF BookedInv, LedgersInv, AreAccounts, OpeningOf
<1>2. DOMAIN OpeningOf = DOMAIN ledgers /\ Openings = SumFunction(OpeningOf)
      BY DEF OpeningOf, Openings
<1>3. Openings = Total(OpeningOf, DOMAIN ledgers)
      BY <1>1, <1>2, SumIs
<1>4. DOMAIN ledgers \in SUBSET DOMAIN ledgers
      OBVIOUS
<1>5. Total(OpeningOf, DOMAIN ledgers) \in Int
      BY <1>1, <1>4, TotalInt
<1> QED  BY <1>1, <1>3, <1>5

\* Two amounts that differ by what some vouchers are out of balance.
LEMMA NearEnough ==
    ASSUME BookedInv, NEW part \in SUBSET DOMAIN books, NEW x, NEW y \in Int,
           x = y + Total(Nets, part)
    PROVE  2 * Distance(x, y) <= Slack
<1> DEFINE t == Total(Nets, part)
<1>1. t \in Int /\ Slack \in Int /\ -Slack <= 2 * t /\ 2 * t <= Slack
      BY WithinSlack
<1>2. x = y + t
      OBVIOUS
<1> HIDE DEF t
<1> QED  BY <1>1, <1>2 DEF Distance

\* A trial balance adds up the vouchers that were there for its first sum and dated
\* before its period, and those of its period that were there for the second.
LEMMA TrialTies ==
    ASSUME AtLast, report.kind = "trial"
    PROVE  2 * Distance(Answer.totalDebit - Answer.totalCredit, Openings) <= Slack
<1> DEFINE all == DOMAIN ledgers
           lines == LinesRead(report)
           from == report.from
           dates == from..report.to
           early == Early..(from - 1)
           base == [l \in DOMAIN ledgers |->
                       IF TRUE THEN ledgers[l].opening + report.before[l] ELSE 0]
<1>1. /\ AreAccounts(ledgers) /\ AreVouchers(books)
      /\ \A l \in DOMAIN ledgers : report.before[l] \in Int
      BY AtLastIs
<1>2. lines = LedgerLines(ledgers, report.before, books, report.from, report.to, TRUE)
  <2>1. (report.kind # "profit") = TRUE
        OBVIOUS
  <2> QED  BY <2>1, AtLastIs
<1>3. /\ LinesOn(lines, ledgers, books, base, report.from, report.to)
      /\ AreBalances(lines)
      /\ \A l \in DOMAIN ledgers : base[l] \in Int
  <2> DEFINE m == LedgerLines(ledgers, report.before, books, report.from, report.to, TRUE)
  <2>1. /\ LinesOn(m, ledgers, books, base, report.from, report.to) /\ AreBalances(m)
        /\ \A l \in DOMAIN ledgers : base[l] \in Int
        BY <1>1, LinesAre
  <2> HIDE DEF base, lines, m
  <2>2. lines = m
        BY <1>2 DEF m
  <2> QED  BY <2>1, <2>2
<1>4. DOMAIN lines = all
      BY <1>3 DEF LinesOn
<1>5. PICK n \in 0..Len(books) :
          report.before = Before(Seen(n), report.listed, From(report))
      BY AtLastIs
<1>6. /\ AreVouchers(Seen(n)) /\ from \in Int
      /\ \A l \in all : report.before[l] = NetIn(Seen(n), {l}, early)
  <2>1. report.listed = ledgers /\ From(report) = report.from
        BY AtLastIs
  <2>2. BookedInv /\ Running /\ IsReport(report) /\ ListInv /\ report.step = "sums"
        BY AtLastIs DEF AtLast
  <2>3. /\ AreVouchers(Seen(n)) /\ From(report) \in Int
        /\ \A l \in DOMAIN report.listed :
              report.before[l] = NetIn(Seen(n), {l}, Early..(From(report) - 1))
        BY <1>5, <2>2, SumsAre
  <2> QED  BY <2>1, <2>3
<1>7. BookedInv
      BY DEF AtLast
<1>8. \A l \in all : base[l] = OpeningOf[l] + report.before[l]
      BY DEF OpeningOf
<1> HIDE DEF lines, base
<1>9. Answer.totalDebit - Answer.totalCredit = Total(Closing(lines), all)
  <2>1. TrialBalance(lines).totalDebit - TrialBalance(lines).totalCredit
          = Total(Closing(lines), DOMAIN lines)
        BY <1>3, TrialIs
  <2>2. Answer = TrialBalance(lines)
        BY AnswerIs DEF lines
  <2> QED  BY <1>4, <2>1, <2>2
<1>10. Total(Closing(lines), all) = Total(base, all) + NetIn(books, all, dates)
  <2>1. all \in SUBSET DOMAIN ledgers
        OBVIOUS
  <2> HIDE DEF all
  <2> QED  BY <1>1, <1>3, <2>1, ClosingOf
<1>11. Total(base, all) = Openings + NetIn(Seen(n), all, early)
  <2>1. /\ IsFiniteSet(all) /\ \A l \in all : OpeningOf[l] \in Int
        /\ Openings = Total(OpeningOf, all)
        BY <1>7, OpeningsAre
  <2>2. \A l \in all : /\ OpeningOf[l] \in Int /\ report.before[l] \in Int
                       /\ base[l] = OpeningOf[l] + report.before[l]
        BY <1>1, <1>8, <2>1
  <2> HIDE DEF all, early
  <2>3. Total(base, all) = Total(OpeningOf, all) + Total(report.before, all)
        BY <2>1, <2>2, TotalPlus
  <2>4. Total(report.before, all) = NetIn(Seen(n), all, early)
        BY <1>6, <2>1, NetByLedger
  <2> QED  BY <2>1, <2>3, <2>4
<1> DEFINE seen == {i \in 1..n : books[i].date \in early}
           late == {i \in DOMAIN books : books[i].date \in dates}
<1>12. /\ DOMAIN Seen(n) = 1..n /\ 1..n \subseteq DOMAIN books
       /\ \A i \in 1..n : Seen(n)[i] = books[i]
  <2>1. Len(books) \in Nat /\ DOMAIN books = 1..Len(books)
        BY <1>7, VouchersAre DEF BookedInv
  <2> QED  BY <2>1 DEF Seen, Restrict
<1>13. NetIn(Seen(n), all, early) = Total(Nets, seen)
  <2>1. seen = {i \in DOMAIN Seen(n) : books[i].date \in early}
        BY <1>12
  <2> HIDE DEF seen, early
  <2> QED  BY <1>6, <1>7, <1>12, <2>1, NetOfAll
<1>14. NetIn(books, all, dates) = Total(Nets, late)
  <2>1. late = {i \in DOMAIN books : books[i].date \in dates}
        OBVIOUS
  <2> HIDE DEF late, dates
  <2> QED  BY <1>1, <1>7, <2>1, NetOfAll
<1>15. seen \in SUBSET DOMAIN books /\ late \in SUBSET DOMAIN books
      BY <1>12
<1>16. seen \cap late = {}
      BY <1>6
<1> HIDE DEF seen, late, all, dates, early
<1>17. Total(Nets, seen \cup late) = Total(Nets, seen) + Total(Nets, late)
  <2>1. IsFiniteSet(DOMAIN books) /\ \A i \in DOMAIN books : Nets[i] \in Int
        BY <1>1, <1>7, VouchersAre DEF BookedInv, AreVouchers, Nets
  <2> QED  BY <1>15, <1>16, <2>1, TotalUnion
<1>18. Total(Nets, seen) \in Int /\ Total(Nets, late) \in Int
      BY <1>7, <1>15, WithinSlack
<1>19. Openings \in Int
      BY <1>7, OpeningsAre
<1> DEFINE x == Answer.totalDebit - Answer.totalCredit
           part == seen \cup late
<1>20. part \in SUBSET DOMAIN books
      BY <1>15
<1>21. x = Openings + Total(Nets, part)
      BY <1>9, <1>10, <1>11, <1>13, <1>14, <1>17, <1>18, <1>19
<1> HIDE DEF x, part
<1>22. 2 * Distance(x, Openings) <= Slack
      BY <1>7, <1>19, <1>20, <1>21, NearEnough
<1> QED  BY <1>22 DEF x

\* A balance sheet that nothing was written during adds up the openings and the
\* entries of its own ledgers, and the profit that the others gained this year.
LEMMA SheetTies ==
    ASSUME AtLast, report.kind = "sheet", report.dates = {}
    PROVE  2 * Distance(Answer.totalAssets - Answer.totalLiabilities,
                        Openings + OtherYears(report)) <= Slack
<1> DEFINE all == DOMAIN ledgers
           own == {l \in DOMAIN ledgers : ledgers[l].nature \in {"asset", "liability"}}
           lines == LinesRead(report)
           dates == Early..report.to
           year == report.year..report.to
           others == dates \ year
           m == [l \in all |-> NetIn(books, {l}, dates)]
           o == OpeningOf
           c == Closing(lines)
           nominalOpenings == [l \in Nominal |-> ledgers[l].opening]
           part == {i \in DOMAIN books : books[i].date \in dates}
           x == Answer.totalAssets - Answer.totalLiabilities
           y == Openings + OtherYears(report)
<1>1. /\ BookedInv /\ AreAccounts(ledgers) /\ AreVouchers(books)
      /\ Running /\ ~report.first /\ ~report.ledgerMade /\ ProfitInv
      BY AtLastIs DEF AtLast
<1>2. ~Disturbed(report)
      BY <1>1 DEF Disturbed
<1>3. /\ AreBalances(lines) /\ DOMAIN lines = all
      /\ \A l \in all : /\ lines[l].nature = ledgers[l].nature
                        /\ c[l] = BalanceOn(l, report.to)
      BY <1>2, BalancesAre
<1>4. own = OfNatures(lines, {"asset", "liability"})
      BY <1>3 DEF OfNatures
<1>5. /\ own \in SUBSET all /\ Nominal \in SUBSET all /\ all \in SUBSET all
      /\ own \cap Nominal = {} /\ own \cup Nominal = all
      BY <1>1 DEF Nominal, AreAccounts, Natures
<1>6. dates = year \cup others /\ year \cap others = {}
  <2>1. report.year \in Int /\ Early <= report.year /\ report.to \in Int
        BY AtLastIs DEF IsReport
  <2> QED  BY <2>1 DEF Early
<1>7. \A l \in all : m[l] = NetIn(books, {l}, dates)
      OBVIOUS
<1>8. \A l \in all : c[l] = o[l] + m[l]
  <2> SUFFICES ASSUME NEW l \in all
               PROVE  c[l] = o[l] + m[l]
      OBVIOUS
  <2>1. c[l] = BalanceOn(l, report.to)
        BY <1>3
  <2>2. BalanceOn(l, report.to) = ledgers[l].opening + NetIn(books, {l}, dates)
        BY DEF BalanceOn, NetOf, NetIn
  <2> QED  BY <2>1, <2>2 DEF OpeningOf
<1>9. OtherYears(report) = -(SumFunction(nominalOpenings) + NetIn(books, Nominal, others))
      BY DEF OtherYears, NetOf, NetIn
<1>10. /\ Answer = BalanceSheet(lines, report.profit)
       /\ report.profit = -NetIn(books, Nominal, year)
  <2>1. report.profit = -NetOf(Nominal, report.year..report.to)
        BY <1>1 DEF ProfitInv
  <2> QED  BY <2>1, AnswerIs DEF NetOf, NetIn
<1>11. /\ IsFiniteSet(all) /\ \A l \in all : o[l] \in Int
       /\ Openings = Total(o, all) /\ Openings \in Int
       BY <1>1, OpeningsAre
<1>12. SumFunction(nominalOpenings) = Total(o, Nominal)
  <2>1. DOMAIN nominalOpenings = Nominal /\ IsFiniteSet(Nominal)
        BY <1>5, <1>11, FS_Subset
  <2>2. \A l \in Nominal : nominalOpenings[l] = o[l]
        BY <1>5 DEF OpeningOf
  <2> HIDE DEF nominalOpenings, o
  <2>3. SumFunction(nominalOpenings) = Total(nominalOpenings, DOMAIN nominalOpenings)
        BY <2>1, SumIs
  <2>4. Total(nominalOpenings, Nominal) = Total(o, Nominal)
        BY <2>1, <2>2, TotalSame
  <2> QED  BY <2>1, <2>3, <2>4
<1>13. part \in SUBSET DOMAIN books /\ part = {i \in DOMAIN books : books[i].date \in dates}
       OBVIOUS
<1> HIDE DEF all, own, lines, dates, year, others, m, o, c, nominalOpenings, part
<1>14. \A l \in all : m[l] \in Int
  <2>1. ASSUME NEW l
        PROVE  NetIn(books, {l}, dates) \in Int
    <3> DEFINE some == {l}
    <3> HIDE DEF some
    <3>1. NetIn(books, some, dates) \in Int
          BY <1>1, NetInIs
    <3> QED  BY <3>1 DEF some
  <2> QED  BY <1>7, <2>1
<1>15. \A l \in all : c[l] \in Int
       BY <1>8, <1>11, <1>14
<1>16. IsFiniteSet(own) /\ IsFiniteSet(Nominal)
       BY <1>5, <1>11, FS_Subset
<1>17. /\ Total(o, own) \in Int /\ Total(o, Nominal) \in Int
       /\ Total(m, own) \in Int /\ Total(m, Nominal) \in Int
       BY <1>5, <1>11, <1>14, TotalInt
<1>18. Total(c, own) = Total(o, own) + Total(m, own)
       BY <1>5, <1>8, <1>11, <1>14, <1>16, TotalPlus
<1>19. /\ Total(o, all) = Total(o, own) + Total(o, Nominal)
       /\ Total(m, all) = Total(m, own) + Total(m, Nominal)
  <2>1. Total(o, own \cup Nominal) = Total(o, own) + Total(o, Nominal)
        BY <1>5, <1>11, TotalUnion
  <2>2. Total(m, own \cup Nominal) = Total(m, own) + Total(m, Nominal)
        BY <1>5, <1>11, <1>14, TotalUnion
  <2> QED  BY <1>5, <2>1, <2>2
<1>20. /\ Total(m, all) = NetIn(books, all, dates)
       /\ Total(m, Nominal) = NetIn(books, Nominal, dates)
  <2>1. \A l \in Nominal : m[l] = NetIn(books, {l}, dates)
        BY <1>5, <1>7
  <2>2. Total(m, Nominal) = NetIn(books, Nominal, dates)
        BY <1>1, <1>16, <2>1, NetByLedger
  <2>3. Total(m, all) = NetIn(books, all, dates)
        BY <1>1, <1>7, <1>11, NetByLedger
  <2> QED  BY <2>2, <2>3
<1>21. NetIn(books, Nominal, dates)
         = NetIn(books, Nominal, year) + NetIn(books, Nominal, others)
  <2>1. NetIn(books, Nominal, year \cup others)
          = NetIn(books, Nominal, year) + NetIn(books, Nominal, others)
        BY <1>1, <1>6, NetOfBoth
  <2> QED  BY <1>6, <2>1
<1>22. NetIn(books, Nominal, year) \in Int /\ NetIn(books, Nominal, others) \in Int
       BY <1>1, NetInIs
<1>23. NetIn(books, all, dates) = Total(Nets, part)
  <2>1. NetIn(books, DOMAIN ledgers, dates) = Total(Nets, part)
        BY <1>1, <1>13, NetOfAll
  <2> QED  BY <2>1 DEF all
<1>24. x = Total(c, own) - report.profit
  <2>1. report.profit \in Int
        BY <1>10, <1>22
  <2>2. BalanceSheet(lines, report.profit).totalAssets
          - BalanceSheet(lines, report.profit).totalLiabilities
          = Total(Closing(lines), OfNatures(lines, {"asset", "liability"}))
              - report.profit
        BY <1>3, <2>1, SheetIs
  <2> QED  BY <1>4, <1>10, <2>2 DEF c
<1> DEFINE t == Total(Nets, part)
           p == Total(o, own)
           q == Total(o, Nominal)
           u == Total(m, own)
           v == NetIn(books, Nominal, year)
           w == NetIn(books, Nominal, others)
<1>25. /\ p \in Int /\ q \in Int /\ u \in Int /\ v \in Int /\ w \in Int
       BY <1>17, <1>22
<1>26. /\ Openings = p + q /\ OtherYears(report) = -(q + w)
       /\ report.profit = -v /\ Total(c, own) = p + u
       BY <1>9, <1>10, <1>11, <1>12, <1>18, <1>19
<1>27. t = u + (v + w)
       BY <1>19, <1>20, <1>21, <1>23
<1> HIDE DEF t, p, q, u, v, w
<1>28. x = y + t /\ y \in Int
  <2>1. x = (p + u) - (-v)
        BY <1>24, <1>26
  <2>2. y = (p + q) + (-(q + w))
        BY <1>26
  <2> HIDE DEF x, y
  <2> QED  BY <1>25, <1>27, <2>1, <2>2
<1> HIDE DEF x, y
<1>29. 2 * Distance(x, y) <= Slack
  <2>1. x = y + Total(Nets, part)
        BY <1>28 DEF t
  <2> QED  BY <1>1, <1>13, <1>28, <2>1, NearEnough
<1> QED  BY <1>29 DEF x, y

\* A trial balance ties as far as the openings and the vouchers do, whatever is posted
\* while it is made; a balance sheet during which nothing is written ties but for the
\* profit of the other years.
THEOREM ReportsNearlyTie == Spec => []ReportsTie
<1>1. BookedInv /\ ReportInv => ReportsTie
  <2> SUFFICES ASSUME BookedInv, ReportInv, Completing, ~report.ledgerMade
               PROVE  ReportsTie
      BY DEF ReportsTie
  <2>1. AtLast
        BY DEF AtLast
  <2>2. report.kind = "trial" =>
            2 * Distance(Answer.totalDebit - Answer.totalCredit, Openings) <= Slack
        BY <2>1, TrialTies
  <2>3. report.kind = "sheet" /\ report.dates = {} =>
            2 * Distance(Answer.totalAssets - Answer.totalLiabilities,
                         Openings + OtherYears(report)) <= Slack
        BY <2>1, SheetTies
  <2> QED  BY <2>2, <2>3 DEF ReportsTie
<1> QED  BY <1>1, InvAlways, PTL
-----------------------------------------------------------------------------
(* The calculator. *)

\* Two halves that are rounded up differ from the whole by the smallest amount.
LEMMA TwoHalves ==
    ASSUME NEW n \in Nat
    PROVE  /\ RoundHalfUp(n, 200000) \in Nat /\ RoundHalfUp(n, 100000) \in Nat
           /\ 2 * RoundHalfUp(n, 200000) <= RoundHalfUp(n, 100000) + 1
           /\ RoundHalfUp(n, 100000) <= 2 * RoundHalfUp(n, 200000) + 1
BY DEF RoundHalfUp

\* CGST and SGST of an invoice within a state are the IGST it would have between two,
\* up to a paisa for each line, whatever the values and the rates of its lines.
THEOREM HalvesAreTheTax ==
    ASSUME NEW items, IsFiniteSet(DOMAIN items),
           \A i \in DOMAIN items : /\ items[i].taxable \in Nat /\ items[i].rate \in Nat
                                   /\ items[i].cessRate \in Nat
    PROVE  LET within == InvoiceTotal(LineItems(items, "intra_state"))
               between == InvoiceTotal(LineItems(items, "inter_state")) IN
           Distance(within["cgst"] + within["sgst"], between["igst"])
             <= Cardinality(DOMAIN items)
<1> DEFINE S == DOMAIN items
           half == [i \in S |-> RoundHalfUp(items[i].taxable * items[i].rate, 200000)]
           whole == [i \in S |-> RoundHalfUp(items[i].taxable * items[i].rate, 100000)]
           both == [i \in S |-> half[i] + half[i]]
           d == [i \in S |-> both[i] - whole[i]]
           one == [i \in S |-> 1]
           within == InvoiceTotal(LineItems(items, "intra_state"))
           between == InvoiceTotal(LineItems(items, "inter_state"))
<1>1. /\ within["cgst"] = SumFunction(half) /\ within["sgst"] = SumFunction(half)
      /\ between["igst"] = SumFunction(whole)
  <2>1. /\ DOMAIN LineItems(items, "intra_state") = S
        /\ DOMAIN LineItems(items, "inter_state") = S
        /\ \A i \in S : /\ LineItems(items, "intra_state")[i]["cgst"] = half[i]
                        /\ LineItems(items, "intra_state")[i]["sgst"] = half[i]
                        /\ LineItems(items, "inter_state")[i]["igst"] = whole[i]
        BY DEF LineItems, Calculation, Tax
  <2> DEFINE a == LineItems(items, "intra_state")
             b == LineItems(items, "inter_state")
  <2>2. /\ within["cgst"] = SumFunction([i \in DOMAIN a |-> a[i]["cgst"]])
        /\ within["sgst"] = SumFunction([i \in DOMAIN a |-> a[i]["sgst"]])
        /\ between["igst"] = SumFunction([i \in DOMAIN b |-> b[i]["igst"]])
        BY DEF InvoiceTotal
  <2>3. /\ [i \in DOMAIN a |-> a[i]["cgst"]] = half
        /\ [i \in DOMAIN a |-> a[i]["sgst"]] = half
        /\ [i \in DOMAIN b |-> b[i]["igst"]] = whole
        BY <2>1
  <2> QED  BY <2>2, <2>3
<1>2. ASSUME NEW i \in S
      PROVE  /\ half[i] \in Int /\ whole[i] \in Int
             /\ -1 <= both[i] - whole[i] /\ both[i] - whole[i] <= 1
  <2> DEFINE n == items[i].taxable * items[i].rate
  <2>1. n \in Nat
    <3>1. \A x, y \in Nat : x * y \in Nat
          OBVIOUS
    <3> QED  BY <3>1
  <2> HIDE DEF n
  <2>2. /\ RoundHalfUp(n, 200000) \in Nat /\ RoundHalfUp(n, 100000) \in Nat
        /\ 2 * RoundHalfUp(n, 200000) <= RoundHalfUp(n, 100000) + 1
        /\ RoundHalfUp(n, 100000) <= 2 * RoundHalfUp(n, 200000) + 1
        BY <2>1, TwoHalves
  <2>3. half[i] = RoundHalfUp(n, 200000) /\ whole[i] = RoundHalfUp(n, 100000)
        BY DEF n
  <2>4. both[i] = half[i] + half[i]
        OBVIOUS
  <2> HIDE DEF half, whole, both
  <2> QED  BY <2>2, <2>3, <2>4
<1>3. /\ IsFiniteSet(S) /\ S \in SUBSET S
      /\ \A i \in S : both[i] = half[i] + half[i] /\ d[i] = both[i] - whole[i]
      /\ \A i \in S : one[i] = IF i \in S THEN 1 ELSE 0
      /\ DOMAIN half = S /\ DOMAIN whole = S
      OBVIOUS
<1> HIDE DEF S, half, whole, both, d, one, within, between
<1>4. SumFunction(half) = Total(half, S) /\ SumFunction(whole) = Total(whole, S)
      BY <1>3, SumIs
<1>5. \A i \in S : /\ half[i] \in Int /\ whole[i] \in Int /\ both[i] \in Int
                   /\ d[i] \in Int /\ one[i] \in Int
                   /\ -one[i] <= d[i] /\ d[i] <= one[i]
      BY <1>2, <1>3
<1>6. Total(both, S) = Total(half, S) + Total(half, S)
      BY <1>3, <1>5, TotalPlus
<1>7. Total(d, S) = Total(both, S) - Total(whole, S)
      BY <1>3, <1>5, TotalMinus
<1>8. -Total(one, S) <= Total(d, S) /\ Total(d, S) <= Total(one, S)
      BY <1>3, <1>5, TotalWithin
<1>9. Total(one, S) = Cardinality(S)
  <2>1. \A i \in S : one[i] = 1
        BY <1>3
  <2> QED  BY <1>3, <2>1, TotalOnes
<1>10. Total(half, S) \in Int /\ Total(whole, S) \in Int
       BY <1>3, <1>5, TotalInt
<1>11. Cardinality(S) \in Int
       BY <1>3, FS_CardinalityType
<1>12. Distance(within["cgst"] + within["sgst"], between["igst"]) <= Cardinality(S)
  <2> DEFINE h == Total(half, S)
             w == Total(whole, S)
             c == Cardinality(S)
  <2>1. within["cgst"] + within["sgst"] = h + h /\ between["igst"] = w
        BY <1>1, <1>4
  <2>2. h \in Int /\ w \in Int /\ c \in Int /\ -c <= (h + h) - w /\ (h + h) - w <= c
        BY <1>6, <1>7, <1>8, <1>9, <1>10, <1>11
  <2> HIDE DEF h, w, c
  <2>3. Distance(h + h, w) <= c
        BY <2>2 DEF Distance
  <2> QED  BY <2>1, <2>3 DEF c
<1> QED  BY <1>12 DEF S, within, between
=============================================================================
