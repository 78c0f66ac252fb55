------------------------------ MODULE Folding ------------------------------
(***************************************************************************)
(* Induction where the theorems of the library cannot be instantiated: a   *)
(* set of naturals has a least element, so a statement about all finite    *)
(* sets follows from its smallest counterexample.  From it, that a fold    *)
(* over a finite set exists, what a sum over one is, and what is left of a *)
(* list that is filtered.                                                  *)
(***************************************************************************)
EXTENDS Lists, FiniteSetTheorems, WellFoundedInduction, TLAPS

\* A nonempty set of naturals has a least element.
LEMMA LeastNat ==
  ASSUME NEW S \in SUBSET Nat, S # {}
  PROVE \E x \in S : \A y \in S : x <= y
<1> DEFINE R == OpToRel(<, Nat)
<1>1. \E x \in S : \A y \in S : ~ (<<y, x>> \in R)
  <2> HIDE DEF R
  <2>1. IsWellFoundedOn(R, Nat)
    BY NatLessThanWellFounded DEF R
  <2> QED BY <2>1, WFMin
<1>2. PICK x \in S : \A y \in S : ~ (<<y, x>> \in R)
  BY <1>1
<1>3. ASSUME NEW y \in S PROVE x <= y
  <2>1. <<y, x>> \in R <=> y < x
    BY DEF OpToRel
  <2>2. ~ (y < x)
    BY <1>2, <2>1
  <2> QED BY <2>2
<1> QED BY <1>3

\* A bounded one has a greatest element.
LEMMA GreatestNat ==
  ASSUME NEW S \in SUBSET Nat, S # {}, NEW n \in Nat, \A x \in S : x <= n
  PROVE /\ Max(S) \in S
        /\ \A y \in S : Max(S) >= y
<1> DEFINE U == {u \in Nat : \A x \in S : x <= u}
<1>1. PICK m \in U : \A u \in U : m <= u
  BY LeastNat
<1>2. m \in S
  <2>1. SUFFICES ASSUME m \notin S PROVE FALSE
    OBVIOUS
  <2>2. \A x \in S : x < m
    BY <1>1, <2>1, SMT
  <2>3. m - 1 \in U
    <3>1. PICK x \in S : TRUE
      OBVIOUS
    <3>2. m \in Nat /\ x \in Nat /\ x < m
      BY <2>2, <3>1
    <3>3. \A y \in S : y \in Nat /\ y <= m - 1
      BY <2>2, <3>2
    <3> QED BY <3>2, <3>3
  <2> QED BY <1>1, <2>3
<1>3. \E x \in S : \A y \in S : x >= y
  BY <1>1, <1>2, SMT
<1> QED BY <1>3 DEF Max

\* A set of naturals that holds zero and every successor of its elements is
\* the set of all of them.
LEMMA AllNat ==
  ASSUME NEW G, 0 \in G, \A n \in Nat : n \in G => n + 1 \in G
  PROVE Nat \subseteq G
<1> DEFINE Bad == Nat \ G
<1> SUFFICES ASSUME Bad # {} PROVE FALSE
  OBVIOUS
<1>1. Bad \in SUBSET Nat
  OBVIOUS
<1>2. PICK n \in Bad : \A m \in Bad : n <= m
  BY <1>1, LeastNat
<1>3. n \in Nat /\ n \notin G /\ n # 0
  BY <1>2
<1>4. n - 1 \in Nat /\ n - 1 \notin Bad
  BY <1>2, <1>3
<1>5. n - 1 \in G
  BY <1>4
<1> QED BY <1>3, <1>4, <1>5

-----------------------------------------------------------------------------
\* A step for every subset of S, and an element to take out of it.
IsFolder(S, T, F, c) ==
  F \in [SUBSET S -> [T -> T]] /\ \A s \in SUBSET S : s # {} => c[s] \in s
HasFold(S, T, base, F, c) ==
  \E g \in [SUBSET S -> T] :
    \A s \in SUBSET S : g[s] = IF s = {} THEN base ELSE F[s][g[s \ {c[s]}]]

\* A function on the subsets of a finite set may be given for each by its value
\* at the set with one element less.
LEMMA FoldExists ==
  ASSUME NEW S, IsFiniteSet(S), NEW T, NEW base \in T, NEW F, NEW c, IsFolder(S, T, F, c)
  PROVE HasFold(S, T, base, F, c)
<1>i. F \in [SUBSET S -> [T -> T]] /\ \A s \in SUBSET S : s # {} => c[s] \in s
  BY DEF IsFolder
<1> DEFINE Sub(n) == {s \in SUBSET S : Cardinality(s) <= n}
           Folds(g, n) == \A s \in Sub(n) : g[s] = IF s = {} THEN base ELSE F[s][g[s \ {c[s]}]]
           G == {n \in Nat : \E g \in [Sub(n) -> T] : Folds(g, n)}
<1>0. \A s \in SUBSET S : IsFiniteSet(s) /\ Cardinality(s) \in Nat
  BY FS_Subset, FS_CardinalityType
<1>1. 0 \in G
  <2> DEFINE g == [s \in Sub(0) |-> base]
  <2>1. \A s \in Sub(0) : s = {}
    BY <1>0, FS_EmptySet
  <2>2. g \in [Sub(0) -> T] /\ Folds(g, 0)
    BY <2>1
  <2> QED BY <2>2
<1>2. ASSUME NEW n \in Nat, n \in G PROVE n + 1 \in G
  <2>1. PICK g \in [Sub(n) -> T] : Folds(g, n)
    BY <1>2
  <2> DEFINE h == [s \in Sub(n + 1) |->
                     IF s = {} THEN base ELSE F[s][g[s \ {c[s]}]]]
  <2>2. ASSUME NEW s \in Sub(n + 1), s # {}
        PROVE s \ {c[s]} \in Sub(n)
    <3>1. c[s] \in s /\ IsFiniteSet(s) /\ Cardinality(s) \in Nat
      BY <1>0, <1>i, <2>2
    <3>2. Cardinality(s \ {c[s]}) = Cardinality(s) - 1
      <4> DEFINE x == c[s]
      <4> HIDE DEF x
      <4>1. x \in s => Cardinality(s \ {x}) = Cardinality(s) - 1
        BY <3>1, FS_RemoveElement
      <4> QED BY <3>1, <4>1 DEF x
    <3> QED BY <2>2, <3>1, <3>2
  <2>3. h \in [Sub(n + 1) -> T]
    <3>1. ASSUME NEW s \in Sub(n + 1) PROVE h[s] \in T
      <4>1. CASE s = {}
        BY <4>1
      <4>2. CASE s # {}
        <5>1. g[s \ {c[s]}] \in T
          BY <2>1, <2>2, <4>2
        <5>2. F[s] \in [T -> T]
          BY <1>i
        <5> QED BY <4>2, <5>1, <5>2
      <4> QED BY <4>1, <4>2
    <3> QED BY <3>1
  <2>4. \A s \in Sub(n) : s \in Sub(n + 1) /\ h[s] = g[s]
    BY <1>0, <2>1
  <2>5. Folds(h, n + 1)
    <3> SUFFICES ASSUME NEW s \in Sub(n + 1)
                 PROVE h[s] = IF s = {} THEN base ELSE F[s][h[s \ {c[s]}]]
      OBVIOUS
    <3>1. CASE s = {}
      BY <3>1
    <3>2. CASE s # {}
      <4>1. h[s \ {c[s]}] = g[s \ {c[s]}]
        BY <2>2, <2>4, <3>2
      <4>2. h[s] = F[s][g[s \ {c[s]}]]
        BY <3>2
      <4> QED BY <3>2, <4>1, <4>2
    <3> QED BY <3>1, <3>2
  <2> HIDE DEF h, Sub, Folds
  <2> QED BY <2>3, <2>5
<1>3. Nat \subseteq G
  <2> HIDE DEF G
  <2> QED BY <1>1, <1>2, AllNat
<1>4. Cardinality(S) \in G
  BY <1>0, <1>3
<1>5. Sub(Cardinality(S)) = SUBSET S
  <2>1. \A s \in SUBSET S : Cardinality(s) <= Cardinality(S)
    BY FS_Subset
  <2> QED BY <2>1
<1>6. PICK g \in [Sub(Cardinality(S)) -> T] : Folds(g, Cardinality(S))
  BY <1>4
<1> QED BY <1>5, <1>6 DEF HasFold

-----------------------------------------------------------------------------
\* What FoldFunctionOnSet computes for a sum.
Sums(g, f, S) ==
  \A s \in SUBSET S :
    g[s] = IF s = {} THEN 0
           ELSE f[CHOOSE x \in s : TRUE] + g[s \ {CHOOSE x \in s : TRUE}]

LEMMA SumsExist ==
  ASSUME NEW S, IsFiniteSet(S), NEW f, \A x \in S : f[x] \in Int
  PROVE \E g \in [SUBSET S -> Int] : Sums(g, f, S)
<1> DEFINE c == [s \in SUBSET S |-> CHOOSE x \in s : TRUE]
           F == [s \in SUBSET S |-> [v \in Int |-> IF s = {} THEN v ELSE f[c[s]] + v]]
<1>1. \A s \in SUBSET S : s # {} => c[s] \in s
  OBVIOUS
<1>2. F \in [SUBSET S -> [Int -> Int]]
  BY <1>1
<1>3. HasFold(S, Int, 0, F, c)
  <2>1. IsFolder(S, Int, F, c)
    BY <1>1, <1>2 DEF IsFolder
  <2> HIDE DEF c, F
  <2> QED BY <2>1, FoldExists
<1>4. PICK g \in [SUBSET S -> Int] :
        \A s \in SUBSET S : g[s] = IF s = {} THEN 0 ELSE F[s][g[s \ {c[s]}]]
  <2> HIDE DEF c, F
  <2> QED BY <1>3 DEF HasFold
<1>5. ASSUME NEW s \in SUBSET S, s # {}
      PROVE g[s] = f[c[s]] + g[s \ {c[s]}]
  <2>1. g[s \ {c[s]}] \in Int
    OBVIOUS
  <2> QED BY <1>4, <1>5, <2>1
<1>6. \A s \in SUBSET S : s = {} => g[s] = 0
  BY <1>4
<1> QED BY <1>5, <1>6 DEF Sums

\* A sum does not depend on what it is part of.
LEMMA SumsAgree ==
  ASSUME NEW S, IsFiniteSet(S), NEW T, NEW f, NEW e, NEW g, NEW h,
         S \subseteq T, Sums(g, f, S), Sums(h, e, T), \A x \in S : f[x] = e[x]
  PROVE g[S] = h[S]
<1> DEFINE G == {n \in Nat : \A s \in SUBSET S : Cardinality(s) = n => g[s] = h[s]}
<1>0. \A s \in SUBSET S : IsFiniteSet(s) /\ Cardinality(s) \in Nat
  BY FS_Subset, FS_CardinalityType
<1>1. 0 \in G
  <2>1. \A s \in SUBSET S : Cardinality(s) = 0 => s = {}
    BY <1>0, FS_EmptySet
  <2> QED BY <2>1 DEF Sums
<1>2. ASSUME NEW n \in Nat, n \in G PROVE n + 1 \in G
  <2> SUFFICES ASSUME NEW s \in SUBSET S, Cardinality(s) = n + 1
               PROVE g[s] = h[s]
    OBVIOUS
  <2> DEFINE x == CHOOSE x \in s : TRUE
  <2>1. s # {} /\ x \in s
    BY <1>0, FS_EmptySet
  <2> HIDE DEF x
  <2>2. Cardinality(s \ {x}) = n
    <3>1. IsFiniteSet(s) /\ x \in s
      BY <1>0, <2>1
    <3>2. Cardinality(s \ {x}) = Cardinality(s) - 1
      BY <3>1, FS_RemoveElement
    <3> QED BY <3>2
  <2>3. g[s \ {x}] = h[s \ {x}]
    BY <1>2, <2>2
  <2>4. g[s] = f[x] + g[s \ {x}]
    BY <2>1 DEF Sums, x
  <2>5. h[s] = e[x] + h[s \ {x}]
    BY <2>1 DEF Sums, x
  <2> QED BY <2>1, <2>3, <2>4, <2>5
<1>3. Nat \subseteq G
  <2> HIDE DEF G
  <2> QED BY <1>1, <1>2, AllNat
<1>4. S \in SUBSET S /\ Cardinality(S) \in G
  BY <1>0, <1>3
<1> QED BY <1>4

\* SumFunctionOnSet is such a sum.
LEMMA SumIsOne ==
  ASSUME NEW S, IsFiniteSet(S), NEW f, \A x \in S : f[x] \in Int
  PROVE \E g \in [SUBSET S -> Int] : Sums(g, f, S) /\ SumFunctionOnSet(f, S) = g[S]
<1> DEFINE Step(i) == [s \in SUBSET S |->
                         IF s = {} THEN 0
                         ELSE f[CHOOSE x \in s : TRUE] + i[s \ {CHOOSE x \in s : TRUE}]]
           iter == CHOOSE i : i = Step(i)
<1>1. PICK g \in [SUBSET S -> Int] : Sums(g, f, S)
  BY SumsExist
<1>2. g = Step(g)
  BY <1>1 DEF Sums
<1>3. iter = Step(iter)
  BY <1>2
<1>4. SumFunctionOnSet(f, S) = iter[S]
  BY DEF SumFunctionOnSet, FoldFunctionOnSet, MapThenFoldSet
<1>5. Sums(iter, f, S)
  <2> HIDE DEF iter
  <2>1. \A s \in SUBSET S : iter[s] = Step(iter)[s]
    BY <1>3
  <2> QED BY <2>1 DEF Sums
<1> HIDE DEF iter
<1>6. iter[S] = g[S]
  BY <1>1, <1>5, SumsAgree
<1> QED BY <1>1, <1>4, <1>6

\* A sum is an integer.
LEMMA SumType ==
  ASSUME NEW S, IsFiniteSet(S), NEW f, \A x \in S : f[x] \in Int
  PROVE SumFunctionOnSet(f, S) \in Int
<1>1. PICK g \in [SUBSET S -> Int] : Sums(g, f, S) /\ SumFunctionOnSet(f, S) = g[S]
  BY SumIsOne
<1> QED BY <1>1

\* The sum over nothing.
LEMMA SumEmpty ==
  ASSUME NEW f
  PROVE SumFunctionOnSet(f, {}) = 0
<1>1. IsFiniteSet({})
  BY FS_EmptySet
<1>2. PICK g \in [SUBSET {} -> Int] : Sums(g, f, {}) /\ SumFunctionOnSet(f, {}) = g[{}]
  BY <1>1, SumIsOne
<1> QED BY <1>2 DEF Sums

\* Functions that agree on a set have the same sum over it.
LEMMA SumEqual ==
  ASSUME NEW S, IsFiniteSet(S), NEW f, NEW e, \A x \in S : f[x] \in Int /\ f[x] = e[x]
  PROVE SumFunctionOnSet(f, S) = SumFunctionOnSet(e, S)
<1>1. PICK g \in [SUBSET S -> Int] : Sums(g, f, S) /\ SumFunctionOnSet(f, S) = g[S]
  BY SumIsOne
<1>2. PICK h \in [SUBSET S -> Int] : Sums(h, e, S) /\ SumFunctionOnSet(e, S) = h[S]
  BY SumIsOne
<1> QED BY <1>1, <1>2, SumsAgree

\* Any element may be the one added last.
LEMMA SumRemove ==
  ASSUME NEW S, IsFiniteSet(S), NEW f, \A x \in S : f[x] \in Int, NEW y \in S
  PROVE SumFunctionOnSet(f, S) = f[y] + SumFunctionOnSet(f, S \ {y})
<1>1. PICK g \in [SUBSET S -> Int] : Sums(g, f, S) /\ SumFunctionOnSet(f, S) = g[S]
  BY SumIsOne
<1> DEFINE G == {n \in Nat : \A s \in SUBSET S : Cardinality(s) = n =>
                              \A z \in s : g[s] = f[z] + g[s \ {z}]}
<1>0. \A s \in SUBSET S : IsFiniteSet(s) /\ Cardinality(s) \in Nat
  BY FS_Subset, FS_CardinalityType
<1>2. 0 \in G
  <2>1. \A s \in SUBSET S : Cardinality(s) = 0 => s = {}
    BY <1>0, FS_EmptySet
  <2> QED BY <2>1
<1>3. ASSUME NEW n \in Nat, n \in G PROVE n + 1 \in G
  <2> SUFFICES ASSUME NEW s \in SUBSET S, Cardinality(s) = n + 1, NEW z \in s
               PROVE g[s] = f[z] + g[s \ {z}]
    OBVIOUS
  <2> DEFINE x == CHOOSE x \in s : TRUE
  <2>1. x \in s
    OBVIOUS
  <2>2. g[s] = f[x] + g[s \ {x}]
    BY <1>1 DEF Sums
  <2> HIDE DEF x
  <2>3. CASE x = z
    BY <2>2, <2>3
  <2>4. CASE x # z
    <3>1. IsFiniteSet(s)
      BY <1>0
    <3>2. Cardinality(s \ {x}) = Cardinality(s) - 1 /\ Cardinality(s \ {z}) = Cardinality(s) - 1
      BY <2>1, <3>1, FS_RemoveElement
    <3>3. z \in s \ {x} /\ x \in s \ {z}
      BY <2>1, <2>4
    <3>4. g[s \ {x}] = f[z] + g[(s \ {x}) \ {z}]
      BY <1>3, <3>2, <3>3
    <3>5. g[s \ {z}] = f[x] + g[(s \ {z}) \ {x}]
      <4> DEFINE r == s \ {z}
      <4>1. r \in SUBSET S /\ Cardinality(r) = n /\ x \in r
        BY <3>2, <3>3
      <4> HIDE DEF r
      <4>2. g[r] = f[x] + g[r \ {x}]
        BY <1>3, <4>1
      <4> QED BY <4>2 DEF r
    <3>6. (s \ {x}) \ {z} = (s \ {z}) \ {x} /\ (s \ {z}) \ {x} \in SUBSET S
      OBVIOUS
    <3>7. f[x] \in Int /\ f[z] \in Int /\ g[(s \ {z}) \ {x}] \in Int
      BY <2>1, <3>6
    <3>8. g[s \ {x}] = f[z] + g[(s \ {z}) \ {x}]
      BY <3>4, <3>6
    <3> QED BY <2>2, <3>5, <3>7, <3>8
  <2> QED BY <2>3, <2>4
<1>4. Nat \subseteq G
  <2> HIDE DEF G
  <2> QED BY <1>2, <1>3, AllNat
<1>5. g[S] = f[y] + g[S \ {y}]
  BY <1>0, <1>4
<1>6. SumFunctionOnSet(f, S \ {y}) = g[S \ {y}]
  <2>1. IsFiniteSet(S \ {y}) /\ S \ {y} \subseteq S
    BY <1>0
  <2> DEFINE R == S \ {y}
  <2> HIDE DEF R
  <2>2. IsFiniteSet(R) /\ R \subseteq S
    BY <2>1 DEF R
  <2>3. PICK h \in [SUBSET R -> Int] : Sums(h, f, R) /\ SumFunctionOnSet(f, R) = h[R]
    BY <2>2, SumIsOne
  <2>4. h[R] = g[R]
    BY <1>1, <2>2, <2>3, SumsAgree
  <2> QED BY <2>3, <2>4 DEF R
<1> QED BY <1>1, <1>5, <1>6

\* A sum over a set with one more element.
LEMMA SumAdd ==
  ASSUME NEW S, IsFiniteSet(S), NEW f, \A x \in S : f[x] \in Int,
         NEW y, y \notin S, f[y] \in Int
  PROVE SumFunctionOnSet(f, S \cup {y}) = f[y] + SumFunctionOnSet(f, S)
<1> DEFINE R == S \cup {y}
<1>1. (S \cup {y}) \ {y} = S
  OBVIOUS
<1>2. IsFiniteSet(S \cup {y})
  BY FS_AddElement
<1>3. y \in S \cup {y} /\ \A x \in S \cup {y} : f[x] \in Int
  OBVIOUS
<1> HIDE DEF R
<1>4. IsFiniteSet(R) /\ y \in R /\ (\A x \in R : f[x] \in Int) /\ R \ {y} = S
  BY <1>1, <1>2, <1>3 DEF R
<1>5. SumFunctionOnSet(f, R) = f[y] + SumFunctionOnSet(f, R \ {y})
  BY <1>4, SumRemove
<1> QED BY <1>4, <1>5 DEF R

\* A sum over an interval, by its last element.
LEMMA SumUpTo ==
  ASSUME NEW a \in Int, NEW n \in Int, a <= n + 1, NEW f, \A i \in a .. n + 1 : f[i] \in Int
  PROVE SumFunctionOnSet(f, a .. n + 1) = f[n + 1] + SumFunctionOnSet(f, a .. n)
<1>1. IsFiniteSet(a .. n)
  BY FS_Interval
<1>2. a .. n + 1 = (a .. n) \cup {n + 1} /\ n + 1 \notin a .. n
  OBVIOUS
<1>3. f[n + 1] \in Int /\ \A i \in a .. n : f[i] \in Int
  BY <1>2
<1> DEFINE S == a .. n
<1>4. IsFiniteSet(S) /\ n + 1 \notin S /\ \A i \in S : f[i] \in Int
  BY <1>1, <1>2, <1>3
<1> HIDE DEF S
<1>5. SumFunctionOnSet(f, S \cup {n + 1}) = f[n + 1] + SumFunctionOnSet(f, S)
  BY <1>3, <1>4, SumAdd
<1> QED BY <1>2, <1>5 DEF S

\* A sum of naturals is one, and part of it is no larger.
LEMMA SumPart ==
  ASSUME NEW S, IsFiniteSet(S), NEW f, \A x \in S : f[x] \in Nat, NEW T \in SUBSET S
  PROVE SumFunctionOnSet(f, T) <= SumFunctionOnSet(f, S)
<1> DEFINE G == {n \in Nat : \A s \in SUBSET S : Cardinality(s) = n =>
                              SumFunctionOnSet(f, S \ s) <= SumFunctionOnSet(f, S)}
<1>0. \A s \in SUBSET S : IsFiniteSet(s) /\ Cardinality(s) \in Nat
  BY FS_Subset, FS_CardinalityType
<1>s. ASSUME NEW s \in SUBSET S PROVE SumFunctionOnSet(f, s) \in Int
  <2>1. IsFiniteSet(s) /\ \A x \in s : f[x] \in Int
    BY <1>0
  <2> QED BY <2>1, SumType
<1>1. 0 \in G
  <2>1. \A s \in SUBSET S : Cardinality(s) = 0 => S \ s = S
    BY <1>0, FS_EmptySet
  <2>2. SumFunctionOnSet(f, S) <= SumFunctionOnSet(f, S)
    BY <1>s
  <2> QED BY <2>1, <2>2
<1>2. ASSUME NEW n \in Nat, n \in G PROVE n + 1 \in G
  <2> SUFFICES ASSUME NEW s \in SUBSET S, Cardinality(s) = n + 1
               PROVE SumFunctionOnSet(f, S \ s) <= SumFunctionOnSet(f, S)
    OBVIOUS
  <2>1. PICK x : x \in s
    BY <1>0, FS_EmptySet
  <2> DEFINE r == s \ {x}
             R == S \ r
  <2>2. r \in SUBSET S /\ Cardinality(r) = n
    <3>1. IsFiniteSet(s) /\ x \in s
      BY <1>0, <2>1
    <3>2. Cardinality(s \ {x}) = Cardinality(s) - 1
      BY <3>1, FS_RemoveElement
    <3> QED BY <3>2
  <2>3. R \in SUBSET S /\ x \in R /\ S \ s = R \ {x}
    BY <2>1
  <2> HIDE DEF r
  <2>4. SumFunctionOnSet(f, R) <= SumFunctionOnSet(f, S)
    BY <1>2, <2>2
  <2> HIDE DEF R
  <2>5. SumFunctionOnSet(f, R) = f[x] + SumFunctionOnSet(f, R \ {x})
    BY <1>0, <2>3, SumRemove
  <2>6. R \ {x} \in SUBSET S /\ f[x] \in Nat
    BY <2>3
  <2> QED BY <1>s, <2>3, <2>4, <2>5, <2>6
<1>3. Nat \subseteq G
  <2> HIDE DEF G
  <2> QED BY <1>1, <1>2, AllNat
<1>4. SumFunctionOnSet(f, S \ (S \ T)) <= SumFunctionOnSet(f, S)
  BY <1>0, <1>3
<1>5. S \ (S \ T) = T
  OBVIOUS
<1> QED BY <1>4, <1>5

-----------------------------------------------------------------------------
\* The greatest index of a prefix is its last.
LEMMA MaxOfPrefix ==
  ASSUME NEW n \in Nat, n # 0
  PROVE Max(1 .. n) = n /\ (1 .. n) \ {n} = 1 .. n - 1
<1>1. \A x \in 1 .. n : (\A y \in 1 .. n : x >= y) <=> x = n
  BY SMT
<1>2. (1 .. n) \ {n} = 1 .. n - 1
  BY SMT
<1> QED BY <1>1, <1>2 DEF Max

\* What FoldLeft computes, with the step given by a function.
IsStep(n, T, F) == F \in [1 .. n -> [T -> T]]
HasLeftFold(n, T, base, F) ==
  \E g \in [SUBSET (1 .. n) -> T] :
    \A s \in SUBSET (1 .. n) :
      g[s] = IF s = {} THEN base ELSE F[Max(s)][g[s \ {Max(s)}]]

LEMMA FoldLeftExists ==
  ASSUME NEW n \in Nat, NEW T, NEW base \in T, NEW F, IsStep(n, T, F)
  PROVE HasLeftFold(n, T, base, F)
<1>0. F \in [1 .. n -> [T -> T]]
  BY DEF IsStep
<1> DEFINE S == 1 .. n
           c == [s \in SUBSET S |-> Max(s)]
           H == [s \in SUBSET S |-> IF s = {} THEN [v \in T |-> v] ELSE F[Max(s)]]
<1>1. \A s \in SUBSET S : s # {} => Max(s) \in s
  <2> SUFFICES ASSUME NEW s \in SUBSET S, s # {} PROVE Max(s) \in s
    OBVIOUS
  <2>1. s \in SUBSET Nat /\ \A x \in s : x <= n
    OBVIOUS
  <2> QED BY <2>1, GreatestNat
<1>2. IsFolder(S, T, H, c)
  <2>1. ASSUME NEW s \in SUBSET S PROVE H[s] \in [T -> T]
    <3>1. CASE s = {}
      BY <3>1
    <3>2. CASE s # {}
      <4>1. Max(s) \in 1 .. n
        BY <1>1, <3>2
      <4> QED BY <1>0, <3>2, <4>1
    <3> QED BY <3>1, <3>2
  <2>2. H \in [SUBSET S -> [T -> T]]
    BY <2>1
  <2>3. \A s \in SUBSET S : s # {} => c[s] \in s
    BY <1>1
  <2> QED BY <2>2, <2>3 DEF IsFolder
<1>3. IsFiniteSet(S)
  BY FS_Interval
<1>4. HasFold(S, T, base, H, c)
  <2> HIDE DEF S, c, H
  <2> QED BY <1>2, <1>3, FoldExists
<1>5. PICK g \in [SUBSET S -> T] :
        \A s \in SUBSET S : g[s] = IF s = {} THEN base ELSE H[s][g[s \ {c[s]}]]
  <2> HIDE DEF S, c, H
  <2> QED BY <1>4 DEF HasFold
<1>6. ASSUME NEW s \in SUBSET S
      PROVE g[s] = IF s = {} THEN base ELSE F[Max(s)][g[s \ {Max(s)}]]
  <2>1. g[s] = IF s = {} THEN base ELSE H[s][g[s \ {c[s]}]]
    BY <1>5
  <2>2. s # {} => H[s] = F[Max(s)] /\ c[s] = Max(s)
    OBVIOUS
  <2> HIDE DEF H, c
  <2> QED BY <2>1, <2>2
<1> QED BY <1>6 DEF HasLeftFold

\* A list is filtered one element after the other.
Filters(g, list, kept) ==
  /\ g[0] = <<>>
  /\ \A n \in 1 .. Len(list) :
       g[n] = IF list[n] \in kept THEN Append(g[n - 1], list[n]) ELSE g[n - 1]

LEMMA RetainSteps ==
  ASSUME NEW E, NEW list \in Seq(E), NEW kept
  PROVE \E g \in [0 .. Len(list) -> Seq(E)] :
          Filters(g, list, kept) /\ Retain(list, kept) = g[Len(list)]
<1> DEFINE len == Len(list)
           Step(i) == [s \in SUBSET (1 .. len) |->
                         IF s = {} THEN <<>>
                         ELSE IF list[Max(s)] \in kept
                                THEN Append(i[s \ {Max(s)}], list[Max(s)])
                                ELSE i[s \ {Max(s)}]]
           iter == CHOOSE i : i = Step(i)
           F == [n \in 1 .. len |-> [v \in Seq(E) |->
                   IF list[n] \in kept THEN Append(v, list[n]) ELSE v]]
<1>1. len \in Nat /\ DOMAIN list = 1 .. len /\ \A n \in 1 .. len : list[n] \in E
  OBVIOUS
<1>2. F \in [1 .. len -> [Seq(E) -> Seq(E)]]
  BY <1>1
<1>3. <<>> \in Seq(E)
  OBVIOUS
<1>4. PICK g \in [SUBSET (1 .. len) -> Seq(E)] :
        \A s \in SUBSET (1 .. len) :
          g[s] = IF s = {} THEN <<>> ELSE F[Max(s)][g[s \ {Max(s)}]]
  <2> HIDE DEF len, F
  <2>1. IsStep(len, Seq(E), F)
    BY <1>2 DEF IsStep
  <2>2. HasLeftFold(len, Seq(E), <<>>, F)
    BY <1>1, <1>3, <2>1, FoldLeftExists
  <2> QED BY <2>2 DEF HasLeftFold
<1>5. g = Step(g)
  <2>1. ASSUME NEW s \in SUBSET (1 .. len), s # {}
        PROVE F[Max(s)][g[s \ {Max(s)}]]
                = IF list[Max(s)] \in kept
                    THEN Append(g[s \ {Max(s)}], list[Max(s)])
                    ELSE g[s \ {Max(s)}]
    <3>1. Max(s) \in 1 .. len
      <4>1. s \in SUBSET Nat /\ \A x \in s : x <= len
        BY <1>1
      <4>2. Max(s) \in s
        <5> HIDE DEF len
        <5> QED BY <1>1, <2>1, <4>1, GreatestNat
      <4> QED BY <4>2
    <3>2. g[s \ {Max(s)}] \in Seq(E)
      OBVIOUS
    <3> HIDE DEF len
    <3> QED BY <3>1, <3>2
  <2> HIDE DEF F, len
  <2> QED BY <1>4, <2>1
<1>6. iter = Step(iter)
  BY <1>5
<1>7. Retain(list, kept) = iter[1 .. len]
  BY <1>1 DEF Retain, FoldLeft, MapThenFoldSet
<1> DEFINE h == [n \in 0 .. len |-> iter[1 .. n]]
<1>8. \A s \in SUBSET (1 .. len) :
        iter[s] = IF s = {} THEN <<>>
                  ELSE IF list[Max(s)] \in kept
                         THEN Append(iter[s \ {Max(s)}], list[Max(s)])
                         ELSE iter[s \ {Max(s)}]
  <2> HIDE DEF iter
  <2> QED BY <1>6
<1> HIDE DEF iter, len
<1>9. h[0] = <<>>
  <2>1. 1 .. 0 = {} /\ 0 \in 0 .. len
    BY <1>1
  <2> QED BY <1>8, <2>1
<1>10. ASSUME NEW n \in 1 .. len
       PROVE h[n] = IF list[n] \in kept THEN Append(h[n - 1], list[n]) ELSE h[n - 1]
  <2>1. n \in Nat /\ n # 0 /\ n - 1 \in 0 .. len /\ n \in 0 .. len
    BY <1>1
  <2>2. Max(1 .. n) = n /\ (1 .. n) \ {n} = 1 .. n - 1
    BY <2>1, MaxOfPrefix
  <2>3. 1 .. n \in SUBSET (1 .. len) /\ 1 .. n # {}
    <3>1. len \in Nat /\ n \in Nat /\ n <= len /\ 1 <= n
      BY <1>1, SMT
    <3>2. \A i \in 1 .. n : i \in 1 .. len
      BY <3>1, SMT
    <3>3. n \in 1 .. n
      BY <3>1, SMT
    <3> QED BY <3>2, <3>3
  <2> DEFINE s == 1 .. n
  <2> HIDE DEF s
  <2>4. iter[s] = IF list[n] \in kept
                    THEN Append(iter[s \ {n}], list[n]) ELSE iter[s \ {n}]
    BY <1>8, <2>2, <2>3 DEF s
  <2> QED BY <2>1, <2>2, <2>4 DEF s
<1>11. h \in [0 .. len -> Seq(E)]
  <2> DEFINE G == {n \in Nat : n <= len => h[n] \in Seq(E)}
  <2>1. 0 \in G
    BY <1>3, <1>9
  <2>2. ASSUME NEW n \in Nat, n \in G PROVE n + 1 \in G
    <3> SUFFICES ASSUME n + 1 <= len PROVE h[n + 1] \in Seq(E)
      OBVIOUS
    <3>1. n + 1 \in 1 .. len /\ (n + 1) - 1 = n /\ n <= len
      BY <1>1
    <3>2. h[n] \in Seq(E) /\ list[n + 1] \in E
      BY <1>1, <2>2, <3>1
    <3> HIDE DEF h
    <3>3. h[n + 1] = IF list[n + 1] \in kept THEN Append(h[n], list[n + 1]) ELSE h[n]
      BY <1>10, <3>1
    <3>4. Append(h[n], list[n + 1]) \in Seq(E)
      BY <3>2
    <3> QED BY <3>2, <3>3, <3>4
  <2>3. Nat \subseteq G
    <3> HIDE DEF G
    <3> QED BY <2>1, <2>2, AllNat
  <2>4. \A n \in 0 .. len : h[n] \in Seq(E)
    <3> HIDE DEF h
    <3> QED BY <1>1, <2>3
  <2> QED BY <2>4
<1>12. Retain(list, kept) = h[len]
  BY <1>1, <1>7
<1> HIDE DEF h
<1> QED BY <1>9, <1>10, <1>11, <1>12 DEF Filters, len

\* Nothing is lost of a list all of which passes.
LEMMA RetainAll ==
  ASSUME NEW E, NEW list \in Seq(E), NEW kept, \A i \in 1 .. Len(list) : list[i] \in kept
  PROVE Retain(list, kept) = list
<1>1. PICK g \in [0 .. Len(list) -> Seq(E)] :
        Filters(g, list, kept) /\ Retain(list, kept) = g[Len(list)]
  BY RetainSteps
<1> DEFINE G == {n \in Nat : n <= Len(list) =>
                   Len(g[n]) = n /\ \A i \in 1 .. n : g[n][i] = list[i]}
<1>2. 0 \in G
  BY <1>1 DEF Filters
<1>3. ASSUME NEW n \in Nat, n \in G PROVE n + 1 \in G
  <2> SUFFICES ASSUME n + 1 <= Len(list)
               PROVE  /\ Len(g[n + 1]) = n + 1
                      /\ \A i \in 1 .. n + 1 : g[n + 1][i] = list[i]
    OBVIOUS
  <2>1. n + 1 \in 1 .. Len(list) /\ (n + 1) - 1 = n /\ n \in 0 .. Len(list)
    OBVIOUS
  <2>2. g[n + 1] = Append(g[n], list[n + 1])
    BY <1>1, <2>1 DEF Filters
  <2>3. g[n] \in Seq(E) /\ list[n + 1] \in E /\ Len(g[n]) = n
    BY <1>3, <2>1
  <2>4. \A i \in 1 .. n : g[n][i] = list[i]
    BY <1>3, <2>1
  <2> QED BY <2>2, <2>3, <2>4
<1>4. Nat \subseteq G
  <2> HIDE DEF G
  <2> QED BY <1>2, <1>3, AllNat
<1> DEFINE r == g[Len(list)]
<1>5. Len(r) = Len(list) /\ (\A i \in 1 .. Len(list) : r[i] = list[i]) /\ r \in Seq(E)
  <2>1. Len(list) \in Nat /\ Len(list) \in 0 .. Len(list) /\ Len(list) <= Len(list)
    OBVIOUS
  <2>2. Len(list) \in G
    <3> HIDE DEF G
    <3> QED BY <1>4, <2>1
  <2> QED BY <2>1, <2>2
<1> HIDE DEF r
<1>6. r = list
  BY <1>5
<1> QED BY <1>1, <1>6 DEF r

\* What is left is as long as there are elements that pass.
LEMMA RetainCounts ==
  ASSUME NEW E, NEW list \in Seq(E), NEW kept
  PROVE  /\ Retain(list, kept) \in Seq(E)
         /\ Len(Retain(list, kept)) = Cardinality({i \in 1 .. Len(list) : list[i] \in kept})
<1>1. PICK g \in [0 .. Len(list) -> Seq(E)] :
        Filters(g, list, kept) /\ Retain(list, kept) = g[Len(list)]
  BY RetainSteps
<1> DEFINE Passing(n) == {i \in 1 .. n : list[i] \in kept}
           G == {n \in Nat : n <= Len(list) => Len(g[n]) = Cardinality(Passing(n))}
<1>2. \A n \in Nat : IsFiniteSet(Passing(n)) /\ Cardinality(Passing(n)) \in Nat
  <2> SUFFICES ASSUME NEW n \in Nat
               PROVE IsFiniteSet(Passing(n)) /\ Cardinality(Passing(n)) \in Nat
    OBVIOUS
  <2>1. IsFiniteSet(1 .. n)
    BY FS_Interval
  <2>2. Passing(n) \in SUBSET (1 .. n)
    OBVIOUS
  <2> HIDE DEF Passing
  <2> QED BY <2>1, <2>2, FS_Subset, FS_CardinalityType
<1>3. 0 \in G
  <2>1. Passing(0) = {}
    OBVIOUS
  <2>2. Len(g[0]) = 0
    BY <1>1 DEF Filters
  <2> HIDE DEF Passing
  <2> QED BY <2>1, <2>2, FS_EmptySet
<1>4. ASSUME NEW n \in Nat, n \in G PROVE n + 1 \in G
  <2> SUFFICES ASSUME n + 1 <= Len(list)
               PROVE Len(g[n + 1]) = Cardinality(Passing(n + 1))
    OBVIOUS
  <2>1. n + 1 \in 1 .. Len(list) /\ (n + 1) - 1 = n /\ n \in 0 .. Len(list)
    OBVIOUS
  <2>2. g[n + 1] = IF list[n + 1] \in kept THEN Append(g[n], list[n + 1]) ELSE g[n]
    BY <1>1, <2>1 DEF Filters
  <2>3. g[n] \in Seq(E) /\ list[n + 1] \in E /\ Len(g[n]) = Cardinality(Passing(n))
    BY <1>4, <2>1
  <2>4. CASE list[n + 1] \in kept
    <3>1. Passing(n + 1) = Passing(n) \cup {n + 1} /\ n + 1 \notin Passing(n)
      BY <2>4
    <3>2. Len(g[n + 1]) = Len(g[n]) + 1
      BY <2>2, <2>3, <2>4
    <3> HIDE DEF Passing
    <3>3. IsFiniteSet(Passing(n))
      BY <1>2
    <3>4. Cardinality(Passing(n) \cup {n + 1}) = Cardinality(Passing(n)) + 1
      BY <3>1, <3>3, FS_AddElement
    <3> QED BY <2>3, <3>1, <3>2, <3>4
  <2>5. CASE list[n + 1] \notin kept
    <3>1. Passing(n + 1) = Passing(n)
      BY <2>5
    <3> QED BY <2>2, <2>3, <2>5, <3>1
  <2> QED BY <2>4, <2>5
<1>5. Nat \subseteq G
  <2> HIDE DEF G
  <2> QED BY <1>3, <1>4, AllNat
<1>6. Len(list) \in Nat /\ Len(list) \in 0 .. Len(list) /\ Len(list) <= Len(list)
  OBVIOUS
<1>7. Len(list) \in G
  <2> HIDE DEF G
  <2> QED BY <1>5, <1>6
<1>8. g[Len(list)] \in Seq(E)
  BY <1>6
<1> QED BY <1>1, <1>6, <1>7, <1>8

\* And it begins with the first of them.
LEMMA RetainFirst ==
  ASSUME NEW E, NEW list \in Seq(E), NEW kept, NEW i \in 1 .. Len(list),
         list[i] \in kept, \A j \in 1 .. i - 1 : list[j] \notin kept
  PROVE  Retain(list, kept) # <<>> /\ Head(Retain(list, kept)) = list[i]
<1>1. PICK g \in [0 .. Len(list) -> Seq(E)] :
        Filters(g, list, kept) /\ Retain(list, kept) = g[Len(list)]
  BY RetainSteps
<1> DEFINE Begun(r) == IF r = <<>> THEN FALSE ELSE r[1] = list[i]
           G == {n \in Nat : n <= Len(list) => IF n < i THEN g[n] = <<>> ELSE Begun(g[n])}
<1>2. 0 \in G
  BY <1>1 DEF Filters
<1>3. ASSUME NEW n \in Nat, n \in G PROVE n + 1 \in G
  <2> SUFFICES ASSUME n + 1 <= Len(list)
               PROVE IF n + 1 < i THEN g[n + 1] = <<>> ELSE Begun(g[n + 1])
    OBVIOUS
  <2>1. n + 1 \in 1 .. Len(list) /\ (n + 1) - 1 = n /\ n \in 0 .. Len(list) /\ n <= Len(list)
    OBVIOUS
  <2>2. g[n + 1] = IF list[n + 1] \in kept THEN Append(g[n], list[n + 1]) ELSE g[n]
    BY <1>1, <2>1 DEF Filters
  <2>3. g[n] \in Seq(E) /\ list[n + 1] \in E
    BY <2>1
  <2>4. IF n < i THEN g[n] = <<>> ELSE Begun(g[n])
    BY <1>3, <2>1
  <2>5. CASE n + 1 < i
    <3>1. n + 1 \in 1 .. i - 1 /\ n < i
      BY <2>5
    <3>2. list[n + 1] \notin kept
      BY <3>1
    <3> QED BY <2>2, <2>4, <2>5, <3>1, <3>2
  <2>6. CASE n + 1 = i
    <3>1. n < i
      BY <2>6
    <3>2. g[n] = <<>>
      BY <2>4, <3>1
    <3>3. g[n + 1] = Append(<<>>, list[n + 1])
      BY <2>2, <2>6, <3>2
    <3>4. Len(g[n + 1]) = 1 /\ g[n + 1][1] = list[n + 1]
      BY <3>3
    <3> QED BY <2>6, <3>4
  <2>7. CASE n + 1 > i
    <3>1. ~ (n < i)
      BY <2>7
    <3>2. g[n] # <<>> /\ g[n][1] = list[i]
      BY <2>4, <3>1
    <3>3. Len(g[n]) \in Nat /\ Len(g[n]) # 0
      BY <2>3, <3>2
    <3> DEFINE r == g[n]
               s == Append(r, list[n + 1])
    <3>4. r \in Seq(E) /\ 1 \in 1 .. Len(r)
      BY <2>3, <3>3
    <3> HIDE DEF r
    <3>5. Len(s) = Len(r) + 1 /\ s[1] = r[1]
      BY <2>3, <3>4
    <3>6. s # <<>>
      BY <3>4, <3>5
    <3> HIDE DEF s
    <3>7. Begun(s)
      BY <3>2, <3>5, <3>6 DEF r
    <3>8. g[n + 1] \in {s, r} /\ Begun(r)
      BY <2>2, <3>2 DEF s, r
    <3> QED BY <2>7, <3>7, <3>8
  <2> QED BY <2>5, <2>6, <2>7
<1>4. Nat \subseteq G
  <2> HIDE DEF G
  <2> QED BY <1>2, <1>3, AllNat
<1>5. Len(list) \in Nat /\ Len(list) <= Len(list) /\ ~ (Len(list) < i)
  OBVIOUS
<1>6. Len(list) \in G
  <2> HIDE DEF G
  <2> QED BY <1>4, <1>5
<1>7. g[Len(list)] # <<>> /\ g[Len(list)][1] = list[i]
  BY <1>5, <1>6
<1>8. Head(g[Len(list)]) = g[Len(list)][1]
  <2>1. g[Len(list)] \in Seq(E)
    BY <1>5
  <2> QED BY <1>7, <2>1
<1> QED BY <1>1, <1>7, <1>8
=============================================================================
