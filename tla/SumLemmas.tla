----------------------------- MODULE SumLemmas -----------------------------
(***************************************************************************)
(* What Sum computes for sequences of any length, and SumOver for any      *)
(* finite set.  The induction is by a                                      *)
(* least counterexample: a set of naturals that is not empty has a least   *)
(* element, because < is well-founded on Nat.                              *)
(***************************************************************************)
EXTENDS Sums, TLAPS, WellFoundedInduction, FiniteSetTheorems

LEMMA LeastNat ==
  ASSUME NEW T, T \subseteq Nat, T # {}
  PROVE  \E n \in T : \A m \in T : n <= m
  <1>1. PICK n \in T : \A m \in T : ~(<<m, n>> \in OpToRel(<, Nat))
    BY WFMin, NatLessThanWellFounded, Zenon
  <1>2. \A m \in T : ~(m < n)
    BY <1>1 DEF OpToRel
  <1>. QED
    BY <1>2

(* Induction up to n, for a property given as the set of those that have it.*)
LEMMA Inductive ==
  ASSUME NEW n \in Nat, NEW T, 0 \in T,
         \A k \in 1..n : k - 1 \in T => k \in T
  PROVE  0..n \subseteq T
  <1> DEFINE Bad == (0..n) \ T
  <1>1. SUFFICES ASSUME Bad # {} PROVE FALSE
    OBVIOUS
  <1>2. Bad \subseteq Nat
    OBVIOUS
  <1>3. PICK k \in Bad : \A m \in Bad : k <= m
    BY <1>1, <1>2, LeastNat
  <1>4. k \in 1..n /\ k - 1 \in 0..n
    OBVIOUS
  <1>5. k - 1 \notin Bad
    BY <1>3, <1>4
  <1>. QED
    BY <1>4, <1>5

(***************************************************************************)
(* The function that Sum defines recursively exists and obeys its equation.*)
(***************************************************************************)
SumsOf(f, n, s) == s = [k \in 0..n |-> IF k = 0 THEN 0 ELSE s[k - 1] + f[k]]

LEMMA SumsExist ==
  ASSUME NEW f, NEW n \in Nat, \A k \in 1..n : f[k] \in Int
  PROVE  \A m \in 0..n : \E s \in [0..m -> Int] : SumsOf(f, m, s)
  <1> DEFINE T == {m \in 0..n : \E s \in [0..m -> Int] : SumsOf(f, m, s)}
  <1>1. 0 \in T
    <2> DEFINE z == [k \in 0..0 |-> 0]
    <2>1. z \in [0..0 -> Int]
      OBVIOUS
    <2>2. z = [k \in 0..0 |-> IF k = 0 THEN 0 ELSE z[k - 1] + f[k]]
      <3>1. \A k \in 0..0 : k = 0
        OBVIOUS
      <3>. QED
        BY <3>1
    <2> HIDE DEF z
    <2>. QED
      BY <2>1, <2>2 DEF SumsOf
  <1>2. ASSUME NEW m \in 1..n, m - 1 \in T PROVE m \in T
    <2>1. PICK s \in [0..(m - 1) -> Int] : SumsOf(f, m - 1, s)
      BY <1>2
    <2> DEFINE h == [k \in 0..m |-> IF k = m THEN s[m - 1] + f[m] ELSE s[k]]
    <2>2. h \in [0..m -> Int]
      OBVIOUS
    <2>3. \A k \in 0..m : h[k] = IF k = 0 THEN 0 ELSE h[k - 1] + f[k]
      BY <2>1 DEF SumsOf
    <2>4. h = [k \in 0..m |-> IF k = 0 THEN 0 ELSE h[k - 1] + f[k]]
      BY <2>3
    <2>5. SumsOf(f, m, h)
      BY <2>4, Zenon DEF SumsOf
    <2> HIDE DEF h
    <2>6. \E t \in [0..m -> Int] : SumsOf(f, m, t)
      BY <2>2, <2>5, Zenon
    <2>. QED
      BY <2>6
  <1> HIDE DEF T
  <1>3. 0..n \subseteq T
    BY <1>1, <1>2, Inductive
  <1>. QED
    BY <1>3 DEF T

LEMMA SumsAgree ==
  ASSUME NEW f, NEW n \in Nat
  PROVE  \A m \in 0..n : \A s, t : SumsOf(f, n, s) /\ SumsOf(f, m, t) =>
             \A k \in 0..m : s[k] = t[k]
  <1>. SUFFICES ASSUME NEW m \in 0..n, NEW s, NEW t, SumsOf(f, n, s), SumsOf(f, m, t)
               PROVE  \A k \in 0..m : s[k] = t[k]
    OBVIOUS
  <1> DEFINE T == {k \in 0..m : s[k] = t[k]}
  <1>1. /\ \A k \in 0..n : s[k] = IF k = 0 THEN 0 ELSE s[k - 1] + f[k]
        /\ \A k \in 0..m : t[k] = IF k = 0 THEN 0 ELSE t[k - 1] + f[k]
    BY DEF SumsOf
  <1>2. 0 \in T
    BY <1>1
  <1>3. \A k \in 1..m : k - 1 \in T => k \in T
    BY <1>1
  <1> HIDE DEF T
  <1>4. 0..m \subseteq T
    BY <1>2, <1>3, Inductive
  <1>. QED
    BY <1>4 DEF T

LEMMA SumIs ==
  ASSUME NEW f, NEW n \in Nat, \A k \in 1..n : f[k] \in Int
  PROVE  \E s \in [0..n -> Int] : SumsOf(f, n, s) /\ Sum(f, n) = s[n]
  <1> DEFINE u == CHOOSE s : s = [k \in 0..n |-> IF k = 0 THEN 0 ELSE s[k - 1] + f[k]]
  <1>1. Sum(f, n) = u[n]
    BY Zenon DEF Sum
  <1>0. n \in 0..n
    OBVIOUS
  <1>2. PICK s \in [0..n -> Int] : SumsOf(f, n, s)
    BY <1>0, SumsExist, Zenon
  <1>3. SumsOf(f, n, u)
    BY <1>2, Zenon DEF SumsOf
  <1>4. u[n] = s[n]
    <2> HIDE DEF u
    <2>. QED
      BY <1>0, <1>2, <1>3, SumsAgree
  <1>. QED
    BY <1>1, <1>2, <1>4

(* What every use of Sum rests on: it is empty at 0 and grows by f[k].      *)
LEMMA SumStep ==
  ASSUME NEW f, NEW n \in Nat, \A k \in 1..n : f[k] \in Int
  PROVE  /\ Sum(f, 0) = 0
         /\ \A k \in 0..n : Sum(f, k) \in Int
         /\ \A k \in 1..n : Sum(f, k) = Sum(f, k - 1) + f[k]
  <1>1. ASSUME NEW k \in 0..n
        PROVE  \E s \in [0..k -> Int] : SumsOf(f, k, s) /\ Sum(f, k) = s[k]
    <2>1. k \in Nat /\ \A j \in 1..k : f[j] \in Int
      OBVIOUS
    <2>. QED
      BY <2>1, SumIs, Zenon
  <1>2. n \in 0..n
    OBVIOUS
  <1>5. PICK s \in [0..n -> Int] : SumsOf(f, n, s)
    BY <1>2, SumsExist, Zenon
  <1>3. ASSUME NEW k \in 0..n PROVE Sum(f, k) = s[k]
    <2>1. PICK t \in [0..k -> Int] : SumsOf(f, k, t) /\ Sum(f, k) = t[k]
      BY <1>1
    <2>2. \A j \in 0..k : s[j] = t[j]
      <3>1. SumsOf(f, n, s)
        BY <1>5
      <3>2. SumsOf(f, k, t)
        BY <2>1
      <3>3. \A r, q : SumsOf(f, n, r) /\ SumsOf(f, k, q) => \A j \in 0..k : r[j] = q[j]
        BY SumsAgree
      <3>. QED
        BY <3>1, <3>2, <3>3
    <2>. QED
      BY <2>1, <2>2
  <1>4. \A k \in 0..n : s[k] = IF k = 0 THEN 0 ELSE s[k - 1] + f[k]
    BY <1>5 DEF SumsOf
  <1>. QED
    BY <1>3, <1>4

LEMMA SumNat ==
  ASSUME NEW f, NEW n \in Nat, \A k \in 1..n : f[k] \in Nat
  PROVE  \A k \in 0..n : Sum(f, k) \in Nat
  <1> DEFINE T == {k \in 0..n : Sum(f, k) \in Nat}
  <1>1. /\ Sum(f, 0) = 0
        /\ \A k \in 1..n : Sum(f, k) = Sum(f, k - 1) + f[k]
    BY SumStep
  <1>2. 0 \in T /\ \A k \in 1..n : k - 1 \in T => k \in T
    BY <1>1
  <1> HIDE DEF T
  <1>3. 0..n \subseteq T
    BY <1>2, Inductive
  <1>. QED
    BY <1>3 DEF T

(* Rows that agree have the same sum.                                        *)
LEMMA SumSame ==
  ASSUME NEW f, NEW g, NEW n \in Nat, \A k \in 1..n : f[k] \in Int /\ f[k] = g[k]
  PROVE  Sum(f, n) = Sum(g, n)
  <1> DEFINE T == {k \in 0..n : Sum(f, k) = Sum(g, k)}
  <1>1. /\ Sum(f, 0) = 0
        /\ \A k \in 1..n : Sum(f, k) = Sum(f, k - 1) + f[k]
    BY SumStep
  <1>2. \A k \in 1..n : g[k] \in Int
    OBVIOUS
  <1>3. /\ Sum(g, 0) = 0
        /\ \A k \in 1..n : Sum(g, k) = Sum(g, k - 1) + g[k]
    BY <1>2, SumStep
  <1>4. 0 \in T /\ \A k \in 1..n : k - 1 \in T => k \in T
    BY <1>1, <1>3
  <1> HIDE DEF T
  <1>5. 0..n \subseteq T
    BY <1>4, Inductive
  <1>. QED
    BY <1>5 DEF T

(* Sums add up term by term.                                                 *)
LEMMA SumAdds ==
  ASSUME NEW f, NEW g, NEW h, NEW n \in Nat,
         \A k \in 1..n : f[k] \in Int /\ g[k] \in Int /\ h[k] = f[k] + g[k]
  PROVE  Sum(h, n) = Sum(f, n) + Sum(g, n)
  <1> DEFINE T == {k \in 0..n : Sum(h, k) = Sum(f, k) + Sum(g, k)}
  <1>1. \A k \in 1..n : f[k] \in Int /\ g[k] \in Int /\ h[k] \in Int
    OBVIOUS
  <1>2. /\ Sum(f, 0) = 0 /\ \A k \in 0..n : Sum(f, k) \in Int
        /\ \A k \in 1..n : Sum(f, k) = Sum(f, k - 1) + f[k]
    BY <1>1, SumStep
  <1>3. /\ Sum(g, 0) = 0 /\ \A k \in 0..n : Sum(g, k) \in Int
        /\ \A k \in 1..n : Sum(g, k) = Sum(g, k - 1) + g[k]
    BY <1>1, SumStep
  <1>4. /\ Sum(h, 0) = 0 /\ \A k \in 0..n : Sum(h, k) \in Int
        /\ \A k \in 1..n : Sum(h, k) = Sum(h, k - 1) + h[k]
    BY <1>1, SumStep
  <1>5. 0 \in T
    BY <1>2, <1>3, <1>4
  <1>6. ASSUME NEW k \in 1..n, k - 1 \in T PROVE k \in T
    <2>1. Sum(h, k - 1) = Sum(f, k - 1) + Sum(g, k - 1) /\ k - 1 \in 0..n
      BY <1>6
    <2>2. Sum(f, k - 1) \in Int /\ Sum(g, k - 1) \in Int
      BY <2>1, <1>2, <1>3
    <2>3. Sum(h, k) = Sum(f, k) + Sum(g, k)
      BY <2>1, <2>2, <1>1, <1>2, <1>3, <1>4
    <2>. QED
      BY <2>3
  <1> HIDE DEF T
  <1>7. 0..n \subseteq T
    BY <1>5, <1>6, Inductive
  <1>. QED
    BY <1>7 DEF T

LEMMA SumMonotone ==
  ASSUME NEW f, NEW g, NEW n \in Nat,
         \A k \in 1..n : f[k] \in Int /\ g[k] \in Int /\ f[k] <= g[k]
  PROVE  Sum(f, n) <= Sum(g, n)
  <1> DEFINE d == [k \in 1..n |-> g[k] - f[k]]
  <1>1. \A k \in 1..n : d[k] \in Nat
    OBVIOUS
  <1>2. \A k \in 1..n : f[k] \in Int /\ d[k] \in Int /\ g[k] = f[k] + d[k]
    OBVIOUS
  <1> HIDE DEF d
  <1>3. Sum(g, n) = Sum(f, n) + Sum(d, n)
    BY <1>2, SumAdds
  <1>4. n \in 0..n /\ \A k \in 1..n : f[k] \in Int
    OBVIOUS
  <1>5. Sum(d, n) \in Nat
    BY <1>1, <1>4, SumNat
  <1>6. Sum(f, n) \in Int
    BY <1>4, SumStep
  <1>7. Sum(g, n) \in Int /\ Sum(d, n) >= 0
    BY <1>3, <1>5, <1>6
  <1>. QED
    BY <1>3, <1>5, <1>6, <1>7

(* Rows after m that count for nothing.                                      *)
LEMMA SumPrefix ==
  ASSUME NEW f, NEW g, NEW n \in Nat, NEW m \in 0..n,
         \A k \in 1..m : f[k] \in Int /\ f[k] = g[k],
         \A k \in (m + 1)..n : f[k] = 0
  PROVE  Sum(f, n) = Sum(g, m)
  <1>1. \A k \in 1..n : f[k] \in Int
    OBVIOUS
  <1>2. \A k \in 1..n : Sum(f, k) = Sum(f, k - 1) + f[k]
    BY <1>1, SumStep
  <1>3. Sum(f, m) = Sum(g, m) /\ m \in Nat
    BY SumSame
  <1>4. \A k \in 0..n : Sum(f, k) \in Int
    BY <1>1, SumStep
  <1> DEFINE T == {k \in 0..n : k >= m => Sum(f, k) = Sum(g, m)}
  <1>5. 0 \in T
    BY <1>3
  <1>6. ASSUME NEW k \in 1..n, k - 1 \in T PROVE k \in T
    <2>1. CASE k > m
      <3>1. Sum(f, k - 1) = Sum(g, m) /\ Sum(f, k) = Sum(f, k - 1) + 0
        BY <2>1, <1>2, <1>6
      <3>2. Sum(f, k - 1) \in Int
        BY <1>4
      <3>. QED
        BY <3>1, <3>2
    <2>2. CASE k = m
      BY <2>2, <1>3
    <2>3. CASE k < m
      BY <2>3
    <2>. QED
      BY <2>1, <2>2, <2>3
  <1> HIDE DEF T
  <1>7. 0..n \subseteq T
    BY <1>5, <1>6, Inductive
  <1>. QED
    BY <1>7 DEF T

(* Taking n from rows in their order: each gives what it holds, the last one *)
(* reached what is missing, and all together n or all there is.              *)
LEMMA SumTaken ==
  ASSUME NEW a, NEW t, NEW m \in Nat, NEW n \in Int, n >= 0,
         \A k \in 1..m : a[k] \in Nat,
         \A k \in 1..m : t[k] = IF Sum(a, k - 1) >= n THEN 0
                                ELSE IF a[k] < n - Sum(a, k - 1) THEN a[k]
                                ELSE n - Sum(a, k - 1)
  PROVE  Sum(t, m) = IF Sum(a, m) < n THEN Sum(a, m) ELSE n
  <1> DEFINE P(k) == Sum(t, k) = IF Sum(a, k) < n THEN Sum(a, k) ELSE n
             T == {k \in 0..m : P(k)}
  <1>1. /\ Sum(a, 0) = 0 /\ \A k \in 0..m : Sum(a, k) \in Nat
        /\ \A k \in 1..m : Sum(a, k) = Sum(a, k - 1) + a[k]
    BY SumStep, SumNat
  <1>2. \A k \in 1..m : t[k] \in Int
    BY <1>1
  <1>3. /\ Sum(t, 0) = 0 /\ \A k \in 0..m : Sum(t, k) \in Int
        /\ \A k \in 1..m : Sum(t, k) = Sum(t, k - 1) + t[k]
    BY <1>2, SumStep
  <1>4. 0 \in T
    BY <1>1, <1>3
  <1>5. ASSUME NEW k \in 1..m, k - 1 \in T PROVE k \in T
    <2>1. P(k - 1) /\ k - 1 \in 0..m /\ k \in 0..m
      BY <1>5
    <2>2. Sum(a, k - 1) \in Nat /\ a[k] \in Nat /\ Sum(a, k) = Sum(a, k - 1) + a[k]
      BY <1>1, <2>1
    <2>3. Sum(t, k - 1) \in Int /\ Sum(t, k) = Sum(t, k - 1) + t[k]
      BY <1>3, <2>1
    <2>4. P(k)
      BY <2>1, <2>2, <2>3
    <2>. QED
      BY <2>1, <2>4
  <1> HIDE DEF T
  <1>6. 0..m \subseteq T
    BY <1>4, <1>5, Inductive
  <1>. QED
    BY <1>6 DEF T

(* One row that counts.                                                      *)
LEMMA SumSingle ==
  ASSUME NEW f, NEW n \in Nat, NEW i \in 1..n, f[i] \in Int,
         \A k \in (1..n) \ {i} : f[k] = 0
  PROVE  Sum(f, n) = f[i]
  <1>1. \A k \in 1..n : f[k] \in Int
    OBVIOUS
  <1>2. i \in 0..n /\ i - 1 \in Nat /\ 0 \in 0..(i - 1) /\ i \in Nat
    OBVIOUS
  <1>3. Sum(f, n) = Sum(f, i)
    <2>1. \A k \in 1..i : f[k] \in Int /\ f[k] = f[k]
      BY <1>1
    <2>2. \A k \in (i + 1)..n : f[k] = 0
      OBVIOUS
    <2>. QED
      BY <1>2, <2>1, <2>2, SumPrefix
  <1>4. Sum(f, i - 1) = Sum(f, 0)
    <2>1. \A k \in 1..0 : f[k] \in Int /\ f[k] = f[k]
      OBVIOUS
    <2>2. \A k \in (0 + 1)..(i - 1) : f[k] = 0
      OBVIOUS
    <2>. QED
      BY <1>2, <2>1, <2>2, SumPrefix
  <1>5. Sum(f, 0) = 0 /\ Sum(f, i) = Sum(f, i - 1) + f[i]
    BY <1>1, SumStep
  <1>. QED
    BY <1>3, <1>4, <1>5

(***************************************************************************)
(* Sums over finite sets                                                   *)
(***************************************************************************)
(* Induction over the subsets of a finite set, for a property given as the  *)
(* set of those that have it.                                               *)
LEMMA SubsetInduction ==
  ASSUME NEW S, IsFiniteSet(S), NEW P, {} \in P,
         \A V \in SUBSET S : \A x \in S \ V : V \in P => V \cup {x} \in P
  PROVE  \A V \in SUBSET S : V \in P
  <1> DEFINE n == Cardinality(S)
             T == {k \in 0..n : \A V \in SUBSET S : Cardinality(V) = k => V \in P}
  <1>1. n \in Nat /\ \A V \in SUBSET S : IsFiniteSet(V) /\ Cardinality(V) \in 0..n
    <2>1. n \in Nat
      BY FS_CardinalityType
    <2>2. ASSUME NEW V \in SUBSET S
          PROVE  IsFiniteSet(V) /\ Cardinality(V) \in 0..n
      <3>1. IsFiniteSet(V) /\ Cardinality(V) <= n
        BY FS_Subset
      <3>2. Cardinality(V) \in Nat
        BY <3>1, FS_CardinalityType
      <3>. QED
        BY <2>1, <3>1, <3>2
    <2>. QED
      BY <2>1, <2>2
  <1>2. 0 \in T
    BY <1>1, FS_EmptySet
  <1>3. ASSUME NEW k \in 1..n, k - 1 \in T PROVE k \in T
    <2> SUFFICES ASSUME NEW V \in SUBSET S, Cardinality(V) = k PROVE V \in P
      BY <1>1
    <2>1. V # {}
      BY FS_EmptySet
    <2>2. PICK x \in V : TRUE
      BY <2>1
    <2>3. Cardinality(V \ {x}) = k - 1 /\ V \ {x} \in SUBSET S
      BY <1>1, FS_RemoveElement
    <2>4. V \ {x} \in P
      BY <1>3, <2>3
    <2>5. (V \ {x}) \cup {x} = V /\ x \in S \ (V \ {x})
      OBVIOUS
    <2>. QED
      BY <2>3, <2>4, <2>5
  <1> HIDE DEF T
  <1>4. 0..n \subseteq T
    BY <1>1, <1>2, <1>3, Inductive
  <1>. QED
    BY <1>1, <1>4 DEF T

Pick(T) == CHOOSE x \in T : TRUE
Partial(S, n) == {T \in SUBSET S : Cardinality(T) <= n}
SetSumsOf(f, D, s) ==
    s = [T \in D |-> IF T = {} THEN 0 ELSE f[Pick(T)] + s[T \ {Pick(T)}]]

LEMMA PickIn == ASSUME NEW T, T # {} PROVE Pick(T) \in T
  BY DEF Pick

LEMMA SetSumsGrow ==
  ASSUME NEW S, IsFiniteSet(S), NEW f, \A x \in S : f[x] \in Int, NEW n \in Nat,
         NEW s \in [Partial(S, n) -> Int], SetSumsOf(f, Partial(S, n), s)
  PROVE  \E h \in [Partial(S, n + 1) -> Int] : SetSumsOf(f, Partial(S, n + 1), h)
  <1> DEFINE D == Partial(S, n)
             E == Partial(S, n + 1)
             h == [T \in E |-> IF T = {} THEN 0 ELSE f[Pick(T)] + s[T \ {Pick(T)}]]
  <1>1. ASSUME NEW T \in E, T # {}
        PROVE  Pick(T) \in T /\ f[Pick(T)] \in Int /\ T \ {Pick(T)} \in D
    <2>1. Pick(T) \in T /\ T \in SUBSET S /\ Cardinality(T) <= n + 1
      BY <1>1, PickIn DEF Partial
    <2>2. IsFiniteSet(T)
      BY <2>1, FS_Subset
    <2>3. Cardinality(T) \in Nat /\ Cardinality(T \ {Pick(T)}) = Cardinality(T) - 1
      BY <2>1, <2>2, FS_CardinalityType, FS_RemoveElement
    <2>4. Cardinality(T \ {Pick(T)}) <= n
      BY <2>1, <2>3
    <2>. QED
      BY <2>1, <2>4 DEF Partial
  <1>2. h \in [E -> Int]
    <2>1. ASSUME NEW T \in E
          PROVE  (IF T = {} THEN 0 ELSE f[Pick(T)] + s[T \ {Pick(T)}]) \in Int
      <3>1. CASE T = {}
        BY <3>1
      <3>2. CASE T # {}
        <4>1. f[Pick(T)] \in Int /\ s[T \ {Pick(T)}] \in Int
          BY <1>1, <3>2
        <4>. QED
          BY <3>2, <4>1
      <3>. QED
        BY <3>1, <3>2
    <2>. QED
      BY <2>1
  <1>3. D \subseteq E
    <2>1. ASSUME NEW T \in D PROVE T \in E
      <3>1. T \in SUBSET S /\ Cardinality(T) <= n
        BY DEF Partial
      <3>2. Cardinality(T) \in Nat
        BY <3>1, FS_Subset, FS_CardinalityType
      <3>3. Cardinality(T) <= n + 1
        BY <3>1, <3>2
      <3>. QED
        BY <3>1, <3>3 DEF Partial
    <2>. QED
      BY <2>1
  <1>4. ASSUME NEW T \in D PROVE h[T] = s[T]
    <2>1. s[T] = IF T = {} THEN 0 ELSE f[Pick(T)] + s[T \ {Pick(T)}]
      BY DEF SetSumsOf
    <2>2. h[T] = IF T = {} THEN 0 ELSE f[Pick(T)] + s[T \ {Pick(T)}]
      BY <1>3
    <2>. QED
      BY <2>1, <2>2
  <1>5. ASSUME NEW T \in E
        PROVE  h[T] = IF T = {} THEN 0 ELSE f[Pick(T)] + h[T \ {Pick(T)}]
    <2>1. h[T] = IF T = {} THEN 0 ELSE f[Pick(T)] + s[T \ {Pick(T)}]
      OBVIOUS
    <2>2. T # {} => h[T \ {Pick(T)}] = s[T \ {Pick(T)}]
      BY <1>1, <1>4
    <2> HIDE DEF h
    <2>. QED
      BY <2>1, <2>2
  <1>6. h = [T \in E |-> h[T]]
    OBVIOUS
  <1> HIDE DEF h
  <1>7. h = [T \in E |-> IF T = {} THEN 0 ELSE f[Pick(T)] + h[T \ {Pick(T)}]]
    BY <1>5, <1>6
  <1>8. SetSumsOf(f, E, h)
    BY <1>7, Zenon DEF SetSumsOf
  <1>. QED
    BY <1>2, <1>8, Zenon

LEMMA SetSumsExist ==
  ASSUME NEW S, IsFiniteSet(S), NEW f, \A x \in S : f[x] \in Int
  PROVE  \E s \in [SUBSET S -> Int] : SetSumsOf(f, SUBSET S, s)
  <1> DEFINE n == Cardinality(S)
             T == {k \in 0..n : \E s \in [Partial(S, k) -> Int] :
                                    SetSumsOf(f, Partial(S, k), s)}
  <1>1. n \in Nat /\ \A V \in SUBSET S : Cardinality(V) \in Nat /\ Cardinality(V) <= n
    BY FS_CardinalityType, FS_Subset
  <1>2. 0 \in T
    <2>1. \A V \in Partial(S, 0) : V = {}
      <3>1. ASSUME NEW V \in Partial(S, 0) PROVE V = {}
        <4>1. V \in SUBSET S /\ Cardinality(V) <= 0
          BY DEF Partial
        <4>2. IsFiniteSet(V) /\ Cardinality(V) = 0
          BY <1>1, <4>1, FS_Subset
        <4>. QED
          BY <4>2, FS_EmptySet
      <3>. QED
        BY <3>1
    <2> DEFINE z == [V \in Partial(S, 0) |-> 0]
    <2>2. z \in [Partial(S, 0) -> Int]
      OBVIOUS
    <2>3. z = [V \in Partial(S, 0) |-> IF V = {} THEN 0 ELSE f[Pick(V)] + z[V \ {Pick(V)}]]
      BY <2>1
    <2> HIDE DEF z
    <2>4. SetSumsOf(f, Partial(S, 0), z)
      BY <2>3, Zenon DEF SetSumsOf
    <2>5. 0 \in 0..n
      BY <1>1
    <2>. QED
      BY <2>2, <2>4, <2>5
  <1>3. ASSUME NEW k \in 1..n, k - 1 \in T PROVE k \in T
    <2>1. k - 1 \in Nat /\ (k - 1) + 1 = k /\ k \in 0..n
      BY <1>1
    <2>2. PICK s \in [Partial(S, k - 1) -> Int] : SetSumsOf(f, Partial(S, k - 1), s)
      BY <1>3
    <2>3. \E h \in [Partial(S, (k - 1) + 1) -> Int] : SetSumsOf(f, Partial(S, (k - 1) + 1), h)
      BY <2>1, <2>2, SetSumsGrow
    <2>. QED
      BY <2>1, <2>3
  <1>4. 0..n \subseteq T
    <2> HIDE DEF T
    <2>. QED
      BY <1>1, <1>2, <1>3, Inductive
  <1>5. n \in T
    BY <1>1, <1>4
  <1>6. Partial(S, n) = SUBSET S
    BY <1>1 DEF Partial
  <1>. QED
    BY <1>5, <1>6

\* SumOver is the value of the one function that obeys the equation.
LEMMA SetSumsAgree ==
  ASSUME NEW S, IsFiniteSet(S), NEW f, NEW U \in SUBSET S, NEW s, NEW t,
         SetSumsOf(f, SUBSET S, s), SetSumsOf(f, SUBSET U, t)
  PROVE  t[U] = s[U]
  <1> DEFINE n == Cardinality(U)
             T == {k \in 0..n : \A V \in SUBSET U : Cardinality(V) = k => t[V] = s[V]}
  <1>0. IsFiniteSet(U)
    BY FS_Subset
  <1>1. n \in Nat /\ \A V \in SUBSET U : IsFiniteSet(V) /\ Cardinality(V) \in Nat
    BY <1>0, FS_CardinalityType, FS_Subset
  <1>2. ASSUME NEW V \in SUBSET U
        PROVE  /\ s[V] = IF V = {} THEN 0 ELSE f[Pick(V)] + s[V \ {Pick(V)}]
               /\ t[V] = IF V = {} THEN 0 ELSE f[Pick(V)] + t[V \ {Pick(V)}]
    BY DEF SetSumsOf
  <1>3. 0 \in T
    <2>1. ASSUME NEW V \in SUBSET U, Cardinality(V) = 0 PROVE t[V] = s[V]
      <3>1. V = {}
        BY <1>1, <2>1, FS_EmptySet
      <3>. QED
        BY <1>2, <3>1
    <2>. QED
      BY <1>1, <2>1
  <1>4. ASSUME NEW k \in 1..n, k - 1 \in T PROVE k \in T
    <2>1. ASSUME NEW V \in SUBSET U, Cardinality(V) = k PROVE t[V] = s[V]
      <3>1. V # {}
        BY <2>1, FS_EmptySet
      <3>2. Pick(V) \in V
        BY <3>1, PickIn
      <3>3. Cardinality(V \ {Pick(V)}) = k - 1 /\ V \ {Pick(V)} \in SUBSET U
        BY <1>1, <2>1, <3>2, FS_RemoveElement
      <3>4. t[V \ {Pick(V)}] = s[V \ {Pick(V)}]
        BY <1>4, <3>3
      <3>. QED
        BY <1>2, <3>1, <3>4
    <2>2. k \in 0..n
      BY <1>1
    <2>. QED
      BY <2>1, <2>2
  <1>5. 0..n \subseteq T
    <2> HIDE DEF T
    <2>. QED
      BY <1>1, <1>3, <1>4, Inductive
  <1>6. n \in T
    BY <1>1, <1>5
  <1>. QED
    BY <1>6

IsSetSum(f, S, s) ==
    /\ s \in [SUBSET S -> Int] /\ SetSumsOf(f, SUBSET S, s)
    /\ \A U \in SUBSET S : SumOver(f, U) = s[U]

LEMMA SetSumIs ==
  ASSUME NEW S, IsFiniteSet(S), NEW f, \A x \in S : f[x] \in Int
  PROVE  \E s : IsSetSum(f, S, s)
  <1>1. PICK s \in [SUBSET S -> Int] : SetSumsOf(f, SUBSET S, s)
    BY SetSumsExist, Zenon
  <1>2. ASSUME NEW U \in SUBSET S PROVE SumOver(f, U) = s[U]
    <2> DEFINE u == CHOOSE t : t = [T \in SUBSET U |-> IF T = {} THEN 0
                       ELSE f[CHOOSE x \in T : TRUE] + t[T \ {CHOOSE x \in T : TRUE}]]
    <2>1. SumOver(f, U) = u[U]
      BY Zenon DEF SumOver
    <2>2. IsFiniteSet(U) /\ \A x \in U : f[x] \in Int
      BY FS_Subset
    <2>3. \E t : SetSumsOf(f, SUBSET U, t)
      <3>1. \E t \in [SUBSET U -> Int] : SetSumsOf(f, SUBSET U, t)
        BY <2>2, SetSumsExist, Zenon
      <3>. QED
        BY <3>1
    <2>4. SetSumsOf(f, SUBSET U, u)
      BY <2>3, Zenon DEF SetSumsOf, Pick
    <2> HIDE DEF u
    <2>5. u[U] = s[U]
      BY <1>1, <2>4, SetSumsAgree
    <2>. QED
      BY <2>1, <2>5
  <1>. QED
    BY <1>1, <1>2 DEF IsSetSum

LEMMA SumOverEmpty == \A f : SumOver(f, {}) = 0
  <1> SUFFICES ASSUME NEW f PROVE SumOver(f, {}) = 0
    OBVIOUS
  <1>1. IsFiniteSet({}) /\ \A x \in {} : f[x] \in Int
    BY FS_EmptySet
  <1>2. PICK s : IsSetSum(f, {}, s)
    BY <1>1, SetSumIs, Zenon
  <1>3. s[{}] = 0
    BY <1>2 DEF IsSetSum, SetSumsOf
  <1>. QED
    BY <1>2, <1>3 DEF IsSetSum

LEMMA SumOverInt ==
  ASSUME NEW S, IsFiniteSet(S), NEW f, \A x \in S : f[x] \in Int
  PROVE  \A U \in SUBSET S : SumOver(f, U) \in Int
  <1>1. PICK s : IsSetSum(f, S, s)
    BY SetSumIs, Zenon
  <1>. QED
    BY <1>1 DEF IsSetSum

(* What every use of SumOver rests on: one more element adds its own.       *)
LEMMA SumOverAdd ==
  ASSUME NEW S, IsFiniteSet(S), NEW f, \A x \in S : f[x] \in Int
  PROVE  \A U \in SUBSET S : \A x \in S \ U :
           SumOver(f, U \cup {x}) = SumOver(f, U) + f[x]
  <1>0. PICK s : IsSetSum(f, S, s)
    BY SetSumIs, Zenon
  <1>1. /\ s \in [SUBSET S -> Int] /\ SetSumsOf(f, SUBSET S, s)
        /\ \A U \in SUBSET S : SumOver(f, U) = s[U]
    BY <1>0 DEF IsSetSum
  <1>2. ASSUME NEW T \in SUBSET S, T # {}
        PROVE  /\ Pick(T) \in T /\ T \ {Pick(T)} \in SUBSET S
               /\ s[T] = s[T \ {Pick(T)}] + f[Pick(T)]
    <2>1. Pick(T) \in T
      BY <1>2, PickIn
    <2>2. s[T] = f[Pick(T)] + s[T \ {Pick(T)}]
      BY <1>1, <1>2 DEF SetSumsOf
    <2>3. T \ {Pick(T)} \in SUBSET S /\ f[Pick(T)] \in Int
      BY <2>1
    <2>. QED
      BY <1>1, <2>1, <2>2, <2>3
  <1>3. \A U \in SUBSET S : s[U] \in Int
    BY <1>1
  <1> DEFINE n == Cardinality(S)
             Adds(U) == \A x \in S \ U : s[U \cup {x}] = s[U] + f[x]
             T == {k \in 0..n : \A U \in SUBSET S : Cardinality(U) = k => Adds(U)}
  <1>4. n \in Nat /\ \A V \in SUBSET S : IsFiniteSet(V) /\ Cardinality(V) \in 0..n
    BY FS_CardinalityType, FS_Subset
  <1>5. s[{}] = 0
    BY <1>1 DEF SetSumsOf
  <1>6. 0 \in T
    <2>1. ASSUME NEW U \in SUBSET S, Cardinality(U) = 0 PROVE Adds(U)
      <3>1. U = {}
        BY <1>4, <2>1, FS_EmptySet
      <3>2. ASSUME NEW x \in S PROVE s[{x}] = s[{}] + f[x]
        <4>1. {x} \in SUBSET S /\ {x} # {} /\ f[x] \in Int
          OBVIOUS
        <4>2. Pick({x}) = x
          BY <1>2, <4>1
        <4>3. {x} \ {x} = {}
          OBVIOUS
        <4>. QED
          BY <1>2, <4>1, <4>2, <4>3
      <3>. QED
        BY <3>1, <3>2
    <2>. QED
      BY <1>4, <2>1
  <1>7. ASSUME NEW k \in 1..n, k - 1 \in T PROVE k \in T
    <2>1. ASSUME NEW U \in SUBSET S, Cardinality(U) = k, NEW x \in S \ U
          PROVE  s[U \cup {x}] = s[U] + f[x]
      <3> DEFINE W == U \cup {x}
                 y == Pick(W)
      <3>1. W \in SUBSET S /\ W # {} /\ x \in S
        OBVIOUS
      <3>2. y \in W /\ s[W] = s[W \ {y}] + f[y]
        BY <1>2, <3>1
      <3>3. CASE y = x
        <4>1. W \ {x} = U
          OBVIOUS
        <4>. QED
          BY <3>2, <3>3, <4>1
      <3>4. CASE y # x
        <4>1. y \in U /\ y \in S
          BY <3>2, <3>4
        <4> HIDE DEF y
        <4>2. /\ U \ {y} \in SUBSET S /\ Cardinality(U \ {y}) = k - 1
              /\ x \in S \ (U \ {y}) /\ y \in S \ (U \ {y})
          BY <1>4, <2>1, <4>1, FS_RemoveElement
        <4>3. Adds(U \ {y})
          BY <1>7, <4>2
        <4>4. /\ s[(U \ {y}) \cup {x}] = s[U \ {y}] + f[x]
              /\ s[(U \ {y}) \cup {y}] = s[U \ {y}] + f[y]
          BY <4>2, <4>3
        <4>5. W \ {y} = (U \ {y}) \cup {x} /\ (U \ {y}) \cup {y} = U
          BY <3>4, <4>1
        <4>6. s[U \ {y}] \in Int /\ f[x] \in Int /\ f[y] \in Int
          BY <1>3, <3>1, <4>1, <4>2
        <4>7. s[W] = s[(U \ {y}) \cup {x}] + f[y] /\ s[U] = s[U \ {y}] + f[y]
          BY <3>2, <4>4, <4>5
        <4> HIDE DEF W
        <4>8. s[W] = s[U] + f[x]
          BY <4>4, <4>6, <4>7
        <4>. QED
          BY <4>8 DEF W
      <3>. QED
        BY <3>3, <3>4
    <2>2. k \in 0..n
      BY <1>4
    <2>. QED
      BY <2>1, <2>2
  <1>8. 0..n \subseteq T
    <2> HIDE DEF T
    <2>. QED
      BY <1>4, <1>6, <1>7, Inductive
  <1>9. ASSUME NEW U \in SUBSET S, NEW x \in S \ U
        PROVE  SumOver(f, U \cup {x}) = SumOver(f, U) + f[x]
    <2>1. Cardinality(U) \in T
      BY <1>4, <1>8
    <2>2. Adds(U)
      BY <2>1
    <2>3. U \cup {x} \in SUBSET S
      OBVIOUS
    <2>. QED
      BY <1>1, <2>2, <2>3
  <1>. QED
    BY <1>9

LEMMA SumOverRemove ==
  ASSUME NEW S, IsFiniteSet(S), NEW f, \A x \in S : f[x] \in Int, NEW x \in S
  PROVE  SumOver(f, S) = SumOver(f, S \ {x}) + f[x]
  <1>1. S \ {x} \in SUBSET S /\ x \in S \ (S \ {x}) /\ (S \ {x}) \cup {x} = S
    OBVIOUS
  <1>. QED
    BY <1>1, SumOverAdd

\* Two functions that agree on the set have the same sum.
LEMMA SumOverSame ==
  ASSUME NEW S, IsFiniteSet(S), NEW f, NEW g,
         \A x \in S : f[x] \in Int /\ f[x] = g[x]
  PROVE  SumOver(f, S) = SumOver(g, S)
  <1> DEFINE P == {U \in SUBSET S : SumOver(f, U) = SumOver(g, U)}
  <1>0. (\A x \in S : f[x] \in Int) /\ (\A x \in S : g[x] \in Int)
    OBVIOUS
  <1>1. {} \in P
    BY SumOverEmpty
  <1>2. ASSUME NEW V \in SUBSET S, NEW x \in S \ V, V \in P
        PROVE  V \cup {x} \in P
    BY <1>0, <1>2, SumOverAdd
  <1>3. \A V \in SUBSET S : V \in P
    <2> HIDE DEF P
    <2>. QED
      BY <1>1, <1>2, SubsetInduction
  <1>. QED
    BY <1>3

\* The sum of sums, element by element.
LEMMA SumOverPlus ==
  ASSUME NEW S, IsFiniteSet(S), NEW f, NEW g, NEW h,
         \A x \in S : f[x] \in Int /\ g[x] \in Int /\ h[x] = f[x] + g[x]
  PROVE  SumOver(h, S) = SumOver(f, S) + SumOver(g, S)
  <1> DEFINE P == {U \in SUBSET S : SumOver(h, U) = SumOver(f, U) + SumOver(g, U)}
  <1>0. /\ \A x \in S : f[x] \in Int
        /\ \A x \in S : g[x] \in Int
        /\ \A x \in S : h[x] \in Int
    OBVIOUS
  <1>1. {} \in P
    BY SumOverEmpty
  <1>2. ASSUME NEW V \in SUBSET S, NEW x \in S \ V, V \in P
        PROVE  V \cup {x} \in P
    <2>1. /\ SumOver(f, V \cup {x}) = SumOver(f, V) + f[x]
          /\ SumOver(g, V \cup {x}) = SumOver(g, V) + g[x]
          /\ SumOver(h, V \cup {x}) = SumOver(h, V) + h[x]
      BY <1>0, SumOverAdd
    <2>2. SumOver(f, V) \in Int /\ SumOver(g, V) \in Int /\ SumOver(h, V) \in Int
      BY <1>0, SumOverInt
    <2>3. /\ SumOver(h, V) = SumOver(f, V) + SumOver(g, V)
          /\ f[x] \in Int /\ g[x] \in Int /\ h[x] = f[x] + g[x]
      BY <1>2
    <2>. QED
      BY <2>1, <2>2, <2>3
  <1>3. \A V \in SUBSET S : V \in P
    <2> HIDE DEF P
    <2>. QED
      BY <1>1, <1>2, SubsetInduction
  <1>. QED
    BY <1>3

LEMMA SumOverNat ==
  ASSUME NEW S, IsFiniteSet(S), NEW f, \A x \in S : f[x] \in Nat
  PROVE  SumOver(f, S) \in Nat
  <1> DEFINE P == {U \in SUBSET S : SumOver(f, U) \in Nat}
  <1>1. {} \in P
    BY SumOverEmpty
  <1>2. ASSUME NEW V \in SUBSET S, NEW x \in S \ V, V \in P
        PROVE  V \cup {x} \in P
    <2>1. SumOver(f, V \cup {x}) = SumOver(f, V) + f[x]
      BY SumOverAdd
    <2>. QED
      BY <1>2, <2>1
  <1>3. \A V \in SUBSET S : V \in P
    <2> HIDE DEF P
    <2>. QED
      BY <1>1, <1>2, SubsetInduction
  <1>. QED
    BY <1>3

\* A set and the rest of it.
LEMMA SumOverUnion ==
  ASSUME NEW S, IsFiniteSet(S), NEW f, \A x \in S : f[x] \in Int,
         NEW A \in SUBSET S
  PROVE  SumOver(f, S) = SumOver(f, A) + SumOver(f, S \ A)
  <1> DEFINE P == {U \in SUBSET (S \ A) : SumOver(f, A \cup U) = SumOver(f, A) + SumOver(f, U)}
  <1>0. IsFiniteSet(S \ A)
    BY FS_Subset
  <1>1. {} \in P
    <2>1. SumOver(f, A) \in Int
      BY SumOverInt
    <2>2. A \cup {} = A
      OBVIOUS
    <2>. QED
      BY <2>1, <2>2, SumOverEmpty
  <1>2. ASSUME NEW V \in SUBSET (S \ A), NEW x \in (S \ A) \ V, V \in P
        PROVE  V \cup {x} \in P
    <2>1. /\ A \cup V \in SUBSET S /\ x \in S \ (A \cup V)
          /\ V \in SUBSET S /\ x \in S \ V
          /\ (A \cup V) \cup {x} = A \cup (V \cup {x})
      OBVIOUS
    <2>2. SumOver(f, (A \cup V) \cup {x}) = SumOver(f, A \cup V) + f[x]
      BY <2>1, SumOverAdd
    <2>3. SumOver(f, V \cup {x}) = SumOver(f, V) + f[x]
      BY <2>1, SumOverAdd
    <2>4. SumOver(f, A) \in Int /\ SumOver(f, V) \in Int /\ f[x] \in Int
      BY <2>1, SumOverInt
    <2>5. SumOver(f, A \cup V) = SumOver(f, A) + SumOver(f, V)
      BY <1>2
    <2>6. SumOver(f, A \cup (V \cup {x})) = SumOver(f, A) + SumOver(f, V \cup {x})
      <3>1. SumOver(f, A \cup (V \cup {x})) = SumOver(f, (A \cup V) \cup {x})
        BY <2>1, Zenon
      <3> DEFINE a == SumOver(f, A)
                 v == SumOver(f, V)
      <3>2. SumOver(f, (A \cup V) \cup {x}) = (a + v) + f[x]
        BY <2>2, <2>5
      <3>3. (a + v) + f[x] = a + (v + f[x])
        BY <2>4
      <3>. QED
        BY <2>3, <3>1, <3>2, <3>3, Zenon
    <2>7. V \cup {x} \in SUBSET (S \ A)
      OBVIOUS
    <2>. QED
      BY <2>6, <2>7
  <1>3. \A V \in SUBSET (S \ A) : V \in P
    <2> HIDE DEF P
    <2>. QED
      BY <1>0, <1>1, <1>2, SubsetInduction
  <1>4. A \cup (S \ A) = S /\ S \ A \in SUBSET (S \ A)
    OBVIOUS
  <1>. QED
    BY <1>3, <1>4

LEMMA SumOverZero ==
  ASSUME NEW S, IsFiniteSet(S), NEW f, \A x \in S : f[x] = 0
  PROVE  SumOver(f, S) = 0
  <1> DEFINE P == {U \in SUBSET S : SumOver(f, U) = 0}
  <1>1. {} \in P
    BY SumOverEmpty
  <1>2. ASSUME NEW V \in SUBSET S, NEW x \in S \ V, V \in P
        PROVE  V \cup {x} \in P
    <2>1. \A y \in S : f[y] \in Int
      OBVIOUS
    <2>2. SumOver(f, V \cup {x}) = SumOver(f, V) + f[x]
      BY <2>1, SumOverAdd
    <2>. QED
      BY <1>2, <2>2
  <1>3. \A V \in SUBSET S : V \in P
    <2> HIDE DEF P
    <2>. QED
      BY <1>1, <1>2, SubsetInduction
  <1>. QED
    BY <1>3

\* Elements that add nothing may be left out.
LEMMA SumOverPart ==
  ASSUME NEW S, IsFiniteSet(S), NEW f, \A x \in S : f[x] \in Int,
         NEW A \in SUBSET S, \A x \in S \ A : f[x] = 0
  PROVE  SumOver(f, S) = SumOver(f, A)
  <1>1. IsFiniteSet(S \ A)
    BY FS_Subset
  <1>2. SumOver(f, S \ A) = 0
    BY <1>1, SumOverZero
  <1>3. SumOver(f, A) \in Int
    BY SumOverInt
  <1>. QED
    BY <1>2, <1>3, SumOverUnion

\* Changing one element changes the sum by as much.
LEMMA SumOverChange ==
  ASSUME NEW S, IsFiniteSet(S), NEW f, NEW g, NEW x \in S,
         \A y \in S : f[y] \in Int, \A y \in S \ {x} : g[y] = f[y], g[x] \in Int
  PROVE  SumOver(g, S) = SumOver(f, S) + (g[x] - f[x])
  <1>1. \A y \in S : g[y] \in Int
    OBVIOUS
  <1>2. IsFiniteSet(S \ {x}) /\ \A y \in S \ {x} : f[y] \in Int /\ f[y] = g[y]
    BY FS_Subset
  <1>3. SumOver(f, S \ {x}) = SumOver(g, S \ {x})
    BY <1>2, SumOverSame
  <1>4. SumOver(f, S) = SumOver(f, S \ {x}) + f[x]
    BY SumOverRemove
  <1>5. SumOver(g, S) = SumOver(g, S \ {x}) + g[x]
    BY <1>1, SumOverRemove
  <1>6. SumOver(f, S \ {x}) \in Int /\ f[x] \in Int
    BY SumOverInt
  <1>. QED
    BY <1>3, <1>4, <1>5, <1>6

LEMMA SumOverOne ==
  ASSUME NEW f, NEW x, f[x] \in Int
  PROVE  SumOver(f, {x}) = f[x]
  <1>1. IsFiniteSet({x}) /\ (\A y \in {x} : f[y] \in Int) /\ x \in {x} /\ {x} \ {x} = {}
    BY FS_Singleton
  <1>2. SumOver(f, {x}) = SumOver(f, {x} \ {x}) + f[x]
    BY <1>1, SumOverRemove
  <1>. QED
    BY <1>1, <1>2, SumOverEmpty

\* The same number at every element.
LEMMA SumOverConst ==
  ASSUME NEW S, IsFiniteSet(S), NEW c \in Int, NEW f, \A x \in S : f[x] = c
  PROVE  SumOver(f, S) = c * Cardinality(S)
  <1> DEFINE P == {U \in SUBSET S : SumOver(f, U) = c * Cardinality(U)}
  <1>1. {} \in P
    BY SumOverEmpty, FS_EmptySet
  <1>2. ASSUME NEW V \in SUBSET S, NEW x \in S \ V, V \in P
        PROVE  V \cup {x} \in P
    <2>1. SumOver(f, V \cup {x}) = SumOver(f, V) + f[x]
      BY SumOverAdd
    <2>2. IsFiniteSet(V) /\ Cardinality(V) \in Nat
      BY FS_Subset, FS_CardinalityType
    <2>3. Cardinality(V \cup {x}) = Cardinality(V) + 1
      BY <2>2, FS_AddElement
    <2>4. ASSUME NEW k \in Nat PROVE c * (k + 1) = c * k + c
      OBVIOUS
    <2>. QED
      BY <1>2, <2>1, <2>2, <2>3, <2>4
  <1>3. \A V \in SUBSET S : V \in P
    <2> HIDE DEF P
    <2>. QED
      BY <1>1, <1>2, SubsetInduction
  <1>. QED
    BY <1>3
=============================================================================
