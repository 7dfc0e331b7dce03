----------------------------- MODULE FoldProofs ----------------------------
(***************************************************************************)
(* Induction over a set of naturals, which stays first order, and what it  *)
(* gives for the folds of the project: MapThenSumSet computes the sum, as  *)
(* the accounting properties use it.                                       *)
(***************************************************************************)
EXTENDS Integers, FiniteSets, FiniteSetsExt, Folds, FiniteSetTheorems,
        WellFoundedInduction, TLAPS

\* Every non-empty set of naturals has a least element.
LEMMA LeastNat ==
    ASSUME NEW T \in SUBSET Nat, T # {}
    PROVE  \E x \in T : \A y \in T : x <= y
<1>1. PICK x \in T : \A y \in T : ~(<<y, x>> \in OpToRel(<, Nat))
  BY NatLessThanWellFounded, WFMin
<1>2. ASSUME NEW y \in T PROVE ~(y < x)
  <2>1. <<y, x>> \notin OpToRel(<, Nat) /\ x \in Nat /\ y \in Nat
    BY <1>1
  <2> QED
    BY <2>1, Zenon DEF OpToRel
<1>3. x \in Nat /\ \A y \in T : y \in Nat /\ ~(y < x)
  BY <1>2
<1> QED
  BY <1>3

LEMMA SetInduction ==
    ASSUME NEW T \in SUBSET Nat, 0 \in T, \A n \in T : n + 1 \in T
    PROVE  T = Nat
<1> SUFFICES ASSUME Nat \ T # {} PROVE FALSE
  OBVIOUS
<1>1. PICK n \in Nat \ T : \A m \in Nat \ T : n <= m
  BY LeastNat
<1>2. n - 1 \in Nat /\ ~(n <= n - 1) /\ (n - 1) + 1 = n
  BY <1>1
<1>3. n - 1 \in T
  BY <1>1, <1>2
<1> QED
  BY <1>2, <1>3

LEMMA IntervalInduction ==
    ASSUME NEW k \in Nat, NEW T \in SUBSET (1 .. k), k > 0 => 1 \in T,
           \A n \in T : n < k => n + 1 \in T
    PROVE  T = 1 .. k
<1> DEFINE N == {m \in Nat : m < k => m + 1 \in T}
<1>1. 0 \in N
  OBVIOUS
<1>2. ASSUME NEW m \in N PROVE m + 1 \in N
  OBVIOUS
<1>3. N = Nat
  <2>1. N \in SUBSET Nat
    OBVIOUS
  <2> HIDE DEF N
  <2> QED BY <1>1, <1>2, <2>1, SetInduction
<1>4. ASSUME NEW n \in 1 .. k PROVE n \in T
  <2>1. n - 1 \in Nat /\ n - 1 < k /\ (n - 1) + 1 = n
    OBVIOUS
  <2>2. n - 1 \in N
    <3> HIDE DEF N
    <3> QED BY <1>3, <2>1
  <2> QED
    BY <2>1, <2>2
<1> QED
  BY <1>4

LEMMA MaxUpTo ==
    ASSUME NEW k \in Nat, NEW s \in SUBSET (0 .. k), s # {}
    PROVE  Max(s) \in s /\ \A y \in s : y <= Max(s)
<1> DEFINE U == {b \in Nat : \A y \in s : y <= b}
<1>1. k \in U /\ U \in SUBSET Nat
  OBVIOUS
<1>2. PICK b \in U : \A c \in U : b <= c
  <2> HIDE DEF U
  <2> QED BY <1>1, LeastNat
<1>3. b \in s
  <2> SUFFICES ASSUME b \notin s PROVE FALSE
    OBVIOUS
  <2>1. b \in Nat /\ \A y \in s : y <= b - 1 /\ y \in Nat
    <3>1. ASSUME NEW y \in s PROVE y <= b /\ y # b /\ y \in Nat /\ b \in Nat
      BY <1>2
    <3>2. ASSUME NEW y \in s PROVE y <= b - 1 /\ y \in Nat
      BY <3>1
    <3> QED
      BY <1>2, <3>2
  <2>2. PICK y \in s : TRUE
    OBVIOUS
  <2>3. b - 1 \in Nat
    BY <2>1, <2>2
  <2>4. b - 1 \in U
    BY <2>1, <2>3
  <2> QED
    BY <1>2, <2>1, <2>4
<1>4. \E x \in s : \A y \in s : x >= y
  BY <1>2, <1>3
<1>5. Max(s) \in s /\ \A y \in s : Max(s) >= y
  BY <1>4 DEF Max
<1> QED
  BY <1>5

LEMMA MaxOfSome ==
    ASSUME NEW k \in Nat, NEW s \in SUBSET (1 .. k), s # {}
    PROVE  Max(s) \in s /\ \A y \in s : y <= Max(s)
<1>1. s \in SUBSET (0 .. k)
  OBVIOUS
<1> QED
  BY <1>1, MaxUpTo

LEMMA IntervalSubsets ==
    ASSUME NEW k \in Nat
    PROVE  /\ Cardinality(1 .. k) \in Nat
           /\ \A s \in SUBSET (1 .. k) : /\ IsFiniteSet(s) /\ Cardinality(s) \in Nat
                                         /\ Cardinality(s) <= Cardinality(1 .. k)
<1>1. IsFiniteSet(1 .. k)
  BY FS_Interval
<1>2. ASSUME NEW s \in SUBSET (1 .. k)
      PROVE  IsFiniteSet(s) /\ Cardinality(s) <= Cardinality(1 .. k)
  BY <1>1, FS_Subset
<1> QED
  BY <1>1, <1>2, FS_CardinalityType

LEMMA SmallerWithoutMax ==
    ASSUME NEW k \in Nat, NEW s \in SUBSET (1 .. k), s # {}
    PROVE  /\ Max(s) \in s /\ s \ {Max(s)} \in SUBSET (1 .. k)
           /\ Cardinality(s) \in Nat /\ Cardinality(s \ {Max(s)}) \in Nat
           /\ Cardinality(s \ {Max(s)}) = Cardinality(s) - 1
<1>1. Max(s) \in s
  BY MaxOfSome
<1> DEFINE x == Max(s)
<1> HIDE DEF x
<1>2. IsFiniteSet(s) /\ s \ {x} \in SUBSET (1 .. k)
  BY IntervalSubsets
<1>3. Cardinality(s \ {x}) = Cardinality(s) - 1
  BY <1>1, <1>2, FS_RemoveElement DEF x
<1>4. Cardinality(s) \in Nat /\ Cardinality(s \ {x}) \in Nat
  BY <1>2, IntervalSubsets
<1> QED
  BY <1>1, <1>2, <1>3, <1>4 DEF x

Pick(s) == CHOOSE x \in s : TRUE

\* The sum of f over S, and the table of partial sums it is read from.
SumOver(f, S) == MapThenSumSet(LAMBDA x : f[x], S)

IsSum(g, f, S) ==
    g = [s \in SUBSET S |-> IF s = {} THEN 0 ELSE f[Pick(s)] + g[s \ {Pick(s)}]]

IntOn(f, S) == \A x \in S : f[x] \in Int

Splits(g, f, S) ==
    \A s \in SUBSET S : g[s] \in Int /\ \A y \in s : g[s] = f[y] + g[s \ {y}]

LEMMA SumOverDef ==
    ASSUME NEW f, NEW S
    PROVE  SumOver(f, S) = (CHOOSE g : IsSum(g, f, S))[S]
  BY DEF SumOver, MapThenSumSet, MapThenFoldSet, IsSum, Pick

\* The table exists: it is extended from the subsets of size n to those of
\* size n + 1.
LEMMA SumExists ==
    ASSUME NEW S, IsFiniteSet(S), NEW f
    PROVE  \E g : IsSum(g, f, S)
<1> DEFINE Upto(n) == {s \in SUBSET S : Cardinality(s) <= n}
           Table(g, n) == g = [s \in Upto(n) |-> IF s = {} THEN 0
                                 ELSE f[Pick(s)] + g[s \ {Pick(s)}]]
           T == {n \in Nat : \E g : Table(g, n)}
<1>0. \A s \in SUBSET S : IsFiniteSet(s) /\ Cardinality(s) \in Nat
                          /\ Cardinality(s) <= Cardinality(S)
  BY FS_Subset, FS_CardinalityType
<1>1. 0 \in T
  <2>1. \A s \in Upto(0) : s = {}
    BY <1>0, FS_EmptySet
  <2>2. Table([s \in Upto(0) |-> 0], 0)
    BY <2>1
  <2> QED
    BY <2>2
<1>2. ASSUME NEW n \in T PROVE n + 1 \in T
  <2>1. PICK g : Table(g, n)
    BY <1>2
  <2> DEFINE h == [s \in Upto(n + 1) |-> IF s = {} THEN 0
                                 ELSE f[Pick(s)] + g[s \ {Pick(s)}]]
  <2>2. ASSUME NEW s \in Upto(n + 1), s # {}
        PROVE  s \ {Pick(s)} \in Upto(n)
    <3>1. Pick(s) \in s
      BY <2>2 DEF Pick
    <3>2. IsFiniteSet(s) /\ Cardinality(s) \in Nat /\ Cardinality(s) <= n + 1
      BY <1>0
    <3>3. Cardinality(s \ {Pick(s)}) = Cardinality(s) - 1
      BY <3>1, <3>2, FS_RemoveElement
    <3> QED
      BY <3>2, <3>3
  <2>3. ASSUME NEW s \in Upto(n) PROVE h[s] = g[s]
    <3>1. s \in Upto(n + 1)
      BY <1>0
    <3>2. g[s] = IF s = {} THEN 0 ELSE f[Pick(s)] + g[s \ {Pick(s)}]
      BY <2>1
    <3> QED
      BY <3>1, <3>2
  <2>4. h = [s \in Upto(n + 1) |-> IF s = {} THEN 0
                                 ELSE f[Pick(s)] + h[s \ {Pick(s)}]]
    <3> HIDE DEF Upto
    <3> QED BY <2>2, <2>3
  <2>5. Table(h, n + 1)
    BY <2>4
  <2>6. \E k : Table(k, n + 1)
    <3> HIDE DEF Table, h
    <3> QED BY <2>5
  <2>7. n + 1 \in Nat
    OBVIOUS
  <2> HIDE DEF Table
  <2> QED
    BY <2>6, <2>7
<1>3. T = Nat
  <2> HIDE DEF T
  <2>1. T \in SUBSET Nat
    BY DEF T
  <2> QED BY <1>1, <1>2, <2>1, SetInduction
<1>4. Cardinality(S) \in T
  BY <1>3, FS_CardinalityType
<1>5. Upto(Cardinality(S)) = SUBSET S
  BY <1>0
<1> QED
  BY <1>4, <1>5 DEF IsSum

\* Any element may be taken out of a partial sum, not only the chosen one.
LEMMA TableLaw ==
    ASSUME NEW S, IsFiniteSet(S), NEW f, NEW g, IsSum(g, f, S),
           IntOn(f, S)
    PROVE  Splits(g, f, S)
<1> DEFINE Good(s) == g[s] \in Int /\ \A y \in s : g[s] = f[y] + g[s \ {y}]
           T == {n \in Nat : \A s \in SUBSET S : Cardinality(s) <= n => Good(s)}
<1>0. \A s \in SUBSET S : IsFiniteSet(s) /\ Cardinality(s) \in Nat
  BY FS_Subset, FS_CardinalityType
<1>a. ASSUME NEW s \in SUBSET S
      PROVE  g[s] = IF s = {} THEN 0 ELSE f[Pick(s)] + g[s \ {Pick(s)}]
  BY DEF IsSum
<1>1. 0 \in T
  <2>1. ASSUME NEW s \in SUBSET S, Cardinality(s) <= 0 PROVE s = {}
    BY <1>0, <2>1, FS_EmptySet
  <2>2. ASSUME NEW s \in SUBSET S, Cardinality(s) <= 0 PROVE Good(s)
    <3>1. s = {} /\ g[s] = 0
      BY <1>a, <2>1, <2>2
    <3> QED
      BY <3>1
  <2> QED
    BY <2>2
<1>2. ASSUME NEW n \in T PROVE n + 1 \in T
  <2> SUFFICES ASSUME NEW s \in SUBSET S, Cardinality(s) <= n + 1 PROVE Good(s)
    BY DEF T
  <2>0. n \in Nat /\ \A t \in SUBSET S : Cardinality(t) <= n => Good(t)
    BY <1>2
  <2> HIDE DEF T
  <2>1. ASSUME NEW y \in s
        PROVE  s \ {y} \in SUBSET S /\ Good(s \ {y}) /\ f[y] \in Int
    <3>0. f[y] \in Int
      BY DEF IntOn
    <3>1. Cardinality(s \ {y}) = Cardinality(s) - 1
      BY <1>0, FS_RemoveElement
    <3>2. Cardinality(s \ {y}) <= n
      BY <1>0, <2>0, <3>1
    <3>3. s \ {y} \in SUBSET S
      OBVIOUS
    <3> HIDE DEF Good
    <3> QED
      BY <2>0, <3>0, <3>2, <3>3
  <2>2. CASE s = {}
    <3>1. g[s] = 0
      BY <1>a, <2>2
    <3> QED
      BY <2>2, <3>1
  <2>3. CASE s # {}
    <3> DEFINE x == Pick(s)
    <3>1. x \in s /\ g[s] = f[x] + g[s \ {x}]
      BY <1>a, <2>3 DEF Pick
    <3> HIDE DEF x
    <3>2. g[s] \in Int
      <4>1. g[s \ {x}] \in Int /\ f[x] \in Int
        BY <2>1, <3>1
      <4> QED
        BY <3>1, <4>1
    <3>3. ASSUME NEW y \in s PROVE g[s] = f[y] + g[s \ {y}]
      <4>1. CASE y = x
        BY <3>1, <4>1
      <4>2. CASE y # x
        <5> DEFINE r == (s \ {x}) \ {y}
        <5>1. g[s \ {x}] = f[y] + g[r]
          BY <2>1, <3>1, <4>2
        <5>2. r = (s \ {y}) \ {x}
          OBVIOUS
        <5>3. x \in s \ {y}
          BY <3>1, <4>2
        <5>4. g[s \ {y}] = f[x] + g[r]
          <6> HIDE DEF r
          <6> QED BY <2>1, <5>2, <5>3
        <5>5. r \in SUBSET S /\ g[r] \in Int /\ f[x] \in Int /\ f[y] \in Int
          <6>1. Cardinality(r) <= n
            <7>1. s \ {x} \in SUBSET S /\ IsFiniteSet(s \ {x}) /\ y \in s \ {x}
              BY <1>0, <4>2
            <7>2. /\ Cardinality(r) = Cardinality(s \ {x}) - 1
                  /\ Cardinality(s \ {x}) = Cardinality(s) - 1
              BY <1>0, <3>1, <7>1, FS_RemoveElement
            <7> QED
              BY <1>0, <2>0, <7>2
          <6>2. r \in SUBSET S
            OBVIOUS
          <6> HIDE DEF r
          <6> QED
            BY <2>0, <2>1, <3>1, <6>1, <6>2
        <5> HIDE DEF r
        <5> QED
          BY <3>1, <5>1, <5>4, <5>5
      <4> QED
        BY <4>1, <4>2
    <3> QED
      BY <3>2, <3>3
  <2> QED
    BY <2>2, <2>3
<1>3. T = Nat
  <2> HIDE DEF T
  <2>1. T \in SUBSET Nat
    BY DEF T
  <2> QED BY <1>1, <1>2, <2>1, SetInduction
<1> QED
  BY <1>0, <1>3 DEF Splits

\* Two tables agree wherever their functions do.
LEMMA TablesAgree ==
    ASSUME NEW R, NEW S, IsFiniteSet(R), NEW f, NEW g, NEW h, NEW k,
           IsSum(h, f, R), IsSum(k, g, S)
    PROVE  \A s \in SUBSET (R \cap S) : (\A x \in s : f[x] = g[x]) => h[s] = k[s]
<1> DEFINE Same(s) == (\A x \in s : f[x] = g[x]) => h[s] = k[s]
           T == {n \in Nat : \A s \in SUBSET (R \cap S) : Cardinality(s) <= n => Same(s)}
<1>0. \A s \in SUBSET (R \cap S) : IsFiniteSet(s) /\ Cardinality(s) \in Nat
  BY FS_Subset, FS_CardinalityType
<1>a. ASSUME NEW s \in SUBSET (R \cap S)
      PROVE  /\ h[s] = IF s = {} THEN 0 ELSE f[Pick(s)] + h[s \ {Pick(s)}]
             /\ k[s] = IF s = {} THEN 0 ELSE g[Pick(s)] + k[s \ {Pick(s)}]
  <2>1. s \in SUBSET R /\ s \in SUBSET S
    OBVIOUS
  <2> QED
    BY <2>1 DEF IsSum
<1>1. 0 \in T
  <2>1. ASSUME NEW s \in SUBSET (R \cap S), Cardinality(s) <= 0 PROVE Same(s)
    <3>1. s = {}
      BY <1>0, <2>1, FS_EmptySet
    <3> QED
      BY <1>a, <3>1
  <2> HIDE DEF Same
  <2> QED
    BY <2>1
<1>2. ASSUME NEW n \in T PROVE n + 1 \in T
  <2>0. n \in Nat /\ \A t \in SUBSET (R \cap S) : Cardinality(t) <= n => Same(t)
    BY <1>2
  <2>1. ASSUME NEW s \in SUBSET (R \cap S), Cardinality(s) <= n + 1 PROVE Same(s)
    <3>1. CASE s = {}
      BY <1>a, <3>1
    <3>2. CASE s # {}
      <4> DEFINE x == Pick(s)
                 r == s \ {x}
      <4>1. x \in s /\ h[s] = f[x] + h[r] /\ k[s] = g[x] + k[r]
        BY <1>a, <3>2 DEF Pick
      <4> HIDE DEF x
      <4>2. Cardinality(r) = Cardinality(s) - 1
        BY <1>0, <4>1, FS_RemoveElement
      <4>3. Cardinality(r) <= n /\ r \in SUBSET (R \cap S) /\ r \subseteq s
        BY <1>0, <2>0, <2>1, <4>2
      <4> HIDE DEF r
      <4>4. (\A y \in s : f[y] = g[y]) => h[r] = k[r]
        BY <2>0, <4>3
      <4> QED
        BY <4>1, <4>4
    <3> QED
      BY <3>1, <3>2
  <2> HIDE DEF Same
  <2> QED
    BY <2>0, <2>1
<1>3. T = Nat
  <2> HIDE DEF T
  <2>1. T \in SUBSET Nat
    BY DEF T
  <2> QED BY <1>1, <1>2, <2>1, SetInduction
<1> QED
  BY <1>0, <1>3

(***************************************************************************)
(* The laws of SumOver                                                     *)
(***************************************************************************)
LEMMA SumTable ==
    ASSUME NEW S, IsFiniteSet(S), NEW f
    PROVE  \E g : IsSum(g, f, S) /\ SumOver(f, S) = g[S]
<1>1. IsSum(CHOOSE g : IsSum(g, f, S), f, S)
  BY SumExists
<1> QED
  BY <1>1, SumOverDef

LEMMA SumSame ==
    ASSUME NEW S, IsFiniteSet(S), NEW f, NEW g, \A x \in S : f[x] = g[x]
    PROVE  SumOver(f, S) = SumOver(g, S)
<1>1. PICK h : IsSum(h, f, S) /\ SumOver(f, S) = h[S]
  BY SumTable
<1>2. PICK k : IsSum(k, g, S) /\ SumOver(g, S) = k[S]
  BY SumTable
<1>3. S \in SUBSET (S \cap S)
  OBVIOUS
<1>4. \A s \in SUBSET (S \cap S) : (\A x \in s : f[x] = g[x]) => h[s] = k[s]
  BY <1>1, <1>2, TablesAgree
<1> QED
  BY <1>1, <1>2, <1>3, <1>4

LEMMA SumEmpty ==
    ASSUME NEW f
    PROVE  SumOver(f, {}) = 0
<1>1. PICK g : IsSum(g, f, {}) /\ SumOver(f, {}) = g[{}]
  BY SumTable, FS_EmptySet
<1>2. {} \in SUBSET {}
  OBVIOUS
<1> QED
  BY <1>1, <1>2 DEF IsSum

LEMMA SumSplit ==
    ASSUME NEW S, IsFiniteSet(S), NEW f, IntOn(f, S)
    PROVE  /\ SumOver(f, S) \in Int
           /\ \A y \in S : SumOver(f, S) = f[y] + SumOver(f, S \ {y})
<1>1. PICK g : IsSum(g, f, S) /\ SumOver(f, S) = g[S]
  BY SumTable
<1>2. g[S] \in Int /\ \A y \in S : g[S] = f[y] + g[S \ {y}]
  <2>1. Splits(g, f, S)
    BY <1>1, TableLaw
  <2>2. S \in SUBSET S
    OBVIOUS
  <2> QED
    BY <2>1, <2>2 DEF Splits
<1>3. ASSUME NEW y \in S PROVE SumOver(f, S \ {y}) = g[S \ {y}]
  <2> DEFINE R == S \ {y}
  <2>1. IsFiniteSet(R)
    BY FS_RemoveElement
  <2>2. R \in SUBSET (R \cap S)
    OBVIOUS
  <2> HIDE DEF R
  <2>3. PICK h : IsSum(h, f, R) /\ SumOver(f, R) = h[R]
    BY <2>1, SumTable
  <2>4. h[R] = g[R]
    <3>1. \A s \in SUBSET (R \cap S) : (\A x \in s : f[x] = f[x]) => h[s] = g[s]
      BY <1>1, <2>1, <2>3, TablesAgree
    <3> QED
      BY <2>2, <3>1
  <2> QED
    BY <2>3, <2>4 DEF R
<1> QED
  BY <1>1, <1>2, <1>3

\* One entry of the function is added or replaced.
LEMMA SumUpdate ==
    ASSUME NEW S, IsFiniteSet(S), NEW x, NEW f, IntOn(f, S), NEW g, g[x] \in Int,
           \A y \in S \ {x} : g[y] = f[y]
    PROVE  /\ IsFiniteSet(S \cup {x}) /\ IntOn(g, S \cup {x})
           /\ SumOver(f, S) \in Int
           /\ SumOver(g, S \cup {x}) =
                 SumOver(f, S) + g[x] - (IF x \in S THEN f[x] ELSE 0)
<1> DEFINE R == S \ {x}
           U == S \cup {x}
<1>1. IsFiniteSet(U) /\ IsFiniteSet(R)
  BY FS_AddElement, FS_RemoveElement
<1>2. IntOn(g, U) /\ IntOn(f, R)
  BY DEF IntOn
<1>3. SumOver(g, R) = SumOver(f, R)
  BY <1>1, SumSame
<1>4. U \ {x} = R /\ x \in U
  OBVIOUS
<1> HIDE DEF R, U
<1>5. SumOver(g, U) = g[x] + SumOver(g, R)
  BY <1>1, <1>2, <1>4, SumSplit
<1>6. SumOver(f, S) \in Int /\ (x \in S => SumOver(f, S) = f[x] + SumOver(f, R))
  BY SumSplit DEF R
<1>7. SumOver(f, R) \in Int
  BY <1>1, <1>2, SumSplit
<1>8. x \notin S => R = S
  BY DEF R
<1>9. x \in S => f[x] \in Int
  BY DEF IntOn
<1>10. SumOver(g, U) = SumOver(f, S) + g[x] - (IF x \in S THEN f[x] ELSE 0)
  <2>1. CASE x \in S
    BY <1>3, <1>5, <1>6, <1>7, <1>9, <2>1
  <2>2. CASE x \notin S
    BY <1>3, <1>5, <1>7, <1>8, <2>2
  <2> QED
    BY <2>1, <2>2
<1> QED
  BY <1>1, <1>2, <1>6, <1>10 DEF U

(***************************************************************************)
(* A function defined by recursion over the naturals exists                *)
(***************************************************************************)
Follows(f, rule, base, n) ==
    f[0] = base /\ \A i \in 1 .. n : f[i] = rule[i][f[i - 1]]

LEMMA PrefixRecursion ==
    ASSUME NEW D, NEW base \in D, NEW rule \in [Nat \ {0} -> [D -> D]], NEW n \in Nat
    PROVE  \E f \in [0 .. n -> D] : Follows(f, rule, base, n)
<1> DEFINE N == {m \in Nat : \E f \in [0 .. m -> D] : Follows(f, rule, base, m)}
<1>1. 0 \in N
  <2>1. [i \in 0 .. 0 |-> base] \in [0 .. 0 -> D]
    OBVIOUS
  <2>2. Follows([i \in 0 .. 0 |-> base], rule, base, 0)
    BY DEF Follows
  <2> QED
    BY <2>1, <2>2
<1>2. ASSUME NEW m \in N PROVE m + 1 \in N
  <2>1. m \in Nat /\ m + 1 \in Nat /\ m + 1 \in Nat \ {0}
    OBVIOUS
  <2>2. PICK f \in [0 .. m -> D] : Follows(f, rule, base, m)
    BY <1>2
  <2> HIDE DEF N
  <2> DEFINE h == [i \in 0 .. (m + 1) |-> IF i = m + 1 THEN rule[m + 1][f[m]] ELSE f[i]]
  <2>3. f[m] \in D /\ rule[m + 1][f[m]] \in D
    BY <2>1
  <2>4. h \in [0 .. (m + 1) -> D]
    BY <2>1, <2>3
  <2>5. h[0] = base
    BY <2>1, <2>2 DEF Follows
  <2>6. ASSUME NEW i \in 1 .. (m + 1) PROVE h[i] = rule[i][h[i - 1]]
    <3>1. i - 1 \in 0 .. m /\ i - 1 # m + 1 /\ h[i - 1] = f[i - 1]
      BY <2>1
    <3>2. CASE i = m + 1
      <4>1. i - 1 = m /\ h[i] = rule[m + 1][f[m]]
        BY <2>1, <3>2
      <4> HIDE DEF h
      <4> QED
        BY <3>1, <3>2, <4>1
    <3>3. CASE i # m + 1
      <4>1. i \in 1 .. m /\ h[i] = f[i]
        BY <2>1, <3>3
      <4> HIDE DEF h
      <4> QED
        BY <2>2, <3>1, <4>1 DEF Follows
    <3> QED
      BY <3>2, <3>3
  <2> HIDE DEF h
  <2>7. Follows(h, rule, base, m + 1)
    BY <2>5, <2>6 DEF Follows
  <2> QED
    BY <2>1, <2>4, <2>7 DEF N
<1>3. N = Nat
  <2> HIDE DEF N
  <2>1. N \in SUBSET Nat
    BY DEF N
  <2> QED BY <1>1, <1>2, <2>1, SetInduction
<1> QED
  BY <1>3

LEMMA PrefixUnique ==
    ASSUME NEW rule, NEW base, NEW m \in Nat, NEW n \in Nat, m <= n, NEW f, NEW g,
           Follows(f, rule, base, m), Follows(g, rule, base, n)
    PROVE  f[m] = g[m]
<1> DEFINE T == {i \in Nat : i <= m => f[i] = g[i]}
<1>1. 0 \in T
  BY DEF Follows
<1>2. ASSUME NEW i \in T PROVE i + 1 \in T
  <2> SUFFICES ASSUME i + 1 <= m PROVE f[i + 1] = g[i + 1]
    OBVIOUS
  <2>1. f[i] = g[i] /\ i + 1 \in 1 .. m /\ i + 1 \in 1 .. n /\ (i + 1) - 1 = i
    OBVIOUS
  <2> QED
    BY <2>1 DEF Follows
<1>3. T = Nat
  <2> HIDE DEF T
  <2>1. T \in SUBSET Nat
    BY DEF T
  <2> QED BY <1>1, <1>2, <2>1, SetInduction
<1> QED
  BY <1>3

IsRule(rule, D) == rule \in [Nat \ {0} -> [D -> D]]

Recurses(f, rule, base, D) ==
    /\ f \in [Nat -> D]
    /\ f[0] = base
    /\ \A i \in Nat \ {0} : f[i] = rule[i][f[i - 1]]

LEMMA NatRecursion ==
    ASSUME NEW D, NEW base \in D, NEW rule, IsRule(rule, D)
    PROVE  \E f : Recurses(f, rule, base, D)
<1> USE DEF IsRule
<1> DEFINE G(n) == CHOOSE f \in [0 .. n -> D] : Follows(f, rule, base, n)
           F == [n \in Nat |-> G(n)[n]]
<1>1. ASSUME NEW n \in Nat
      PROVE  G(n) \in [0 .. n -> D] /\ Follows(G(n), rule, base, n)
  BY PrefixRecursion
<1> HIDE DEF G
<1>2. F \in [Nat -> D]
  <2>1. ASSUME NEW n \in Nat PROVE G(n)[n] \in D
    BY <1>1
  <2> QED
    BY <2>1
<1>3. F[0] = base
  BY <1>1 DEF Follows
<1>4. ASSUME NEW i \in Nat \ {0} PROVE F[i] = rule[i][F[i - 1]]
  <2>1. i - 1 \in Nat /\ i - 1 <= i /\ i \in 1 .. i
    OBVIOUS
  <2>2. G(i - 1)[i - 1] = G(i)[i - 1]
    BY <1>1, <2>1, PrefixUnique
  <2>3. G(i)[i] = rule[i][G(i)[i - 1]]
    BY <1>1, <2>1 DEF Follows
  <2> QED
    BY <2>1, <2>2, <2>3
<1> HIDE DEF F
<1>5. Recurses(F, rule, base, D)
  BY <1>2, <1>3, <1>4 DEF Recurses
<1> QED
  BY <1>5

(***************************************************************************)
(* The least and the greatest of two                                       *)
(***************************************************************************)
LEMMA MinOfTwo ==
    ASSUME NEW a \in Int, NEW b \in Int
    PROVE  Min({a, b}) = IF a <= b THEN a ELSE b
<1>1. \E x \in {a, b} : \A y \in {a, b} : x <= y
  OBVIOUS
<1>2. Min({a, b}) \in {a, b} /\ \A y \in {a, b} : Min({a, b}) <= y
  BY <1>1 DEF Min
<1> QED
  BY <1>2

LEMMA MaxOfTwo ==
    ASSUME NEW a \in Int, NEW b \in Int
    PROVE  Max({a, b}) = IF a >= b THEN a ELSE b
<1>1. \E x \in {a, b} : \A y \in {a, b} : x >= y
  OBVIOUS
<1>2. Max({a, b}) \in {a, b} /\ \A y \in {a, b} : Max({a, b}) >= y
  BY <1>1 DEF Max
<1> QED
  BY <1>2
=============================================================================
