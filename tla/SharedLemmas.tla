---------------------------- MODULE SharedLemmas ----------------------------
(***************************************************************************)
(* What the proofs of several components rest on.  First, finite sets and  *)
(* sums over them, as MapThenSumSet computes them: that the recursion      *)
(* behind it is well defined, and how a sum changes with what is summed.   *)
(* The library's induction rules take an operator; the inductions here are *)
(* on sets.  Then what LimboBag::drain frees and keeps, for bags of any    *)
(* length, whatever birth timestamps are in them, and any safe_ts and k.   *)
(***************************************************************************)
EXTENDS LimboBag, Integers, FiniteSetsExt, FiniteSetTheorems, SequenceTheorems, TLAPS

\* The sum of f[x] for all x in S.
Sum(f, S) == MapThenSumSet(LAMBDA x : f[x], S)

\* The member that the recursion of MapThenSumSet takes next.
Pick(s) == CHOOSE x \in s : TRUE

Unfolds(g, f, D) == g = [s \in D |-> IF s = {} THEN 0 ELSE f[Pick(s)] + g[s \ {Pick(s)}]]

Partial(f, S) == CHOOSE g : Unfolds(g, f, SUBSET S)

---------------------------------------------------------------------------
(* Induction *)

LEMMA Least ==
    ASSUME NEW T \in SUBSET Nat, T # {}
    PROVE  \E x \in T : \A y \in T : x <= y
<1> DEFINE R == OpToRel(<, Nat)
<1>1. \E x \in T : \A y \in T : ~(<<y, x>> \in R)
  <2>1. IsWellFoundedOn(R, Nat)
    BY NatLessThanWellFounded
  <2> HIDE DEF R
  <2> QED BY <2>1, WFMin
<1>2. \A x, y \in Nat : ~(<<y, x>> \in R) => x <= y
  BY DEF OpToRel
<1> QED BY <1>1, <1>2

LEMMA InductionOnNat ==
    ASSUME NEW A, 0 \in A, \A n \in Nat : n \in A => n + 1 \in A
    PROVE  Nat \subseteq A
<1> SUFFICES ASSUME Nat \ A # {} PROVE FALSE
  OBVIOUS
<1>1. PICK n \in Nat \ A : \A m \in Nat \ A : n <= m
  BY Least
<1>2. n - 1 \in Nat /\ ~(n <= n - 1) /\ (n - 1) + 1 = n
  BY <1>1
<1>3. n - 1 \in A
  BY <1>1, <1>2
<1> QED BY <1>1, <1>2, <1>3

LEMMA PickType == ASSUME NEW s, s # {} PROVE Pick(s) \in s
BY DEF Pick

\* One member less.
LEMMA OneLess ==
    ASSUME NEW S, IsFiniteSet(S), NEW T \in SUBSET S, T # {}
    PROVE  /\ Cardinality(T) \in Nat \ {0}
           /\ T \ {Pick(T)} \in SUBSET S
           /\ Cardinality(T \ {Pick(T)}) = Cardinality(T) - 1
<1>1. IsFiniteSet(T) /\ Pick(T) \in T
  BY FS_Subset, PickType
<1>2. Cardinality(T) \in Nat /\ Cardinality(T) # 0
  BY <1>1, FS_CardinalityType, FS_EmptySet
<1>3. Cardinality(T \ {Pick(T)}) = Cardinality(T) - 1
  BY <1>1, FS_RemoveElement
<1> QED BY <1>2, <1>3

LEMMA InductionOnSubsets ==
    ASSUME NEW S, IsFiniteSet(S), NEW A, {} \in A,
           \A T \in SUBSET S : T # {} /\ T \ {Pick(T)} \in A => T \in A
    PROVE  SUBSET S \subseteq A
<1> DEFINE B == {n \in Nat : \A T \in SUBSET S : Cardinality(T) = n => T \in A}
<1>1. \A T \in SUBSET S : T # {} => /\ Cardinality(T) \in Nat \ {0}
                                    /\ T \ {Pick(T)} \in SUBSET S
                                    /\ Cardinality(T \ {Pick(T)}) = Cardinality(T) - 1
  BY OneLess
<1>2. 0 \in B
  BY <1>1
<1>3. ASSUME NEW n \in Nat, n \in B PROVE n + 1 \in B
  <2> SUFFICES ASSUME NEW T \in SUBSET S, Cardinality(T) = n + 1 PROVE T \in A
    OBVIOUS
  <2>1. T # {}
    BY FS_EmptySet
  <2>2. T \ {Pick(T)} \in SUBSET S /\ Cardinality(T \ {Pick(T)}) = n
    BY <1>1, <2>1
  <2> QED BY <1>3, <2>1, <2>2
<1> HIDE DEF B
<1>4. Nat \subseteq B
  BY <1>2, <1>3, InductionOnNat
<1>5. \A T \in SUBSET S : Cardinality(T) \in Nat
  BY FS_Subset, FS_CardinalityType
<1> QED BY <1>4, <1>5 DEF B

---------------------------------------------------------------------------
(* The recursion *)

LEMMA SumIsPartial == ASSUME NEW f, NEW S PROVE Sum(f, S) = Partial(f, S)[S]
BY DEF Sum, MapThenSumSet, MapThenFoldSet, Partial, Unfolds, Pick

LEMMA RecursionHasSolution ==
    ASSUME NEW f, NEW S, IsFiniteSet(S)
    PROVE  \E g : Unfolds(g, f, SUBSET S)
<1> DEFINE D(n) == {T \in SUBSET S : Cardinality(T) <= n}
           A == {n \in Nat : \E g : Unfolds(g, f, D(n))}
<1>0. \A T \in SUBSET S : T # {} => /\ Cardinality(T) \in Nat \ {0}
                                    /\ T \ {Pick(T)} \in SUBSET S
                                    /\ Cardinality(T \ {Pick(T)}) = Cardinality(T) - 1
  BY OneLess
<1>1. 0 \in A
  <2>1. D(0) = {{}}
    <3>1. \A T \in SUBSET S : Cardinality(T) <= 0 => T = {}
      <4> SUFFICES ASSUME NEW T \in SUBSET S, Cardinality(T) <= 0, T # {} PROVE FALSE
        OBVIOUS
      <4>1. Cardinality(T) \in Nat \ {0}
        BY <1>0
      <4> QED BY <4>1
    <3>2. {} \in D(0)
      BY FS_EmptySet
    <3> QED BY <3>1, <3>2
  <2> DEFINE z == [s \in {{}} |-> 0]
  <2>2. Unfolds(z, f, {{}})
    <3>1. \A s \in {{}} : z[s] = IF s = {} THEN 0 ELSE f[Pick(s)] + z[s \ {Pick(s)}]
      OBVIOUS
    <3>2. z = [s \in {{}} |-> z[s]]
      OBVIOUS
    <3> HIDE DEF z
    <3> QED BY <3>1, <3>2 DEF Unfolds
  <2> QED BY <2>1, <2>2
<1>2. ASSUME NEW n \in Nat, n \in A PROVE n + 1 \in A
  <2>1. PICK g : Unfolds(g, f, D(n))
    BY <1>2
  <2> DEFINE h == [s \in D(n + 1) |-> IF s = {} THEN 0 ELSE f[Pick(s)] + g[s \ {Pick(s)}]]
  <2>2. ASSUME NEW s \in D(n + 1), s # {} PROVE s \ {Pick(s)} \in D(n)
    BY <1>0, <2>2
  <2>3. ASSUME NEW s \in D(n) PROVE s \in D(n + 1)
    <3>1. Cardinality(s) \in Nat
      BY FS_Subset, FS_CardinalityType
    <3> QED BY <3>1
  <2> HIDE DEF D
  <2>4. \A s \in D(n) : h[s] = g[s]
    BY <2>1, <2>3 DEF Unfolds
  <2>5. \A s \in D(n + 1) : h[s] = IF s = {} THEN 0 ELSE f[Pick(s)] + h[s \ {Pick(s)}]
    BY <2>2, <2>4
  <2>6. Unfolds(h, f, D(n + 1))
    <3>1. h = [s \in D(n + 1) |-> h[s]]
      OBVIOUS
    <3> HIDE DEF h
    <3> QED BY <2>5, <3>1 DEF Unfolds
  <2> QED BY <2>6
<1> HIDE DEF A
<1>3. Cardinality(S) \in A
  BY <1>1, <1>2, InductionOnNat, FS_CardinalityType
<1>4. D(Cardinality(S)) = SUBSET S
  BY FS_Subset
<1> QED BY <1>3, <1>4 DEF A

LEMMA PartialUnfolds ==
    ASSUME NEW f, NEW S, IsFiniteSet(S), NEW T \in SUBSET S
    PROVE  Partial(f, S)[T] = IF T = {} THEN 0 ELSE f[Pick(T)] + Partial(f, S)[T \ {Pick(T)}]
<1> DEFINE g == Partial(f, S)
<1>1. Unfolds(g, f, SUBSET S)
  BY RecursionHasSolution DEF Partial
<1> HIDE DEF g
<1>2. \A s \in SUBSET S : g[s] = IF s = {} THEN 0 ELSE f[Pick(s)] + g[s \ {Pick(s)}]
  BY <1>1 DEF Unfolds
<1> QED BY <1>2 DEF g

LEMMA SumRecursive ==
    ASSUME NEW f, NEW S, IsFiniteSet(S), NEW T \in SUBSET S, T # {}
    PROVE  Partial(f, S)[T] = f[Pick(T)] + Partial(f, S)[T \ {Pick(T)}] /\ Pick(T) \in S
<1>1. Pick(T) \in S
  BY PickType
<1>2. Partial(f, S)[T] = IF T = {} THEN 0 ELSE f[Pick(T)] + Partial(f, S)[T \ {Pick(T)}]
  BY PartialUnfolds
<1> QED BY <1>1, <1>2

LEMMA EmptySum == ASSUME NEW f, NEW S, IsFiniteSet(S) PROVE Partial(f, S)[{}] = 0
<1>1. {} \in SUBSET S
  OBVIOUS
<1> QED BY <1>1, PartialUnfolds

---------------------------------------------------------------------------
(* How sums change *)

LEMMA PartialType ==
    ASSUME NEW S, IsFiniteSet(S), NEW f \in [S -> Int]
    PROVE  \A T \in SUBSET S : Partial(f, S)[T] \in Int
<1> DEFINE g == Partial(f, S)
           A == {T \in SUBSET S : g[T] \in Int}
<1>1. {} \in A
  BY EmptySum
<1>2. ASSUME NEW T \in SUBSET S, T # {}, T \ {Pick(T)} \in A PROVE T \in A
  <2>1. g[T] = f[Pick(T)] + g[T \ {Pick(T)}] /\ Pick(T) \in S
    BY <1>2, SumRecursive
  <2> HIDE DEF g
  <2> QED BY <1>2, <2>1
<1> HIDE DEF A
<1>3. SUBSET S \subseteq A
  BY <1>1, <1>2, InductionOnSubsets
<1> QED BY <1>3 DEF A

\* A sum of integers is one.
LEMMA SumType == ASSUME NEW S, IsFiniteSet(S), NEW f \in [S -> Int] PROVE Sum(f, S) \in Int
BY PartialType, SumIsPartial

\* One summand changes.
LEMMA SumUpdate ==
    ASSUME NEW S, IsFiniteSet(S), NEW f \in [S -> Int], NEW h \in [S -> Int], NEW x \in S,
           \A y \in S : y # x => h[y] = f[y]
    PROVE  Sum(h, S) = Sum(f, S) - f[x] + h[x]
<1> DEFINE p == Partial(f, S)
           q == Partial(h, S)
           A == {T \in SUBSET S : q[T] = p[T] + (IF x \in T THEN h[x] - f[x] ELSE 0)}
<1>1. \A T \in SUBSET S : p[T] \in Int /\ q[T] \in Int
  BY PartialType
<1>2. {} \in A
  BY EmptySum
<1>3. ASSUME NEW T \in SUBSET S, T # {}, T \ {Pick(T)} \in A PROVE T \in A
  <2> DEFINE y == Pick(T)
             U == T \ {y}
  <2>1. p[T] = f[y] + p[U] /\ q[T] = h[y] + q[U] /\ y \in S /\ y \in T
    <3>1. p[T] = f[y] + p[U] /\ y \in S
      BY <1>3, SumRecursive
    <3>2. q[T] = h[y] + q[U] /\ y \in S
      BY <1>3, SumRecursive
    <3> QED BY <1>3, <3>1, <3>2, PickType
  <2>2. p[U] \in Int /\ q[U] \in Int /\ f[y] \in Int /\ f[x] \in Int /\ h[x] \in Int
    BY <1>1, <2>1
  <2>3. q[U] = p[U] + (IF x \in U THEN h[x] - f[x] ELSE 0)
    BY <1>3
  <2> HIDE DEF p, q, y
  <2>4. CASE y = x
    BY <2>1, <2>2, <2>3, <2>4
  <2>5. CASE y # x
    BY <2>1, <2>2, <2>3, <2>5
  <2> QED BY <2>4, <2>5
<1> HIDE DEF A
<1>4. SUBSET S \subseteq A
  BY <1>2, <1>3, InductionOnSubsets
<1>5. q[S] = p[S] + (h[x] - f[x])
  BY <1>4 DEF A
<1>6. Sum(h, S) = q[S] /\ Sum(f, S) = p[S] /\ q[S] \in Int /\ p[S] \in Int
  BY <1>1, SumIsPartial
<1> HIDE DEF p, q
<1> QED BY <1>5, <1>6

\* Larger summands have a larger sum.
LEMMA SumMonotone ==
    ASSUME NEW S, IsFiniteSet(S), NEW f \in [S -> Int], NEW h \in [S -> Int],
           \A x \in S : f[x] <= h[x]
    PROVE  Sum(f, S) <= Sum(h, S)
<1> DEFINE p == Partial(f, S)
           q == Partial(h, S)
           A == {T \in SUBSET S : p[T] <= q[T]}
<1>1. \A T \in SUBSET S : p[T] \in Int /\ q[T] \in Int
  BY PartialType
<1>2. {} \in A
  BY EmptySum
<1>3. ASSUME NEW T \in SUBSET S, T # {}, T \ {Pick(T)} \in A PROVE T \in A
  <2> DEFINE y == Pick(T)
             U == T \ {y}
  <2>1. p[T] = f[y] + p[U] /\ q[T] = h[y] + q[U] /\ y \in S
    BY <1>3, SumRecursive
  <2>2. p[U] \in Int /\ q[U] \in Int /\ f[y] \in Int /\ h[y] \in Int /\ p[U] <= q[U] /\ f[y] <= h[y]
    BY <1>1, <1>3, <2>1
  <2> HIDE DEF p, q, y
  <2> QED BY <2>1, <2>2
<1> HIDE DEF A
<1>4. SUBSET S \subseteq A
  BY <1>2, <1>3, InductionOnSubsets
<1>5. p[S] <= q[S]
  BY <1>4 DEF A
<1> QED BY <1>5, SumIsPartial

\* A sum of equal summands.
LEMMA SumConstant ==
    ASSUME NEW S, IsFiniteSet(S), NEW c \in Int, NEW f \in [S -> Int], \A x \in S : f[x] = c
    PROVE  Sum(f, S) = c * Cardinality(S)
<1> DEFINE p == Partial(f, S)
           A == {T \in SUBSET S : p[T] = c * Cardinality(T)}
<1>1. \A T \in SUBSET S : p[T] \in Int
  BY PartialType
<1>2. {} \in A
  BY EmptySum, FS_EmptySet
<1>3. ASSUME NEW T \in SUBSET S, T # {}, T \ {Pick(T)} \in A PROVE T \in A
  <2> DEFINE U == T \ {Pick(T)}
             n == Cardinality(U)
  <2>1. p[T] = f[Pick(T)] + p[U] /\ f[Pick(T)] = c
    BY <1>3, SumRecursive
  <2>2. n = Cardinality(T) - 1 /\ Cardinality(T) \in Nat \ {0}
    BY <1>3, OneLess
  <2>3. p[U] = c * n
    BY <1>3
  <2> HIDE DEF p, n
  <2>4. n \in Nat /\ Cardinality(T) = n + 1
    BY <2>2
  <2>5. c + c * n = c * (n + 1)
    BY <2>4
  <2> QED BY <2>1, <2>3, <2>4, <2>5
<1> HIDE DEF A
<1>4. SUBSET S \subseteq A
  BY <1>2, <1>3, InductionOnSubsets
<1>5. p[S] = c * Cardinality(S)
  BY <1>4 DEF A
<1> QED BY <1>5, SumIsPartial

LEMMA ZeroSum ==
    ASSUME NEW S, IsFiniteSet(S), NEW f \in [S -> Int], \A x \in S : f[x] = 0
    PROVE  Sum(f, S) = 0
<1>1. Sum(f, S) = 0 * Cardinality(S)
  BY SumConstant
<1>2. Cardinality(S) \in Nat
  BY FS_CardinalityType
<1> QED BY <1>1, <1>2

---------------------------------------------------------------------------

\* A finite set of numbers has a largest.
LEMMA MaxExists ==
    ASSUME NEW S \in SUBSET Nat, IsFiniteSet(S), S # {}
    PROVE  Max(S) \in S /\ \A y \in S : y <= Max(S)
<1> DEFINE A == {T \in SUBSET S : T # {} => \E x \in T : \A y \in T : y <= x}
<1>1. {} \in A
  OBVIOUS
<1>2. ASSUME NEW T \in SUBSET S, T # {}, T \ {Pick(T)} \in A PROVE T \in A
  <2> DEFINE z == Pick(T)
  <2>1. z \in T
    BY <1>2, PickType
  <2> HIDE DEF z
  <2>2. CASE T \ {z} = {}
    BY <2>1, <2>2
  <2>3. CASE T \ {z} # {}
    <3>1. PICK x \in T \ {z} : \A y \in T \ {z} : y <= x
      BY <1>2, <2>3 DEF z
    <3>2. CASE z <= x
      BY <2>1, <3>1, <3>2
    <3>3. CASE ~(z <= x)
      <4>1. \A y \in T : y <= z
        BY <2>1, <3>1, <3>3
      <4> QED BY <2>1, <4>1
    <3> QED BY <3>2, <3>3
  <2> QED BY <2>2, <2>3
<1> HIDE DEF A
<1>3. SUBSET S \subseteq A
  BY <1>1, <1>2, InductionOnSubsets
<1>4. \E x \in S : \A y \in S : x >= y
  <2>1. \E x \in S : \A y \in S : y <= x
    BY <1>3 DEF A
  <2> QED BY <2>1
<1>5. Max(S) \in S /\ \A y \in S : Max(S) >= y
  BY <1>4 DEF Max
<1> QED BY <1>5

LEMMA DisjointUnion ==
    ASSUME NEW S, IsFiniteSet(S), NEW T, IsFiniteSet(T), S \cap T = {}
    PROVE  IsFiniteSet(S \cup T) /\ Cardinality(S \cup T) = Cardinality(S) + Cardinality(T)
<1>1. /\ IsFiniteSet(S \cup T)
      /\ Cardinality(S \cup T) = Cardinality(S) + Cardinality(T) - Cardinality(S \cap T)
  BY FS_Union
<1>2. Cardinality(S) \in Nat /\ Cardinality(T) \in Nat /\ Cardinality(S \cap T) = 0
  BY FS_CardinalityType, FS_EmptySet
<1> QED BY <1>1, <1>2

\* The size of a union of disjoint sets is the sum of their sizes.
LEMMA SumOfSizes ==
    ASSUME NEW S, IsFiniteSet(S), NEW F, \A x \in S : IsFiniteSet(F[x]),
           \A x, y \in S : x # y => F[x] \cap F[y] = {},
           NEW c \in [S -> Int], \A x \in S : c[x] = Cardinality(F[x])
    PROVE  LET all == UNION {F[x] : x \in S}
           IN  IsFiniteSet(all) /\ Cardinality(all) = Sum(c, S)
<1> DEFINE p == Partial(c, S)
           U(T) == UNION {F[x] : x \in T}
           A == {T \in SUBSET S : IsFiniteSet(U(T)) /\ Cardinality(U(T)) = p[T]}
<1>1. {} \in A
  <2>1. U({}) = {}
    OBVIOUS
  <2> QED BY <2>1, EmptySum, FS_EmptySet
<1>2. ASSUME NEW T \in SUBSET S, T # {}, T \ {Pick(T)} \in A PROVE T \in A
  <2> DEFINE x == Pick(T)
  <2>1. x \in T /\ x \in S
    BY <1>2, PickType
  <2>2. p[T] = c[x] + p[T \ {x}]
    BY <1>2, SumRecursive
  <2>3. IsFiniteSet(U(T \ {x})) /\ Cardinality(U(T \ {x})) = p[T \ {x}]
    BY <1>2
  <2> HIDE DEF x, p
  <2>4. U(T) = U(T \ {x}) \cup F[x] /\ U(T \ {x}) \cap F[x] = {}
    BY <2>1
  <2> HIDE DEF U
  <2> DEFINE rest == U(T \ {x})
             one == F[x]
  <2>5. IsFiniteSet(U(T)) /\ Cardinality(U(T)) = Cardinality(rest) + Cardinality(one)
    <3>1. IsFiniteSet(rest) /\ IsFiniteSet(one) /\ rest \cap one = {} /\ U(T) = rest \cup one
      BY <2>1, <2>3, <2>4
    <3> HIDE DEF rest, one
    <3>2. /\ IsFiniteSet(rest \cup one)
          /\ Cardinality(rest \cup one) = Cardinality(rest) + Cardinality(one)
      BY <3>1, DisjointUnion
    <3> QED BY <3>1, <3>2
  <2>6. Cardinality(F[x]) \in Nat /\ Cardinality(U(T \ {x})) \in Nat
    BY <2>1, <2>3, FS_CardinalityType
  <2> QED BY <2>1, <2>2, <2>3, <2>5, <2>6
<1> HIDE DEF A
<1>3. S \in A
  BY <1>1, <1>2, InductionOnSubsets
<1> QED BY <1>3, SumIsPartial DEF A

---------------------------------------------------------------------------
(* LimboBag::drain *)

\* The eligible nodes are the longest front of the bag that is older than safe_ts.
LEMMA EligibleFront ==
    ASSUME NEW births \in Seq(Nat), NEW safe_ts \in Nat
    PROVE  LET e == Eligible(births, safe_ts)
           IN  /\ e \in 0 .. Len(births)
               /\ \A i \in 1 .. e : births[i] < safe_ts
               /\ e < Len(births) => births[e + 1] >= safe_ts
<1> DEFINE stop == {i \in 1 .. Len(births) : births[i] >= safe_ts}
<1>0. Len(births) \in Nat /\ \A i \in 1 .. Len(births) : births[i] \in Nat
  BY LenProperties, ElementOfSeq
<1>1. CASE stop = {}
  <2>1. Eligible(births, safe_ts) = Len(births)
    BY <1>1 DEF Eligible
  <2>2. \A i \in 1 .. Len(births) : births[i] < safe_ts
    BY <1>0, <1>1
  <2> QED BY <1>0, <2>1, <2>2
<1>2. CASE stop # {}
  <2> DEFINE m == CHOOSE i \in stop : \A j \in stop : i <= j
  <2>1. stop \in SUBSET Nat
    BY <1>0
  <2>2. \E i \in stop : \A j \in stop : i <= j
    BY <1>2, <2>1, Least
  <2>3. m \in stop /\ \A j \in stop : m <= j
    BY <2>2
  <2>4. Eligible(births, safe_ts) = m - 1
    BY <1>2 DEF Eligible
  <2> HIDE DEF m
  <2>5. m \in 1 .. Len(births) /\ births[m] >= safe_ts
    BY <2>3
  <2>6. ASSUME NEW i \in 1 .. m - 1 PROVE births[i] < safe_ts
    <3>1. i \in 1 .. Len(births) /\ ~(m <= i)
      BY <1>0, <2>5
    <3>2. i \notin stop
      BY <2>3, <3>1
    <3> QED BY <1>0, <3>1, <3>2
  <2> QED BY <1>0, <2>4, <2>5, <2>6
<1> QED BY <1>1, <1>2

\* drain(safe_ts, k) frees at most k nodes, all of them from the front of the bag
\* and older than safe_ts, and stops short of k only at the end of the bag or at a
\* node that is too young.
THEOREM DrainExact ==
    ASSUME NEW births \in Seq(Nat), NEW safe_ts \in Nat, NEW k \in Nat
    PROVE  LET n == DrainCount(births, safe_ts, k)
           IN  /\ n \in 0 .. Len(births) /\ n <= k
               /\ \A i \in 1 .. n : births[i] < safe_ts
               /\ n < k /\ n < Len(births) => births[n + 1] >= safe_ts
<1> DEFINE e == Eligible(births, safe_ts)
<1>0. Len(births) \in Nat
  BY LenProperties
<1>1. /\ e \in 0 .. Len(births)
      /\ \A i \in 1 .. e : births[i] < safe_ts
      /\ e < Len(births) => births[e + 1] >= safe_ts
  BY EligibleFront
<1>2. DrainCount(births, safe_ts, k) = IF e < k THEN e ELSE k
  BY DEF DrainCount
<1> HIDE DEF e
<1>3. CASE e < k
  BY <1>0, <1>1, <1>2, <1>3
<1>4. CASE ~(e < k)
  <2>1. DrainCount(births, safe_ts, k) = k /\ k <= e
    BY <1>0, <1>1, <1>2, <1>4
  <2> QED BY <1>0, <1>1, <2>1
<1> QED BY <1>3, <1>4

\* When the whole bag is old, drain frees k nodes or all.
LEMMA DrainOld ==
    ASSUME NEW births \in Seq(Nat), NEW safe_ts \in Nat, NEW k \in Nat,
           \A i \in 1 .. Len(births) : births[i] < safe_ts
    PROVE  DrainCount(births, safe_ts, k) = IF Len(births) < k THEN Len(births) ELSE k
<1> DEFINE n == DrainCount(births, safe_ts, k)
<1>0. Len(births) \in Nat /\ \A i \in 1 .. Len(births) : births[i] \in Nat
  BY LenProperties, ElementOfSeq
<1>1. /\ n \in 0 .. Len(births) /\ n <= k
      /\ n < k /\ n < Len(births) => births[n + 1] >= safe_ts
  BY DrainExact
<1> HIDE DEF n
<1>2. ~(n < k /\ n < Len(births))
  <2> SUFFICES ASSUME n < k, n < Len(births) PROVE FALSE
    OBVIOUS
  <2>1. n + 1 \in 1 .. Len(births)
    BY <1>0, <1>1
  <2> QED BY <1>0, <1>1, <2>1
<1> QED BY <1>0, <1>1, <1>2 DEF n

\* What drain keeps is the rest of the bag, in its order.
LEMMA RestOfBag ==
    ASSUME NEW S, NEW bag \in Seq(S), NEW n \in 0 .. Len(bag)
    PROVE  LET rest == SubSeq(bag, n + 1, Len(bag))
           IN  /\ rest \in Seq(S)
               /\ Len(rest) = Len(bag) - n
               /\ \A i \in 1 .. Len(rest) : rest[i] = bag[n + i]
<1> DEFINE rest == SubSeq(bag, n + 1, Len(bag))
<1>0. Len(bag) \in Nat /\ \A i \in 1 .. Len(bag) : bag[i] \in S
  BY LenProperties, ElementOfSeq
<1>1. n + 1 \in Int /\ Len(bag) \in Int /\ \A i \in n + 1 .. Len(bag) : bag[i] \in S
  BY <1>0
<1>2. /\ rest \in Seq(S)
      /\ Len(rest) = IF n + 1 <= Len(bag) THEN Len(bag) - (n + 1) + 1 ELSE 0
      /\ \A i \in 1 .. Len(bag) - (n + 1) + 1 : rest[i] = bag[n + 1 + i - 1]
  BY <1>1, SubSeqProperties
<1> HIDE DEF rest
<1>3. Len(rest) = Len(bag) - n
  BY <1>0, <1>2
<1>4. ASSUME NEW i \in 1 .. Len(rest) PROVE rest[i] = bag[n + i]
  <2>1. i \in 1 .. Len(bag) - (n + 1) + 1 /\ n + 1 + i - 1 = n + i
    BY <1>0, <1>3
  <2> QED BY <1>2, <2>1
<1> QED BY <1>2, <1>3, <1>4 DEF rest

\* How long the bag is after a drain, and that when all of it is old enough.
LEMMA DrainLength ==
    ASSUME NEW m \in Nat, NEW bag \in Seq(1 .. m), NEW safe_ts \in Nat, NEW k \in Nat
    PROVE  /\ Len(Drained(bag, safe_ts, k)) <= Len(bag)
           /\ m < safe_ts => Len(Drained(bag, safe_ts, k)) =
                                IF Len(bag) < k THEN 0 ELSE Len(bag) - k
<1> DEFINE n == DrainCount(bag, safe_ts, k)
           rest == Drained(bag, safe_ts, k)
<1>1. Len(bag) \in Nat /\ \A i \in 1 .. Len(bag) : bag[i] \in 1 .. m
  BY LenProperties, ElementOfSeq
<1>2. bag \in Seq(Nat)
  BY SeqMonotonic
<1>3. n \in 0 .. Len(bag)
  BY <1>2, DrainExact
<1>4. rest = SubSeq(bag, n + 1, Len(bag))
  BY DEF Drained
<1>5. m < safe_ts => n = IF Len(bag) < k THEN Len(bag) ELSE k
  <2> SUFFICES ASSUME m < safe_ts PROVE n = IF Len(bag) < k THEN Len(bag) ELSE k
    OBVIOUS
  <2>1. \A i \in 1 .. Len(bag) : bag[i] < safe_ts
    BY <1>1
  <2> QED BY <1>2, <2>1, DrainOld
<1> HIDE DEF n, rest
<1>6. Len(rest) = Len(bag) - n
  BY <1>3, <1>4, RestOfBag
<1>7. Len(rest) <= Len(bag)
  BY <1>1, <1>3, <1>6
<1>8. ASSUME m < safe_ts PROVE Len(rest) = IF Len(bag) < k THEN 0 ELSE Len(bag) - k
  <2>1. CASE Len(bag) < k
    <3>1. n = Len(bag)
      BY <1>5, <1>8, <2>1
    <3> QED BY <1>1, <1>6, <2>1, <3>1
  <2>2. CASE ~(Len(bag) < k)
    BY <1>5, <1>6, <1>8, <2>2
  <2> QED BY <2>1, <2>2
<1> QED BY <1>7, <1>8 DEF rest

\* The nodes in a bag, and a bag in which they are in the order of their birth.
Elements(bag) == {bag[i] : i \in 1 .. Len(bag)}
Sorted(bag) == \A i, j \in 1 .. Len(bag) : i < j => bag[i] < bag[j]

LEMMA EmptyElements == Elements(<<>>) = {} /\ Sorted(<<>>)
BY DEF Elements, Sorted

LEMMA ElementsType == ASSUME NEW S, NEW bag \in Seq(S) PROVE Elements(bag) \subseteq S
BY ElementOfSeq DEF Elements

\* What drain takes out of a bag of birth timestamps is older than safe_ts, and
\* what it leaves is in the bag's order.
THEOREM DrainKeepsYoung ==
    ASSUME NEW m \in Nat, NEW bag \in Seq(1 .. m), Sorted(bag),
           NEW safe_ts \in Nat, NEW k \in Nat
    PROVE  LET rest == Drained(bag, safe_ts, k)
           IN  /\ rest \in Seq(1 .. m)
               /\ Len(rest) = Len(bag) - DrainCount(bag, safe_ts, k)
               /\ Sorted(rest)
               /\ Elements(rest) \subseteq Elements(bag)
               /\ \A x \in Elements(bag) : x \notin Elements(rest) => x < safe_ts
<1> DEFINE n == DrainCount(bag, safe_ts, k)
           rest == Drained(bag, safe_ts, k)
<1>0. Len(bag) \in Nat
  BY LenProperties
<1>1. bag \in Seq(Nat)
  BY SeqMonotonic
<1>2. n \in 0 .. Len(bag) /\ \A i \in 1 .. n : bag[i] < safe_ts
  BY <1>1, DrainExact
<1>3. rest = SubSeq(bag, n + 1, Len(bag))
  BY DEF Drained
<1> HIDE DEF n, rest
<1>4. /\ rest \in Seq(1 .. m)
      /\ Len(rest) = Len(bag) - n
      /\ \A i \in 1 .. Len(rest) : rest[i] = bag[n + i]
  BY <1>2, <1>3, RestOfBag
<1>5. \A i \in 1 .. Len(rest) : n + i \in 1 .. Len(bag)
  BY <1>0, <1>2, <1>4
<1>6. Sorted(rest)
  <2> SUFFICES ASSUME NEW i \in 1 .. Len(rest), NEW j \in 1 .. Len(rest), i < j
               PROVE  rest[i] < rest[j]
    BY DEF Sorted
  <2>1. n + i < n + j
    BY <1>0, <1>2
  <2> QED BY <1>4, <1>5, <2>1 DEF Sorted
<1>7. Elements(rest) \subseteq Elements(bag)
  BY <1>4, <1>5 DEF Elements
<1>8. ASSUME NEW i \in 1 .. Len(bag), bag[i] \notin Elements(rest) PROVE bag[i] < safe_ts
  <2>1. CASE i <= n
    BY <1>0, <1>2, <2>1
  <2>2. CASE i > n
    <3>1. PICK j \in 1 .. Len(rest) : n + j = i
      <4>1. i - n \in 1 .. Len(rest) /\ n + (i - n) = i
        BY <1>0, <1>2, <1>4, <2>2
      <4> QED BY <4>1
    <3> QED BY <1>4, <1>8, <3>1 DEF Elements
  <2> QED BY <1>0, <1>2, <2>1, <2>2
<1> QED BY <1>4, <1>6, <1>7, <1>8 DEF n, rest, Elements

\* A push of a node that is younger than the bag.
LEMMA PushYoungest ==
    ASSUME NEW m \in Nat, NEW bag \in Seq(1 .. m), Sorted(bag), NEW b \in 1 .. m,
           \A x \in Elements(bag) : x < b
    PROVE  /\ Append(bag, b) \in Seq(1 .. m)
           /\ Len(Append(bag, b)) = Len(bag) + 1
           /\ Sorted(Append(bag, b))
           /\ Elements(Append(bag, b)) = Elements(bag) \cup {b}
<1> DEFINE new == Append(bag, b)
<1>0. Len(bag) \in Nat
  BY LenProperties
<1>1. /\ new \in Seq(1 .. m)
      /\ Len(new) = Len(bag) + 1
      /\ \A i \in 1 .. Len(bag) : new[i] = bag[i]
      /\ new[Len(bag) + 1] = b
  BY AppendProperties
<1> HIDE DEF new
<1>2. \A i \in 1 .. Len(new) : i \in 1 .. Len(bag) \/ i = Len(bag) + 1
  BY <1>0, <1>1
<1>3. (\A i \in 1 .. Len(bag) : i \in 1 .. Len(new)) /\ Len(bag) + 1 \in 1 .. Len(new)
  BY <1>0, <1>1
<1>4. Sorted(new)
  <2> SUFFICES ASSUME NEW i \in 1 .. Len(new), NEW j \in 1 .. Len(new), i < j
               PROVE  new[i] < new[j]
    BY DEF Sorted
  <2>1. i \in 1 .. Len(bag) /\ new[i] = bag[i] /\ bag[i] \in Elements(bag)
    <3>1. i \in 1 .. Len(bag)
      BY <1>0, <1>1
    <3>2. new[i] = bag[i]
      BY <1>1, <3>1
    <3> QED BY <3>1, <3>2 DEF Elements
  <2>2. CASE j \in 1 .. Len(bag)
    BY <1>1, <2>1, <2>2 DEF Sorted
  <2>3. CASE j = Len(bag) + 1
    BY <1>1, <2>1, <2>3
  <2> QED BY <1>2, <2>2, <2>3
<1>5. Elements(new) = Elements(bag) \cup {b}
  <2>1. \A i \in 1 .. Len(new) : new[i] \in Elements(bag) \cup {b}
    BY <1>1, <1>2 DEF Elements
  <2>2. \A i \in 1 .. Len(bag) : bag[i] \in Elements(new)
    BY <1>1, <1>3 DEF Elements
  <2>3. b \in Elements(new)
    BY <1>1, <1>3 DEF Elements
  <2>4. Elements(bag) \subseteq Elements(new)
    BY <2>2 DEF Elements
  <2>5. Elements(new) \subseteq Elements(bag) \cup {b}
    <3> SUFFICES ASSUME NEW x \in Elements(new) PROVE x \in Elements(bag) \cup {b}
      OBVIOUS
    <3>1. PICK i \in 1 .. Len(new) : x = new[i]
      BY DEF Elements
    <3> QED BY <2>1, <3>1
  <2> QED BY <2>3, <2>4, <2>5
<1> QED BY <1>1, <1>4, <1>5 DEF new

=============================================================================
