------------------------- MODULE ABtreeSearchProofs -------------------------
(***************************************************************************)
(* What a search finds in a tree that other threads change under it.       *)
(*                                                                         *)
(* First KeepsDictionary.  A search for k may be at a node that has left   *)
(* the tree.  A set of nodes is Guarded for k and a set of values if it is *)
(* closed under the child for k and if each leaf in it that is for k has   *)
(* one of the values; DInv keeps each search for k at a node of such a set *)
(* for the values that k has had since the call began.                     *)
(*                                                                         *)
(* Then ViolationsOwned.  A fix call that does not meet its node must be   *)
(* sure that it is gone: a search for the searchKey of a node that is      *)
(* still in the tree cannot miss it (Seeks, Finds).  VInv adds to this     *)
(* that each violation in the tree has a call still to be made (Owns).     *)
(***************************************************************************)
EXTENDS ABtreeProofs

---------------------------------------------------------------------------
(* What the tree holds *)

Covers(x, k) == x.lo <= k /\ k < x.hi

LEMMA CoversMore ==
    ASSUME NEW x, NEW y, NEW k \in Int, Covers(y, k), x.lo <= y.lo, y.hi <= x.hi,
           x.lo \in Int, x.hi \in Int, y.lo \in Int, y.hi \in Int
    PROVE  Covers(x, k)
BY DEF Covers

\* Two children of a node have no key in common.
LEMMA KidsDisjoint ==
    ASSUME NEW g, NEW r, NEW x, Sound(r, x, g), ~r.leaf, NEW c \in Kids(r), NEW d \in Kids(r),
           NEW k \in Int, Covers(g[c], k), Covers(g[d], k)
    PROVE  c = d
<1> DEFINE n == Len(r.keys)
<1>1. n \in Nat /\ \A y \in Kids(r) : \E i \in 1 .. n + 1 : y = r.ptrs[i]
  BY SoundInner
<1>2. PICK i \in 1 .. n + 1 : c = r.ptrs[i]
  BY <1>1
<1>3. PICK j \in 1 .. n + 1 : d = r.ptrs[j]
  BY <1>1
<1>4. g[c].lo = Low(r.keys, x.lo, i) /\ g[c].hi = High(n, r.keys, x.hi, i)
  BY <1>2, Kid
<1>5. g[d].lo = Low(r.keys, x.lo, j) /\ g[d].hi = High(n, r.keys, x.hi, j)
  BY <1>3, Kid
<1>6. /\ \A u \in 1 .. n : r.keys[u] \in Int
      /\ \A u, v \in 1 .. n : u < v => r.keys[u] < r.keys[v]
  BY SoundInner DEF InnerArray
<1> HIDE DEF n
<1>7. ASSUME NEW u \in 1 .. n + 1, NEW v \in 1 .. n + 1, u < v,
             k < High(n, r.keys, x.hi, u), Low(r.keys, x.lo, v) <= k
      PROVE  FALSE
  <2>1. u \in 1 .. n /\ v - 1 \in 1 .. n /\ u # n + 1 /\ v # 1
    BY <1>1, <1>7
  <2>2. k < r.keys[u] /\ r.keys[v - 1] <= k
    BY <1>7, <2>1 DEF High, Low
  <2>3. r.keys[u] \in Int /\ r.keys[v - 1] \in Int
    BY <1>6, <2>1
  <2>4. u < v - 1 => r.keys[u] < r.keys[v - 1]
    BY <1>6, <2>1
  <2>5. u = v - 1 \/ u < v - 1
    BY <1>1, <1>7
  <2> QED BY <2>2, <2>3, <2>4, <2>5
<1>8. ~(i < j) /\ ~(j < i)
  BY <1>4, <1>5, <1>7 DEF Covers
<1>9. i = j
  BY <1>1, <1>8
<1> QED BY <1>2, <1>3, <1>9

\* At most one leaf of the tree is for a key.
LEMMA OneLeaf ==
    ASSUME NEW g, Fine(heap, g, retired), NEW k \in Int,
           NEW m \in 1 .. Len(heap), m \notin retired, heap[m].leaf, Covers(g[m], k),
           NEW n \in 1 .. Len(heap), n \notin retired, heap[n].leaf, Covers(g[n], k)
    PROVE  m = n
<1> DEFINE N == Len(heap)
           T == {i \in 2 .. N : m \in Below[i] /\ n \in Below[i]}
           root == heap[1].ptrs[1]
<1>1. NodesOK(heap, g) /\ N \in Nat
  BY HeapType DEF Fine
<1>2. IsBelow(Below, N, KidsOf(heap)) /\ Ranked(N, KidsOf(heap), TreeRank(heap, g))
  BY <1>1, BelowIs, NodesRanked
<1>3. \A i \in 1 .. N : Below[i] = {i} \cup UNION {Below[x] : x \in Kids(heap[i])}
  BY <1>2 DEF IsBelow, KidsOf
<1>4. Below[1] = (1 .. N) \ retired
  BY LinkedIs DEF Linked, entry
<1>5. Kids(heap[1]) = {root} /\ root \in 2 .. N /\ ~heap[1].leaf
  BY <1>1, Entry DEF NodesOK
<1>6. root \in T
  <2>1. 1 \in 1 .. N
    BY <1>1, <1>5
  <2>2. Below[1] = {1} \cup Below[root]
    BY <1>3, <1>5, <2>1
  <2>3. m \in Below[root] /\ n \in Below[root]
    BY <1>4, <1>5, <2>2
  <2> QED BY <1>5, <2>3
<1>7. T \subseteq 1 .. N /\ T # {}
  BY <1>1, <1>6
<1> HIDE DEF root, N
<1>8. PICK i \in T : \A x \in KidsOf(heap)[i] : x \in 1 .. N /\ x \notin T
  <2> HIDE DEF T
  <2> QED BY <1>2, <1>7, LeastRank
<1>9. i \in 2 .. N /\ i \in 1 .. N /\ m \in Below[i] /\ n \in Below[i]
  BY <1>1, <1>8
<1>10. \A x \in Kids(heap[i]) : x \notin T
  BY <1>8, <1>9 DEF KidsOf, N
<1>11. CASE heap[i].leaf
  <2>1. Kids(heap[i]) = {}
    BY <1>11 DEF Kids
  <2> QED BY <1>3, <1>9, <2>1
<1>12. CASE ~heap[i].leaf
  <2>1. m # i /\ n # i
    BY <1>12
  <2>2. PICK c \in Kids(heap[i]) : m \in Below[c]
    BY <1>3, <1>9, <2>1
  <2>3. PICK d \in Kids(heap[i]) : n \in Below[d]
    BY <1>3, <1>9, <2>1
  <2>4. c \in 2 .. Len(heap) /\ d \in 2 .. Len(heap)
    BY <1>1, <1>9, <2>2, <2>3, KidOf DEF N
  <2>5. g[c].lo <= g[m].lo /\ g[m].hi <= g[c].hi /\ g[d].lo <= g[n].lo /\ g[n].hi <= g[d].hi
    BY <1>1, <2>2, <2>3, <2>4, BelowBounds
  <2>6. /\ g[c].lo \in Int /\ g[c].hi \in Int /\ g[d].lo \in Int /\ g[d].hi \in Int
        /\ g[m].lo \in Int /\ g[m].hi \in Int /\ g[n].lo \in Int /\ g[n].hi \in Int
    <3>1. m \in 2 .. Len(heap) /\ n \in 2 .. Len(heap)
      BY <1>1, <2>2, <2>3, <2>4, BelowBounds
    <3>2. \A y \in 2 .. Len(heap) : Sound(heap[y], g[y], g)
      BY <1>1, HeapType
    <3>3. \A y \in 2 .. Len(heap) : g[y].lo \in Int /\ g[y].hi \in Int
      BY ONLY <3>2, RankType
    <3> QED BY ONLY <2>4, <3>1, <3>3
  <2>7. Covers(g[c], k) /\ Covers(g[d], k)
    BY <2>5, <2>6, CoversMore
  <2>8. Sound(heap[i], g[i], g)
    BY <1>1, <1>9, HeapType DEF N
  <2>9. c = d
    BY <1>12, <2>2, <2>3, <2>7, <2>8, KidsDisjoint
  <2>10. c \in T
    BY <2>2, <2>3, <2>4, <2>9 DEF N
  <2> QED BY <1>10, <2>2, <2>10
<1> QED BY <1>11, <1>12

\* The leaf r holds the key k, with v.
HasPair(r, k, v) == r.leaf /\ \E i \in 1 .. Len(r.keys) : r.keys[i] = k /\ r.ptrs[i] = v

\* So does some leaf of the tree.
Holds(h, R, k, v) == \E m \in 1 .. Len(h) : m \notin R /\ HasPair(h[m], k, v)

LEMMA LeafPairs ==
    ASSUME NEW r, NEW x, NEW g, IsLeaf(r, x, g), NEW k \in Int
    PROVE  /\ HasKey(r, k) => HasPair(r, k, Lookup(r, k)) /\ Covers(x, k) /\ Lookup(r, k) \in Value
           /\ ~HasKey(r, k) => Lookup(r, k) = NO_VALUE
           /\ \A v : HasPair(r, k, v) => HasKey(r, k) /\ v = Lookup(r, k)
<1> DEFINE n == Len(r.keys)
           ix == getKeyIndex(r, k)
<1>1. /\ r \in NodeType /\ n \in Nat /\ r.keys \in Seq(Key) /\ r.leaf
      /\ LeafArray(n, r.keys, r.ptrs, x.lo, x.hi)
  BY LeafFields DEF IsLeaf
<1>2. /\ ix \in 1 .. n + 1
      /\ HasKey(r, k) => ix \in 1 .. n /\ r.keys[ix] = k
  <2>1. r \in NodeType /\ LeafArray(Len(r.keys), r.keys, r.ptrs, x.lo, x.hi) /\ k \in Int
    BY <1>1
  <2> QED BY ONLY <2>1, KeyIndex
<1>3. DOMAIN r.keys = 1 .. n
  BY <1>1, LenProperties
<1>4. /\ \A i \in 1 .. n : r.keys[i] \in Int /\ x.lo <= r.keys[i] /\ r.keys[i] < x.hi /\ r.ptrs[i] \in Value
      /\ \A i, j \in 1 .. n : i < j => r.keys[i] < r.keys[j]
  BY <1>1 DEF LeafArray
<1> HIDE DEF n, ix
<1>5. ASSUME HasKey(r, k) PROVE HasPair(r, k, Lookup(r, k)) /\ Covers(x, k) /\ Lookup(r, k) \in Value
  <2>1. ix \in 1 .. n /\ r.keys[ix] = k
    BY <1>2, <1>5
  <2>2. Lookup(r, k) = r.ptrs[ix]
    BY <1>5 DEF Lookup, ix
  <2> QED BY <1>1, <1>4, <2>1, <2>2 DEF HasPair, Covers, n
<1>6. ~HasKey(r, k) => Lookup(r, k) = NO_VALUE
  BY DEF Lookup
<1>7. ASSUME NEW v, HasPair(r, k, v) PROVE HasKey(r, k) /\ v = Lookup(r, k)
  <2>1. PICK i \in 1 .. n : r.keys[i] = k /\ r.ptrs[i] = v
    BY <1>7 DEF HasPair, n
  <2>2. HasKey(r, k)
    BY <1>3, <2>1 DEF HasKey
  <2>3. ix \in 1 .. n /\ r.keys[ix] = k
    BY <1>2, <2>2
  <2>4. i = ix
    BY <1>1, <1>4, <2>1, <2>3
  <2> QED BY <2>1, <2>2, <2>4 DEF Lookup, ix
<1> QED BY <1>5, <1>6, <1>7

\* Contents is what the leaves of the tree hold.
ContentsOK ==
    /\ Contents = [k \in Key |-> Contents[k]]
    /\ \A k \in Key : /\ \A v : Holds(heap, retired, k, v) => Contents[k] = v
                      /\ (\A v : ~Holds(heap, retired, k, v)) => Contents[k] = NO_VALUE

\* A leaf of the tree for k is the one that says what k has.
LeavesOK(g) == \A m \in 1 .. Len(heap), k \in Key :
                  m \notin retired /\ heap[m].leaf /\ Covers(g[m], k) => Contents[k] = Lookup(heap[m], k)

LEMMA LiveLeaf ==
    ASSUME NEW g, Fine(heap, g, retired), NEW m \in 1 .. Len(heap), heap[m].leaf
    PROVE  IsLeaf(heap[m], g[m], g)
<1>1. NodesOK(heap, g)
  BY DEF Fine
<1>2. m \in 2 .. Len(heap)
  BY <1>1, HeapType DEF NodesOK
<1> QED BY <1>1, <1>2, HeapType DEF IsLeaf

LEMMA ContentsAre ==
    ASSUME NEW g, Fine(heap, g, retired)
    PROVE  ContentsOK /\ LeavesOK(g)
<1> DEFINE leaves == {n \in Linked : heap[n].leaf}
           held(k) == CHOOSE n \in leaves : HasKey(heap[n], k)
<1>1. \A n : n \in leaves <=> (n \in 1 .. Len(heap) /\ n \notin retired /\ heap[n].leaf)
  BY LinkedIs
<1>2. Contents = [k \in Key |-> IF \E n \in leaves : HasKey(heap[n], k)
                                THEN Lookup(heap[held(k)], k) ELSE NO_VALUE]
  BY Zenon DEF Contents
<1> HIDE DEF leaves
<1>3. \A k \in Key : Contents[k] = IF \E n \in leaves : HasKey(heap[n], k)
                                   THEN Lookup(heap[held(k)], k) ELSE NO_VALUE
  BY <1>2
<1>4. Contents = [k \in Key |-> Contents[k]]
  BY <1>2
<1>5. ASSUME NEW k \in Key, \E n \in leaves : HasKey(heap[n], k)
      PROVE  held(k) \in leaves /\ HasKey(heap[held(k)], k)
  BY <1>5
<1> HIDE DEF held
<1>6. Key \subseteq Int
  BY KeyAssumption
<1>7. ASSUME NEW k \in Key, NEW v, Holds(heap, retired, k, v) PROVE Contents[k] = v
  <2>1. PICK m \in 1 .. Len(heap) : m \notin retired /\ HasPair(heap[m], k, v)
    BY <1>7 DEF Holds
  <2>2. heap[m].leaf /\ m \in leaves
    BY <1>1, <2>1 DEF HasPair
  <2>3. k \in Int /\ IsLeaf(heap[m], g[m], g)
    BY <1>6, <2>2, LiveLeaf
  <2>4. HasKey(heap[m], k) /\ v = Lookup(heap[m], k) /\ Covers(g[m], k)
    BY <2>1, <2>3, LeafPairs
  <2>5. held(k) \in leaves /\ HasKey(heap[held(k)], k) /\ Contents[k] = Lookup(heap[held(k)], k)
    BY <1>3, <1>5, <2>2, <2>4
  <2>6. held(k) \in 1 .. Len(heap) /\ held(k) \notin retired /\ heap[held(k)].leaf
    BY <1>1, <2>5
  <2>7. IsLeaf(heap[held(k)], g[held(k)], g)
    BY <2>6, LiveLeaf
  <2>8. Covers(g[held(k)], k)
    BY <2>3, <2>5, <2>7, LeafPairs
  <2>9. held(k) = m
    BY <2>1, <2>2, <2>3, <2>4, <2>6, <2>8, OneLeaf
  <2> QED BY <2>4, <2>5, <2>9
<1>8. ASSUME NEW k \in Key, \A v : ~Holds(heap, retired, k, v) PROVE Contents[k] = NO_VALUE
  <2>1. SUFFICES ASSUME NEW n \in leaves, HasKey(heap[n], k) PROVE FALSE
    BY <1>3
  <2>2. n \in 1 .. Len(heap) /\ n \notin retired /\ heap[n].leaf /\ k \in Int
    BY <1>1, <1>6
  <2>3. IsLeaf(heap[n], g[n], g)
    BY <2>2, LiveLeaf
  <2>4. HasPair(heap[n], k, Lookup(heap[n], k))
    BY <2>1, <2>2, <2>3, LeafPairs
  <2> QED BY <1>8, <2>2, <2>4 DEF Holds
<1>9. ContentsOK
  BY <1>4, <1>7, <1>8 DEF ContentsOK
<1>10. ASSUME NEW m \in 1 .. Len(heap), NEW k \in Key, m \notin retired, heap[m].leaf, Covers(g[m], k)
       PROVE  Contents[k] = Lookup(heap[m], k)
  <2>1. k \in Int /\ IsLeaf(heap[m], g[m], g)
    BY <1>6, <1>10, LiveLeaf
  <2>2. CASE HasKey(heap[m], k)
    <3>1. HasPair(heap[m], k, Lookup(heap[m], k))
      BY <2>1, <2>2, LeafPairs
    <3> QED BY <1>7, <1>10, <3>1 DEF Holds
  <2>3. CASE ~HasKey(heap[m], k)
    <3>1. Lookup(heap[m], k) = NO_VALUE
      BY <2>1, <2>3, LeafPairs
    <3>2. ASSUME NEW v, Holds(heap, retired, k, v) PROVE FALSE
      <4>1. PICK n \in 1 .. Len(heap) : n \notin retired /\ HasPair(heap[n], k, v)
        BY <3>2 DEF Holds
      <4>2. heap[n].leaf
        BY <4>1 DEF HasPair
      <4>3. IsLeaf(heap[n], g[n], g)
        BY <4>2, LiveLeaf
      <4>4. HasKey(heap[n], k) /\ Covers(g[n], k)
        BY <2>1, <4>1, <4>3, LeafPairs
      <4>5. m = n
        BY <1>10, <2>1, <4>1, <4>2, <4>4, OneLeaf
      <4> QED BY <2>3, <4>4, <4>5
    <3> QED BY <1>8, <3>1, <3>2
  <2> QED BY <2>2, <2>3
<1>11. LeavesOK(g)
  BY <1>10 DEF LeavesOK
<1> QED BY <1>9, <1>11

\* The same after a step.
LEMMA GoodContents == \A g : Good(g) => ContentsOK /\ LeavesOK(g)
BY ContentsAre DEF Good

LEMMA GoodContentsNext == (\A g : Good(g) => ContentsOK /\ LeavesOK(g))'
BY GoodContents, PTL

---------------------------------------------------------------------------
(* What an update makes of the pairs *)

\* One of the first n pairs is k with v.
InPairs(n, keys, ptrs, k, v) == \E i \in 1 .. n : keys[i] = k /\ ptrs[i] = v

LEMMA PairsOfNode ==
    ASSUME NEW w, NEW sk, NEW keys, NEW ptrs, NEW n, Len(keys) = n, NEW k, NEW v
    PROVE  HasPair(MakeNode(TRUE, w, sk, keys, ptrs), k, v) <=> InPairs(n, keys, ptrs, k, v)
BY DEF HasPair, MakeNode, InPairs

LEMMA PairsOfInner ==
    ASSUME NEW w, NEW sk, NEW keys, NEW ptrs, NEW k, NEW v
    PROVE  ~HasPair(MakeNode(FALSE, w, sk, keys, ptrs), k, v)
BY DEF HasPair, MakeNode

LEMMA PartedPairs ==
    ASSUME NEW n \in Nat, NEW keys, NEW ptrs, NEW m \in 0 .. n, NEW K1, NEW Q1, NEW K2, NEW Q2,
           IsPart(K1, keys, 1, m), IsPart(Q1, ptrs, 1, m),
           IsPart(K2, keys, m + 1, n), IsPart(Q2, ptrs, m + 1, n), NEW k, NEW v
    PROVE  InPairs(n, keys, ptrs, k, v) <=> (InPairs(m, K1, Q1, k, v) \/ InPairs(n - m, K2, Q2, k, v))
<1>1. /\ m - 1 + 1 = m /\ n - (m + 1) + 1 = n - m
      /\ \A j \in 1 .. m : 1 + j - 1 = j /\ j \in 1 .. n
      /\ \A j \in 1 .. n - m : m + 1 + j - 1 = m + j /\ m + j \in 1 .. n
      /\ \A j \in 1 .. n : j \in 1 .. m \/ (j - m \in 1 .. n - m /\ m + (j - m) = j)
  OBVIOUS
<1>2. \A j \in 1 .. m : K1[j] = keys[j] /\ Q1[j] = ptrs[j]
  <2>1. \A j \in 1 .. m : K1[j] = keys[1 + j - 1] /\ Q1[j] = ptrs[1 + j - 1]
    BY <1>1 DEF IsPart
  <2> QED BY <1>1, <2>1
<1>3. \A j \in 1 .. n - m : K2[j] = keys[m + j] /\ Q2[j] = ptrs[m + j]
  <2>1. \A j \in 1 .. n - m : K2[j] = keys[m + 1 + j - 1] /\ Q2[j] = ptrs[m + 1 + j - 1]
    BY <1>1 DEF IsPart
  <2> QED BY <1>1, <2>1
<1>4. ASSUME InPairs(n, keys, ptrs, k, v) PROVE InPairs(m, K1, Q1, k, v) \/ InPairs(n - m, K2, Q2, k, v)
  <2>1. PICK j \in 1 .. n : keys[j] = k /\ ptrs[j] = v
    BY <1>4 DEF InPairs
  <2>2. CASE j \in 1 .. m
    BY <1>2, <2>1, <2>2 DEF InPairs
  <2>3. CASE j - m \in 1 .. n - m /\ m + (j - m) = j
    <3>1. K2[j - m] = k /\ Q2[j - m] = v
      BY <1>3, <2>1, <2>3
    <3> QED BY <2>3, <3>1 DEF InPairs
  <2> QED BY <1>1, <2>2, <2>3
<1>5. ASSUME InPairs(m, K1, Q1, k, v) PROVE InPairs(n, keys, ptrs, k, v)
  BY <1>1, <1>2, <1>5 DEF InPairs
<1>6. ASSUME InPairs(n - m, K2, Q2, k, v) PROVE InPairs(n, keys, ptrs, k, v)
  BY <1>1, <1>3, <1>6 DEF InPairs
<1> QED BY <1>4, <1>5, <1>6

\* Two leaves that share an array have its pairs.
LEMMA HalvesPairs ==
    ASSUME NEW keys \in Seq(Key), NEW ptrs \in Seq(Value \cup Nat), Len(ptrs) = Len(keys),
           NEW m \in 0 .. Len(keys), NEW k, NEW v
    PROVE  LET z == Halves(TRUE, keys, ptrs, m)
           IN  InPairs(Len(keys), keys, ptrs, k, v) <=> (HasPair(z.left, k, v) \/ HasPair(z.right, k, v))
<1> DEFINE n == Len(keys)
           K1 == SubSeq(keys, 1, m)
           Q1 == SubSeq(ptrs, 1, m)
           K2 == SubSeq(keys, m + 1, n)
           Q2 == SubSeq(ptrs, m + 1, n)
           z == Halves(TRUE, keys, ptrs, m)
<1>1. n \in Nat /\ m \in Nat /\ m <= n
  BY LenProperties
<1>2. z.left = MakeNode(TRUE, TRUE, K1[1], K1, Q1) /\ z.right = MakeNode(TRUE, TRUE, K2[1], K2, Q2)
  BY DEF Halves
<1> HIDE DEF z, n
<1>3. 1 \in 1 .. n + 1 /\ m \in 1 - 1 .. n /\ m + 1 \in 1 .. n + 1 /\ n \in m + 1 - 1 .. n
  BY <1>1
<1>4. n = Len(keys) /\ n = Len(ptrs)
  BY DEF n
<1>5. IsPart(K1, keys, 1, m) /\ IsPart(Q1, ptrs, 1, m)
  BY <1>3, <1>4, SubSeqIsPart
<1>6. IsPart(K2, keys, m + 1, n) /\ IsPart(Q2, ptrs, m + 1, n)
  BY <1>3, <1>4, SubSeqIsPart
<1> HIDE DEF K1, K2, Q1, Q2
<1>7. Len(K1) = m /\ Len(K2) = n - m
  <2>1. Len(K1) = m - 1 + 1 /\ Len(K2) = n - (m + 1) + 1
    BY <1>5, <1>6 DEF IsPart
  <2> QED BY <1>1, <2>1
<1>8. m \in 0 .. n
  BY <1>1
<1>9. InPairs(n, keys, ptrs, k, v) <=> (InPairs(m, K1, Q1, k, v) \/ InPairs(n - m, K2, Q2, k, v))
  BY ONLY <1>1, <1>5, <1>6, <1>8, PartedPairs
<1>10. /\ HasPair(z.left, k, v) <=> InPairs(m, K1, Q1, k, v)
       /\ HasPair(z.right, k, v) <=> InPairs(n - m, K2, Q2, k, v)
  BY <1>2, <1>7, PairsOfNode
<1> QED BY <1>9, <1>10 DEF z, n

LEMMA JoinedPairs ==
    ASSUME NEW n \in Nat, NEW keys, NEW ptrs, NEW m \in Nat, NEW keys2, NEW ptrs2, NEW K, NEW Q,
           IsJoin(K, keys, n, keys2, m), IsJoin(Q, ptrs, n, ptrs2, m), NEW k, NEW v
    PROVE  InPairs(n + m, K, Q, k, v) <=> (InPairs(n, keys, ptrs, k, v) \/ InPairs(m, keys2, ptrs2, k, v))
<1>1. /\ \A j \in 1 .. n : j \in 1 .. n + m /\ j <= n
      /\ \A j \in 1 .. m : n + j \in 1 .. n + m /\ n + j > n /\ n + j - n = j
      /\ \A j \in 1 .. n + m : j \in 1 .. n \/ (j - n \in 1 .. m /\ j > n)
  OBVIOUS
<1>2. \A j \in 1 .. n + m : /\ j <= n => K[j] = keys[j] /\ Q[j] = ptrs[j]
                            /\ j > n => K[j] = keys2[j - n] /\ Q[j] = ptrs2[j - n]
  BY DEF IsJoin
<1>3. ASSUME InPairs(n + m, K, Q, k, v) PROVE InPairs(n, keys, ptrs, k, v) \/ InPairs(m, keys2, ptrs2, k, v)
  BY <1>1, <1>2, <1>3 DEF InPairs
<1>4. ASSUME InPairs(n, keys, ptrs, k, v) PROVE InPairs(n + m, K, Q, k, v)
  BY <1>1, <1>2, <1>4 DEF InPairs
<1>5. ASSUME InPairs(m, keys2, ptrs2, k, v) PROVE InPairs(n + m, K, Q, k, v)
  <2>1. PICK j \in 1 .. m : keys2[j] = k /\ ptrs2[j] = v
    BY <1>5 DEF InPairs
  <2>2. n + j \in 1 .. n + m /\ n + j > n /\ n + j - n = j
    BY <1>1
  <2>3. K[n + j] = k /\ Q[n + j] = v
    BY <1>2, <2>1, <2>2
  <2> QED BY <2>2, <2>3 DEF InPairs
<1> QED BY <1>3, <1>4, <1>5

\* z is s, of length n, with e inserted at i, at i instead of what was there, and
\* without what was at i.
IsInsert(z, s, n, i, e) ==
    /\ Len(z) = n + 1
    /\ \A j \in 1 .. n + 1 : z[j] = IF j < i THEN s[j] ELSE IF j = i THEN e ELSE s[j - 1]
IsReplace(z, s, n, i, e) == Len(z) = n /\ \A j \in 1 .. n : z[j] = IF j = i THEN e ELSE s[j]
IsRemove(z, s, n, i) ==
    Len(z) = n - 1 /\ \A j \in 1 .. n - 1 : z[j] = IF j < i THEN s[j] ELSE s[j + 1]

LEMMA Inserts ==
    ASSUME NEW S, NEW s \in Seq(S), NEW i \in 1 .. Len(s) + 1, NEW e \in S
    PROVE  InsertAt(s, i, e) \in Seq(S) /\ IsInsert(InsertAt(s, i, e), s, Len(s), i, e)
<1>1. /\ InsertAt(s, i, e) \in Seq(S)
      /\ Len(InsertAt(s, i, e)) = Len(s) + 1
      /\ \A j \in 1 .. Len(s) + 1 :
            InsertAt(s, i, e)[j] = IF j < i THEN s[j] ELSE IF j = i THEN e ELSE s[j - 1]
  BY ONLY i \in 1 .. Len(s) + 1, e \in S, s \in Seq(S), InsertAtIs
<1>2. IsInsert(InsertAt(s, i, e), s, Len(s), i, e)
  BY ONLY <1>1 DEF IsInsert
<1> QED BY <1>1, <1>2

LEMMA Replaces ==
    ASSUME NEW S, NEW s \in Seq(S), NEW i \in 1 .. Len(s), NEW e \in S
    PROVE  ReplaceAt(s, i, e) \in Seq(S) /\ IsReplace(ReplaceAt(s, i, e), s, Len(s), i, e)
BY ReplaceAtIs DEF IsReplace

LEMMA Removes ==
    ASSUME NEW S, NEW s \in Seq(S), NEW i \in 1 .. Len(s)
    PROVE  RemoveAt(s, i) \in Seq(S) /\ IsRemove(RemoveAt(s, i), s, Len(s), i)
BY RemoveAtIs DEF IsRemove

\* The pairs of the leaf r after key gets v in the nodes new; NO_VALUE stands for none.
Assigns(r, new, key, v) ==
    \A k \in Key : \A u : (\E j \in 1 .. Len(new) : HasPair(new[j], k, u))
                      <=> (IF k = key THEN u = v /\ v # NO_VALUE ELSE HasPair(r, k, u))

LEMMA OneAssigns ==
    ASSUME NEW r, NEW n, NEW key, NEW v,
           \A k \in Key : \A u : HasPair(n, k, u) <=> (IF k = key THEN u = v /\ v # NO_VALUE ELSE HasPair(r, k, u))
    PROVE  Assigns(r, <<n>>, key, v)
<1>1. Len(<<n>>) = 1 /\ <<n>>[1] = n
  OBVIOUS
<1>2. \A k, u : (\E j \in 1 .. Len(<<n>>) : HasPair(<<n>>[j], k, u)) <=> HasPair(n, k, u)
  <2> DEFINE s == <<n>>
  <2>1. Len(s) = 1 /\ s[1] = n
    BY <1>1
  <2> HIDE DEF s
  <2>2. \A k, u : (\E j \in 1 .. Len(s) : HasPair(s[j], k, u)) <=> HasPair(n, k, u)
    BY <2>1
  <2> QED BY <2>2 DEF s
<1> QED BY <1>2 DEF Assigns

LEMMA ValueAssigns ==
    ASSUME NEW r, NEW x, NEW g, IsLeaf(r, x, g), NEW key \in Key, HasKey(r, key), NEW v \in Value
    PROVE  Assigns(r, <<ValueNode(r, key, v)>>, key, v)
<1> DEFINE N == Len(r.keys)
           ix == getKeyIndex(r, key)
           Q == ReplaceAt(r.ptrs, ix, v)
<1>1. /\ r \in NodeType /\ N \in Nat /\ r.leaf /\ Len(r.ptrs) = N /\ r.ptrs \in Seq(Value \cup Nat)
      /\ LeafArray(N, r.keys, r.ptrs, x.lo, x.hi) /\ key \in Int
  BY LeafFields, KeyAssumption DEF IsLeaf
<1>2. ix \in 1 .. N /\ r.keys[ix] = key
  BY <1>1, KeyIndex
<1>3. /\ \A j \in 1 .. N : r.keys[j] \in Int
      /\ \A i, j \in 1 .. N : i < j => r.keys[i] < r.keys[j]
  BY <1>1 DEF LeafArray
<1>4. v # NO_VALUE
  BY ValueAssumption
<1> HIDE DEF ix
<1>5. \A j \in 1 .. N : Q[j] = IF j = ix THEN v ELSE r.ptrs[j]
  <2>1. ix \in 1 .. Len(r.ptrs) /\ v \in Value \cup Nat
    BY <1>1, <1>2
  <2>2. IsReplace(Q, r.ptrs, Len(r.ptrs), ix, v)
    BY <1>1, <2>1, Replaces
  <2> QED BY <1>1, <2>2 DEF IsReplace
<1> HIDE DEF Q, N
<1>6. ASSUME NEW k \in Key, NEW u
      PROVE  InPairs(N, r.keys, Q, k, u) <=> (IF k = key THEN u = v /\ v # NO_VALUE ELSE InPairs(N, r.keys, r.ptrs, k, u))
  <2>1. \A j \in 1 .. N : r.keys[j] = key => j = ix
    BY <1>1, <1>2, <1>3
  <2>2. CASE k = key
    BY <1>2, <1>4, <1>5, <2>1, <2>2 DEF InPairs
  <2>3. CASE k # key
    <3>1. \A j \in 1 .. N : r.keys[j] = k => Q[j] = r.ptrs[j]
      BY <1>2, <1>5, <2>3
    <3> QED BY <2>3, <3>1 DEF InPairs
  <2> QED BY <2>2, <2>3
<1>7. ASSUME NEW k \in Key, NEW u
      PROVE  HasPair(ValueNode(r, key, v), k, u) <=> (IF k = key THEN u = v /\ v # NO_VALUE ELSE HasPair(r, k, u))
  <2>1. HasPair(ValueNode(r, key, v), k, u) <=> InPairs(N, r.keys, Q, k, u)
    BY PairsOfNode DEF ValueNode, Q, ix, N
  <2>2. HasPair(r, k, u) <=> InPairs(N, r.keys, r.ptrs, k, u)
    BY <1>1 DEF HasPair, InPairs, N
  <2> QED BY <1>6, <2>1, <2>2
<1>8. \A k \in Key : \A u : HasPair(ValueNode(r, key, v), k, u)
                       <=> (IF k = key THEN u = v /\ v # NO_VALUE ELSE HasPair(r, k, u))
  BY <1>7
<1> QED BY ONLY <1>8, OneAssigns

LEMMA InsertedPairs ==
    ASSUME NEW r, NEW x, NEW g, IsLeaf(r, x, g), NEW key \in Key, ~HasKey(r, key), NEW v \in Value
    PROVE  LET K == InsertAt(r.keys, getKeyIndex(r, key), key)
               Q == InsertAt(r.ptrs, getKeyIndex(r, key), v)
           IN  /\ Len(K) = Len(r.keys) + 1 /\ Len(Q) = Len(r.keys) + 1
               /\ K \in Seq(Key) /\ Q \in Seq(Value \cup Nat)
               /\ \A k \in Key : \A u : InPairs(Len(r.keys) + 1, K, Q, k, u)
                                    <=> (IF k = key THEN u = v /\ v # NO_VALUE ELSE HasPair(r, k, u))
<1> DEFINE N == Len(r.keys)
           ix == getKeyIndex(r, key)
           K == InsertAt(r.keys, ix, key)
           Q == InsertAt(r.ptrs, ix, v)
<1>1. /\ r \in NodeType /\ N \in Nat /\ r.leaf /\ Len(r.ptrs) = N /\ r.ptrs \in Seq(Value \cup Nat)
      /\ r.keys \in Seq(Key)
      /\ LeafArray(N, r.keys, r.ptrs, x.lo, x.hi) /\ key \in Int
  BY LeafFields, KeyAssumption DEF IsLeaf
<1>2. ix \in 1 .. N + 1
  BY <1>1, KeyIndex
<1>3. \A j \in 1 .. N : r.keys[j] # key
  <2>1. DOMAIN r.keys = 1 .. N
    BY <1>1, LenProperties
  <2> QED BY <2>1 DEF HasKey
<1>4. v # NO_VALUE
  BY ValueAssumption
<1> HIDE DEF ix
<1>5. /\ K \in Seq(Key) /\ Len(K) = N + 1
      /\ \A j \in 1 .. N + 1 : K[j] = IF j < ix THEN r.keys[j] ELSE IF j = ix THEN key ELSE r.keys[j - 1]
  <2>1. ix \in 1 .. Len(r.keys) + 1 /\ r.keys \in Seq(Key) /\ key \in Key
    BY <1>1, <1>2
  <2>2. K \in Seq(Key) /\ IsInsert(K, r.keys, Len(r.keys), ix, key)
    BY <2>1, Inserts
  <2> HIDE DEF K
  <2> QED BY <2>2 DEF IsInsert
<1>6. /\ Q \in Seq(Value \cup Nat) /\ Len(Q) = N + 1
      /\ \A j \in 1 .. N + 1 : Q[j] = IF j < ix THEN r.ptrs[j] ELSE IF j = ix THEN v ELSE r.ptrs[j - 1]
  <2>1. ix \in 1 .. Len(r.ptrs) + 1 /\ v \in Value \cup Nat
    BY <1>1, <1>2
  <2>2. Q \in Seq(Value \cup Nat) /\ IsInsert(Q, r.ptrs, Len(r.ptrs), ix, v)
    BY <1>1, <2>1, Inserts
  <2> HIDE DEF Q
  <2> QED BY <1>1, <2>2 DEF IsInsert
<1> HIDE DEF K, Q, N
<1>7. ASSUME NEW k \in Key, NEW u
      PROVE  InPairs(N + 1, K, Q, k, u)
             <=> (IF k = key THEN u = v /\ v # NO_VALUE ELSE InPairs(N, r.keys, r.ptrs, k, u))
  <2>1. /\ \A j \in 1 .. N + 1 : j < ix => j \in 1 .. N /\ K[j] = r.keys[j] /\ Q[j] = r.ptrs[j]
        /\ \A j \in 1 .. N + 1 : j > ix => j - 1 \in 1 .. N /\ K[j] = r.keys[j - 1] /\ Q[j] = r.ptrs[j - 1]
        /\ \A j \in 1 .. N + 1 : j < ix \/ j = ix \/ j > ix
        /\ K[ix] = key /\ Q[ix] = v
    BY <1>1, <1>2, <1>5, <1>6
  <2>2. CASE k = key
    <3>1. \A j \in 1 .. N + 1 : K[j] = key => j = ix
      BY <1>3, <2>1
    <3> QED BY <1>2, <1>4, <2>1, <2>2, <3>1 DEF InPairs
  <2>3. CASE k # key
    <3>1. ASSUME InPairs(N + 1, K, Q, k, u) PROVE InPairs(N, r.keys, r.ptrs, k, u)
      BY <2>1, <2>3, <3>1 DEF InPairs
    <3>2. ASSUME InPairs(N, r.keys, r.ptrs, k, u) PROVE InPairs(N + 1, K, Q, k, u)
      <4>1. PICK j \in 1 .. N : r.keys[j] = k /\ r.ptrs[j] = u
        BY <3>2 DEF InPairs
      <4>2. (j < ix /\ j \in 1 .. N + 1) \/ (j + 1 > ix /\ j + 1 \in 1 .. N + 1 /\ j + 1 - 1 = j)
        BY <1>1, <1>2
      <4>3. CASE j < ix /\ j \in 1 .. N + 1
        BY <2>1, <4>1, <4>3 DEF InPairs
      <4>4. CASE j + 1 > ix /\ j + 1 \in 1 .. N + 1 /\ j + 1 - 1 = j
        <5>1. K[j + 1] = k /\ Q[j + 1] = u
          BY <2>1, <4>1, <4>4
        <5> QED BY <4>4, <5>1 DEF InPairs
      <4> QED BY <4>2, <4>3, <4>4
    <3> QED BY <2>3, <3>1, <3>2
  <2> QED BY <2>2, <2>3
<1>8. \A k, u : HasPair(r, k, u) <=> InPairs(N, r.keys, r.ptrs, k, u)
  BY <1>1 DEF HasPair, InPairs, N
<1>9. \A k \in Key : \A u : InPairs(N + 1, K, Q, k, u)
                       <=> (IF k = key THEN u = v /\ v # NO_VALUE ELSE HasPair(r, k, u))
  BY <1>7, <1>8
<1> QED BY <1>5, <1>6, <1>9 DEF K, Q, N, ix

LEMMA PairAssigns ==
    ASSUME NEW r, NEW x, NEW g, IsLeaf(r, x, g), NEW key \in Key, ~HasKey(r, key), NEW v \in Value
    PROVE  Assigns(r, <<PairNode(r, key, v)>>, key, v)
<1> DEFINE K == InsertAt(r.keys, getKeyIndex(r, key), key)
           Q == InsertAt(r.ptrs, getKeyIndex(r, key), v)
<1>1. Len(K) = Len(r.keys) + 1
      /\ \A k \in Key : \A u : InPairs(Len(r.keys) + 1, K, Q, k, u)
                          <=> (IF k = key THEN u = v /\ v # NO_VALUE ELSE HasPair(r, k, u))
  BY InsertedPairs
<1>2. PairNode(r, key, v) = MakeNode(TRUE, r.weight, r.searchKey, K, Q)
  BY DEF PairNode
<1> HIDE DEF K, Q
<1>3. \A k, u : HasPair(PairNode(r, key, v), k, u) <=> InPairs(Len(r.keys) + 1, K, Q, k, u)
  BY <1>1, <1>2, PairsOfNode
<1>4. \A k \in Key : \A u : HasPair(PairNode(r, key, v), k, u)
                       <=> (IF k = key THEN u = v /\ v # NO_VALUE ELSE HasPair(r, k, u))
  BY <1>1, <1>3
<1> QED BY <1>4, OneAssigns

LEMMA LessAssigns ==
    ASSUME NEW r, NEW x, NEW g, IsLeaf(r, x, g), NEW key \in Key, HasKey(r, key)
    PROVE  Assigns(r, <<LessNode(r, key)>>, key, NO_VALUE)
<1> DEFINE N == Len(r.keys)
           ix == getKeyIndex(r, key)
           K == RemoveAt(r.keys, ix)
           Q == RemoveAt(r.ptrs, ix)
<1>1. /\ r \in NodeType /\ N \in Nat /\ r.leaf /\ Len(r.ptrs) = N /\ r.ptrs \in Seq(Value \cup Nat)
      /\ r.keys \in Seq(Key)
      /\ LeafArray(N, r.keys, r.ptrs, x.lo, x.hi) /\ key \in Int
  BY LeafFields, KeyAssumption DEF IsLeaf
<1>2. ix \in 1 .. N /\ r.keys[ix] = key
  BY <1>1, KeyIndex
<1>3. /\ \A j \in 1 .. N : r.keys[j] \in Int
      /\ \A i, j \in 1 .. N : i < j => r.keys[i] < r.keys[j]
  BY <1>1 DEF LeafArray
<1> HIDE DEF ix
<1>4. Len(K) = N - 1 /\ \A j \in 1 .. N - 1 : K[j] = IF j < ix THEN r.keys[j] ELSE r.keys[j + 1]
  <2>1. IsRemove(K, r.keys, Len(r.keys), ix)
    BY <1>1, <1>2, Removes
  <2> HIDE DEF K
  <2> QED BY <2>1 DEF IsRemove
<1>5. \A j \in 1 .. N - 1 : Q[j] = IF j < ix THEN r.ptrs[j] ELSE r.ptrs[j + 1]
  <2>1. ix \in 1 .. Len(r.ptrs)
    BY <1>1, <1>2
  <2>2. IsRemove(Q, r.ptrs, Len(r.ptrs), ix)
    BY <1>1, <2>1, Removes
  <2> HIDE DEF Q
  <2> QED BY <1>1, <2>2 DEF IsRemove
<1> HIDE DEF K, Q, N
<1>6. ASSUME NEW k, NEW u
      PROVE  InPairs(N - 1, K, Q, k, u) <=> (k # key /\ InPairs(N, r.keys, r.ptrs, k, u))
  <2>1. \A j \in 1 .. N : r.keys[j] = key => j = ix
    BY <1>1, <1>2, <1>3
  <2>2. ASSUME InPairs(N - 1, K, Q, k, u) PROVE k # key /\ InPairs(N, r.keys, r.ptrs, k, u)
    <3>1. PICK j \in 1 .. N - 1 : K[j] = k /\ Q[j] = u
      BY <2>2 DEF InPairs
    <3>2. CASE j < ix
      <4>1. j \in 1 .. N /\ j # ix /\ r.keys[j] = k /\ r.ptrs[j] = u
        BY <1>1, <1>2, <1>4, <1>5, <3>1, <3>2
      <4> QED BY <2>1, <4>1 DEF InPairs
    <3>3. CASE ~(j < ix)
      <4>1. j + 1 \in 1 .. N /\ j + 1 # ix /\ r.keys[j + 1] = k /\ r.ptrs[j + 1] = u
        BY <1>1, <1>2, <1>4, <1>5, <3>1, <3>3
      <4> QED BY <2>1, <4>1 DEF InPairs
    <3> QED BY <3>2, <3>3
  <2>3. ASSUME k # key, InPairs(N, r.keys, r.ptrs, k, u) PROVE InPairs(N - 1, K, Q, k, u)
    <3>1. PICK j \in 1 .. N : r.keys[j] = k /\ r.ptrs[j] = u
      BY <2>3 DEF InPairs
    <3>2. j # ix
      BY <1>2, <2>3, <3>1
    <3>3. CASE j < ix
      <4>1. j \in 1 .. N - 1 /\ K[j] = k /\ Q[j] = u
        BY <1>1, <1>2, <1>4, <1>5, <3>1, <3>3
      <4> QED BY <4>1 DEF InPairs
    <3>4. CASE ~(j < ix)
      <4>1. j - 1 \in 1 .. N - 1 /\ ~(j - 1 < ix) /\ j - 1 + 1 = j
        BY <1>1, <1>2, <3>2, <3>4
      <4>2. K[j - 1] = k /\ Q[j - 1] = u
        BY <1>4, <1>5, <3>1, <4>1
      <4> QED BY <4>1, <4>2 DEF InPairs
    <3> QED BY <3>3, <3>4
  <2> QED BY <2>2, <2>3
<1>7. \A k \in Key : \A u : HasPair(LessNode(r, key), k, u)
                       <=> (IF k = key THEN u = NO_VALUE /\ NO_VALUE # NO_VALUE ELSE HasPair(r, k, u))
  <2> SUFFICES ASSUME NEW k \in Key, NEW u
               PROVE  HasPair(LessNode(r, key), k, u) <=> (k # key /\ HasPair(r, k, u))
    OBVIOUS
  <2>1. HasPair(LessNode(r, key), k, u) <=> InPairs(N - 1, K, Q, k, u)
    BY <1>4, PairsOfNode DEF LessNode, K, Q, ix, N
  <2>2. HasPair(r, k, u) <=> InPairs(N, r.keys, r.ptrs, k, u)
    BY <1>1 DEF HasPair, InPairs, N
  <2> QED BY <1>6, <2>1, <2>2
<1> QED BY ONLY <1>7, OneAssigns

LEMMA OverflowAssigns ==
    ASSUME NEW r, NEW x, NEW g, IsLeaf(r, x, g), NEW key \in Key, ~HasKey(r, key), NEW v \in Value,
           Len(r.keys) = b, NEW w, NEW N, NEW z, z = LeafHalves(r, key, v)
    PROVE  Assigns(r, <<TopNode(w, z, N), z.left, z.right>>, key, v)
<1> DEFINE K == InsertAt(r.keys, getKeyIndex(r, key), key)
           Q == InsertAt(r.ptrs, getKeyIndex(r, key), v)
           m == (DEGREE + 1) \div 2
           n == TopNode(w, z, N)
<1>1. /\ Len(K) = Len(r.keys) + 1 /\ Len(Q) = Len(r.keys) + 1
      /\ K \in Seq(Key) /\ Q \in Seq(Value \cup Nat)
      /\ \A k \in Key : \A u : InPairs(Len(r.keys) + 1, K, Q, k, u)
                          <=> (IF k = key THEN u = v /\ v # NO_VALUE ELSE HasPair(r, k, u))
  BY InsertedPairs
<1>2. z = Halves(TRUE, K, Q, m)
  BY DEF LeafHalves
<1>3. m \in 0 .. DEGREE + 1
  BY DegreeAssumption
<1>4. Len(K) = DEGREE + 1
  BY <1>1 DEF b
<1> HIDE DEF K, Q, m, n
<1>5. Len(Q) = Len(K) /\ m \in 0 .. Len(K)
  BY <1>1, <1>3, <1>4
<1>6. \A k, u : InPairs(Len(K), K, Q, k, u) <=> (HasPair(z.left, k, u) \/ HasPair(z.right, k, u))
  BY <1>1, <1>2, <1>5, HalvesPairs
<1>7. \A k, u : ~HasPair(n, k, u)
  BY PairsOfInner DEF n, TopNode
<1> DEFINE s == <<n, z.left, z.right>>
<1>8. Len(s) = 3 /\ s[1] = n /\ s[2] = z.left /\ s[3] = z.right
  OBVIOUS
<1> HIDE DEF s
<1>9. \A k, u : (\E j \in 1 .. Len(s) : HasPair(s[j], k, u)) <=> (HasPair(z.left, k, u) \/ HasPair(z.right, k, u))
  BY <1>7, <1>8
<1>10. Assigns(r, s, key, v)
  BY <1>1, <1>6, <1>9 DEF Assigns
<1> QED BY <1>10 DEF s, n

\* What goes has the pairs of what comes.
SamePairs(h, D, new) ==
    \A k, u : (\E m \in D : HasPair(h[m], k, u)) <=> (\E j \in 1 .. Len(new) : HasPair(new[j], k, u))

\* m, for a leaf, has the pairs of the leaves s1 and s2.
HoldsBoth(m, s1, s2) ==
    /\ m.leaf = TRUE /\ m.keys \in Seq(Key) /\ m.ptrs \in Seq(Value \cup Nat)
    /\ Len(m.ptrs) = Len(m.keys)
    /\ \A k, v : InPairs(Len(m.keys), m.keys, m.ptrs, k, v) <=> (HasPair(s1, k, v) \/ HasPair(s2, k, v))

LEMMA JoinPairs ==
    ASSUME NEW r, NEW i, NEW s1, NEW x1, NEW s2, NEW x2, NEW g, IsLeaf(s1, x1, g), IsLeaf(s2, x2, g)
    PROVE  HoldsBoth(JoinOf(r, i, s1, s2), s1, s2)
<1> DEFINE m == JoinOf(r, i, s1, s2)
           n1 == Len(s1.keys)
           n2 == Len(s2.keys)
           K == s1.keys \o s2.keys
           Q == s1.ptrs \o s2.ptrs
<1>1. /\ n1 \in Nat /\ s1.keys \in Seq(Key) /\ s1.ptrs \in Seq(Value \cup Nat) /\ Len(s1.ptrs) = n1 /\ s1.leaf
      /\ s1 \in NodeType
  BY LeafFields DEF IsLeaf
<1>2. /\ n2 \in Nat /\ s2.keys \in Seq(Key) /\ s2.ptrs \in Seq(Value \cup Nat) /\ Len(s2.ptrs) = n2 /\ s2.leaf
  BY LeafFields DEF IsLeaf
<1>3. s1.leaf = TRUE
  BY <1>1 DEF NodeType
<1>4. s1.keys \o <<>> = s1.keys
  BY <1>1, ConcatEmptySeq
<1>5. m.leaf = TRUE /\ m.keys = K /\ m.ptrs = Q
  BY <1>3, <1>4 DEF JoinOf
<1>6. K \in Seq(Key) /\ IsJoin(K, s1.keys, n1, s2.keys, n2)
  BY <1>1, <1>2, ConcatIsJoin
<1>7. Q \in Seq(Value \cup Nat) /\ IsJoin(Q, s1.ptrs, n1, s2.ptrs, n2)
  <2>1. Q \in Seq(Value \cup Nat) /\ IsJoin(Q, s1.ptrs, Len(s1.ptrs), s2.ptrs, Len(s2.ptrs))
    BY <1>1, <1>2, ConcatIsJoin
  <2> QED BY <1>1, <1>2, <2>1
<1> HIDE DEF K, Q, n1, n2
<1>8. Len(K) = n1 + n2 /\ Len(Q) = n1 + n2
  BY <1>6, <1>7 DEF IsJoin
<1>9. \A k, v : InPairs(n1 + n2, K, Q, k, v)
                <=> (InPairs(n1, s1.keys, s1.ptrs, k, v) \/ InPairs(n2, s2.keys, s2.ptrs, k, v))
  BY ONLY <1>1, <1>2, <1>6, <1>7, JoinedPairs
<1>10. \A k, v : /\ HasPair(s1, k, v) <=> InPairs(n1, s1.keys, s1.ptrs, k, v)
                 /\ HasPair(s2, k, v) <=> InPairs(n2, s2.keys, s2.ptrs, k, v)
  BY <1>1, <1>2 DEF HasPair, InPairs, n1, n2
<1>11. Len(Q) = Len(K)
       /\ \A k, v : InPairs(Len(K), K, Q, k, v) <=> (HasPair(s1, k, v) \/ HasPair(s2, k, v))
  BY <1>8, <1>9, <1>10
<1> HIDE DEF m
<1> QED BY <1>5, <1>6, <1>7, <1>11 DEF HoldsBoth, m

\* Neighbours without a weight violation are both leaves, or neither is.
LEMMA PairAlike ==
    ASSUME NEW h, NEW g, NodesOK(h, g), NEW p \in 2 .. Len(h), NEW c \in Kids(h[p]), NEW d \in Kids(h[p]),
           h[c].weight, h[d].weight, h[c].leaf
    PROVE  h[d].leaf
<1>1. /\ c \in 2 .. Len(h) /\ d \in 2 .. Len(h)
      /\ g[c].ht = g[p].ht - W(h[p]) /\ g[d].ht = g[p].ht - W(h[p])
  BY KidOf
<1>2. Sound(h[c], g[c], g) /\ Sound(h[d], g[d], g)
  BY <1>1, HeapType
<1>3. g[c].ht = 1
  BY <1>2 DEF Sound
<1>4. ASSUME ~h[d].leaf PROVE FALSE
  <2>1. InnerArray(Len(h[d].keys), h[d].keys, h[d].ptrs, g[d].lo, g[d].hi, g[d].ht - W(h[d]), g)
        /\ g[d].ht \in Int
    BY <1>2, <1>4, RankType DEF Sound
  <2>2. g[d].ht - W(h[d]) >= 1
    BY <2>1 DEF InnerArray
  <2>3. g[d].ht = 1 /\ W(h[d]) = 1
    BY <1>1, <1>3 DEF W
  <2> QED BY <2>2, <2>3
<1> QED BY <1>4

LEMMA NoLeaves ==
    ASSUME NEW h, NEW D, NEW new, \A m \in D : ~h[m].leaf, \A j \in 1 .. Len(new) : ~new[j].leaf
    PROVE  SamePairs(h, D, new)
BY DEF SamePairs, HasPair

\* The nodes c and d, children of p, in one node, and in two.
LEMMA JointPairs ==
    ASSUME NEW h, NEW g, NodesOK(h, g), NEW p \in 2 .. Len(h), NEW c \in Kids(h[p]), NEW d \in Kids(h[p]),
           h[c].weight, h[d].weight, NEW i, NEW m, m = JoinOf(h[p], i, h[c], h[d]), NEW sk
    PROVE  LET z == PartHalves(m.leaf, m)
           IN  \A k, u : /\ HasPair(JointNode(m, sk), k, u) <=> (HasPair(h[c], k, u) \/ HasPair(h[d], k, u))
                         /\ (HasPair(z.left, k, u) \/ HasPair(z.right, k, u))
                            <=> (HasPair(h[c], k, u) \/ HasPair(h[d], k, u))
<1> DEFINE z == PartHalves(m.leaf, m)
<1>1. /\ c \in 2 .. Len(h) /\ d \in 2 .. Len(h)
  BY KidOf
<1>2. Sound(h[c], g[c], g) /\ Sound(h[d], g[d], g) /\ h[c] \in NodeType
  BY <1>1, HeapType
<1>3. m.leaf = h[c].leaf /\ m.leaf \in BOOLEAN
  BY <1>2 DEF JoinOf, NodeType
<1>4. CASE h[c].leaf
  <2>1. h[d].leaf
    BY <1>4, PairAlike
  <2>2. IsLeaf(h[c], g[c], g) /\ IsLeaf(h[d], g[d], g)
    BY <1>2, <1>4, <2>1 DEF IsLeaf
  <2>3. /\ m.leaf = TRUE /\ m.keys \in Seq(Key) /\ m.ptrs \in Seq(Value \cup Nat)
        /\ Len(m.ptrs) = Len(m.keys)
        /\ \A k, v : InPairs(Len(m.keys), m.keys, m.ptrs, k, v) <=> (HasPair(h[c], k, v) \/ HasPair(h[d], k, v))
    <3>1. HoldsBoth(JoinOf(h[p], i, h[c], h[d]), h[c], h[d])
      BY ONLY <2>2, JoinPairs
    <3> QED BY <3>1 DEF HoldsBoth
  <2>4. \A k, u : HasPair(JointNode(m, sk), k, u) <=> InPairs(Len(m.keys), m.keys, m.ptrs, k, u)
    <3> DEFINE K == m.keys
               Q == m.ptrs
    <3>1. JointNode(m, sk) = MakeNode(TRUE, TRUE, sk, K, Q)
      BY <2>3 DEF JointNode
    <3> HIDE DEF K, Q
    <3>2. \A k, u : HasPair(MakeNode(TRUE, TRUE, sk, K, Q), k, u) <=> InPairs(Len(K), K, Q, k, u)
      BY ONLY PairsOfNode
    <3> QED BY <3>1, <3>2 DEF K, Q
  <2>5. z = Halves(TRUE, m.keys, m.ptrs, Len(m.ptrs) \div 2)
    BY <2>3 DEF PartHalves
  <2>6. Len(m.keys) \in Nat
    BY <2>3, LenProperties
  <2>7. Len(m.ptrs) \div 2 \in 0 .. Len(m.keys)
    <3> DEFINE n == Len(m.keys)
    <3>1. n \in Nat /\ Len(m.ptrs) = n
      BY <2>3, <2>6
    <3> HIDE DEF n
    <3>2. n \div 2 \in 0 .. n
      BY ONLY <3>1
    <3> QED BY <3>1, <3>2 DEF n
  <2>8. \A k, u : InPairs(Len(m.keys), m.keys, m.ptrs, k, u) <=> (HasPair(z.left, k, u) \/ HasPair(z.right, k, u))
    <3> HIDE DEF z
    <3> QED BY <2>3, <2>5, <2>7, HalvesPairs
  <2> HIDE DEF z
  <2> QED BY <2>3, <2>4, <2>8 DEF z
<1>5. CASE ~h[c].leaf
  <2>1. ~h[d].leaf
    BY <1>5, PairAlike
  <2>2. m.leaf = FALSE
    BY <1>3, <1>5
  <2>3. JointNode(m, sk).leaf = FALSE /\ z.left.leaf = FALSE /\ z.right.leaf = FALSE
    BY <2>2 DEF JointNode, PartHalves, Halves, MakeNode
  <2> HIDE DEF z
  <2>4. \A k, u : /\ ~HasPair(JointNode(m, sk), k, u) /\ ~HasPair(z.left, k, u) /\ ~HasPair(z.right, k, u)
                  /\ ~HasPair(h[c], k, u) /\ ~HasPair(h[d], k, u)
    BY <1>5, <2>1, <2>3 DEF HasPair
  <2> QED BY <2>4 DEF z
<1> QED BY <1>4, <1>5

LEMMA AbsorbPairs ==
    ASSUME NEW h, NEW p, NEW l, ~h[p].leaf, ~h[l].leaf, NEW m
    PROVE  SamePairs(h, {p} \cup {l}, <<WholeNode(m)>>)
<1> DEFINE s == <<WholeNode(m)>>
<1>1. Len(s) = 1 /\ ~s[1].leaf
  BY DEF WholeNode, MakeNode
<1> HIDE DEF s
<1>2. \A j \in 1 .. Len(s) : ~s[j].leaf
  BY <1>1
<1>3. \A x \in {p} \cup {l} : ~h[x].leaf
  OBVIOUS
<1>4. SamePairs(h, {p} \cup {l}, s)
  BY ONLY <1>2, <1>3, NoLeaves
<1> QED BY <1>4 DEF s

LEMMA SplitPairs ==
    ASSUME NEW h, NEW p, NEW l, ~h[p].leaf, ~h[l].leaf, NEW m, NEW w, NEW N,
           NEW z, z = PartHalves(FALSE, m)
    PROVE  SamePairs(h, {p} \cup {l}, <<TopNode(w, z, N), z.left, z.right>>)
<1> DEFINE s == <<TopNode(w, z, N), z.left, z.right>>
<1>0. ~z.left.leaf /\ ~z.right.leaf
  BY DEF PartHalves, Halves, MakeNode
<1>1. Len(s) = 3 /\ ~s[1].leaf /\ ~s[2].leaf /\ ~s[3].leaf
  BY <1>0 DEF TopNode, MakeNode
<1> HIDE DEF s
<1>2. \A j \in 1 .. Len(s) : ~s[j].leaf
  BY <1>1
<1>3. \A x \in {p} \cup {l} : ~h[x].leaf
  OBVIOUS
<1>4. SamePairs(h, {p} \cup {l}, s)
  BY ONLY <1>2, <1>3, NoLeaves
<1> QED BY <1>4 DEF s

\* The pairs of two neighbours, c and d, are those of the new nodes.
LEMMA PairPairs ==
    ASSUME NEW h, NEW p, ~h[p].leaf, NEW l, NEW s, NEW c, NEW d, {c, d} = {l, s}, NEW new,
           \A k, u : (\E j \in 1 .. Len(new) : HasPair(new[j], k, u)) <=> (HasPair(h[c], k, u) \/ HasPair(h[d], k, u))
    PROVE  SamePairs(h, {p} \cup {l, s}, new)
<1>1. \A k, u : ~HasPair(h[p], k, u)
  BY DEF HasPair
<1>2. ASSUME NEW k, NEW u
      PROVE  (\E m \in {p} \cup {l, s} : HasPair(h[m], k, u)) <=> (HasPair(h[c], k, u) \/ HasPair(h[d], k, u))
  <2>1. {p} \cup {l, s} = {p, c, d}
    OBVIOUS
  <2> QED BY <1>1, <2>1
<1> QED BY <1>2 DEF SamePairs

---------------------------------------------------------------------------
(* The updates *)

\* The tree is rebalanced.
Rebalances(t, g) == \E new, removed, s : /\ IsParentUpdate(t, g, new, removed, s)
                                         /\ SamePairs(heap, {pos[t].p} \cup removed, new)

\* The key of the call of t gets v.
Effect(t, v) == \/ call[t].op = "insert" /\ v = call[t].val
                \/ call[t].op = "insertIfAbsent" /\ v = call[t].val /\ ~HasKey(At(t), call[t].key)
                \/ call[t].op = "erase" /\ v = NO_VALUE /\ HasKey(At(t), call[t].key)

TakesEffect(t, g) == \E new, s, v : /\ IsLeafUpdate(t, g, new, s, v)
                               /\ Assigns(At(t), new, call[t].key, v) /\ Effect(t, v) /\ Operating(t)

LEMMA ValueTakes ==
    ASSUME NEW g, Good(g), Funs, WorkOK, NEW t \in Thread, ReplaceValue(t) PROVE TakesEffect(t, g)
<1> DEFINE r == At(t)
           key == call[t].key
           v == call[t].val
<1>1. IsLeafUpdate(t, g, <<ValueNode(r, key, v)>>, <<Fix("degree", Fresh(1))>>, v)
  BY ValueUpdate
<1>2. Inserting(t) /\ HasKey(r, key) /\ call[t].op = "insert"
  BY DEF ReplaceValue
<1>3. IsLeaf(r, g[pos[t].l], g) /\ key \in Key /\ v \in Value
  BY <1>1, <1>2, InsertCalls DEF AtLeaf, Inserting, IsLeafUpdate
<1>4. Assigns(r, <<ValueNode(r, key, v)>>, key, v)
  <2> HIDE DEF r, key, v
  <2> QED BY ONLY <1>2, <1>3, ValueAssigns
<1>5. Effect(t, v) /\ Operating(t)
  BY <1>2 DEF Effect, Inserting
<1> QED BY <1>1, <1>4, <1>5 DEF TakesEffect

LEMMA PairTakes ==
    ASSUME NEW g, Good(g), Funs, WorkOK, NEW t \in Thread, InsertPair(t) PROVE TakesEffect(t, g)
<1> DEFINE r == At(t)
           key == call[t].key
           v == call[t].val
<1>1. IsLeafUpdate(t, g, <<PairNode(r, key, v)>>, <<Fix("degree", Fresh(1))>>, v)
  BY PairUpdate
<1>2. Inserting(t) /\ ~HasKey(r, key)
  BY DEF InsertPair
<1>3. IsLeaf(r, g[pos[t].l], g) /\ key \in Key /\ v \in Value
  BY <1>1, <1>2, InsertCalls DEF AtLeaf, Inserting, IsLeafUpdate
<1>4. Assigns(r, <<PairNode(r, key, v)>>, key, v)
  <2> HIDE DEF r, key, v
  <2> QED BY ONLY <1>2, <1>3, PairAssigns
<1>5. Effect(t, v) /\ Operating(t)
  BY <1>2 DEF Effect, Inserting
<1> QED BY <1>1, <1>4, <1>5 DEF TakesEffect

LEMMA EraseTakes ==
    ASSUME NEW g, Good(g), Funs, WorkOK, NEW t \in Thread, Erase(t) PROVE TakesEffect(t, g)
<1> DEFINE r == At(t)
           key == call[t].key
<1>1. IsLeafUpdate(t, g, <<LessNode(r, key)>>, <<Fix("degree", Fresh(1))>>, NO_VALUE)
  BY EraseUpdate
<1>2. Operating(t) /\ HasKey(r, key) /\ call[t].op = "erase"
  BY DEF Erase
<1>3. IsLeaf(r, g[pos[t].l], g) /\ key \in Key
  BY <1>1, <1>2 DEF AtLeaf, IsLeafUpdate
<1>4. Assigns(r, <<LessNode(r, key)>>, key, NO_VALUE)
  <2> HIDE DEF r, key
  <2> QED BY ONLY <1>2, <1>3, LessAssigns
<1>5. Effect(t, NO_VALUE)
  BY <1>2 DEF Effect
<1> QED BY <1>1, <1>2, <1>4, <1>5 DEF TakesEffect

LEMMA OverflowTakes ==
    ASSUME NEW g, Good(g), Funs, WorkOK, NEW t \in Thread, Overflow(t) PROVE TakesEffect(t, g)
<1> DEFINE r == At(t)
           key == call[t].key
           v == call[t].val
           z == LeafHalves(r, key, v)
           w == pos[t].p = 1
           new == <<TopNode(w, z, Len(heap)), z.left, z.right>>
<1>1. IsLeafUpdate(t, g, new, <<Fix("weight", Fresh(1))>>, v)
  BY OverflowUpdate
<1>2. Inserting(t) /\ ~HasKey(r, key) /\ Len(r.keys) = b
  BY DEF Overflow
<1>3. IsLeaf(r, g[pos[t].l], g) /\ key \in Key /\ v \in Value
  BY <1>1, <1>2, InsertCalls DEF AtLeaf, Inserting, IsLeafUpdate
<1>4. Assigns(r, new, key, v)
  <2> HIDE DEF r, key, v, w
  <2>1. z = LeafHalves(r, key, v)
    OBVIOUS
  <2> HIDE DEF z
  <2> QED BY ONLY <1>2, <1>3, <2>1, OverflowAssigns
<1>5. Effect(t, v) /\ Operating(t)
  BY <1>2 DEF Effect, Inserting
<1> HIDE DEF new
<1> QED BY <1>1, <1>4, <1>5 DEF TakesEffect

\* A weight violation is between internal nodes.
LEMMA WeightInner ==
    ASSUME NEW g, NEW t, AtParent(t, g), FixingWeight(t)
    PROVE  ~heap[pos[t].p].leaf /\ ~heap[pos[t].l].leaf
<1>1. /\ Fine(heap, g, retired) /\ Spot(heap, retired, pos[t].gp, pos[t].ixToP, pos[t].p, pos[t].ixToL, pos[t].l)
      /\ ~heap[pos[t].l].weight
  BY DEF AtParent, FixingWeight, Fixing, Entered
<1>2. SpotOK(heap, g, retired, pos[t].gp, pos[t].p, pos[t].l)
  BY <1>1, SpotNodes
<1> QED BY <1>1, <1>2 DEF SpotOK, Sound

LEMMA AbsorbSame ==
    ASSUME NEW g, Good(g), Funs, WorkOK, NEW t \in Thread, Absorb(t) PROVE Rebalances(t, g)
<1> DEFINE m == Spliced(Parent(t), At(t), pos[t].ixToL)
<1>1. IsParentUpdate(t, g, <<WholeNode(m)>>, {pos[t].l}, <<Fix("degree", Fresh(1))>>)
  BY AbsorbUpdate
<1>2. ~heap[pos[t].p].leaf /\ ~heap[pos[t].l].leaf
  BY <1>1, WeightInner DEF IsParentUpdate, Absorb
<1> HIDE DEF m
<1>3. SamePairs(heap, {pos[t].p} \cup {pos[t].l}, <<WholeNode(m)>>)
  BY ONLY <1>2, AbsorbPairs
<1> QED BY <1>1, <1>3 DEF Rebalances

LEMMA SplitSame ==
    ASSUME NEW g, Good(g), Funs, WorkOK, NEW t \in Thread, Split(t) PROVE Rebalances(t, g)
<1> DEFINE m == Spliced(Parent(t), At(t), pos[t].ixToL)
           z == PartHalves(FALSE, m)
           w == pos[t].gp = 1
           new == <<TopNode(w, z, Len(heap)), z.left, z.right>>
<1>1. IsParentUpdate(t, g, new, {pos[t].l}, <<Fix("weight", Fresh(1)), Fix("degree", Fresh(1))>>)
  BY SplitUpdate
<1>2. ~heap[pos[t].p].leaf /\ ~heap[pos[t].l].leaf
  BY <1>1, WeightInner DEF IsParentUpdate, Split
<1>3. z = PartHalves(FALSE, m)
  OBVIOUS
<1> HIDE DEF z, m, w
<1>4. SamePairs(heap, {pos[t].p} \cup {pos[t].l}, new)
  BY ONLY <1>2, <1>3, SplitPairs
<1> HIDE DEF new
<1> QED BY <1>1, <1>4 DEF Rebalances

\* Two neighbours, in one new node and in two.
LEMMA PairReplaced ==
    ASSUME NEW g, NEW t, AtPair(t, g), FixingPair(t), NEW sk
    PROVE  LET m == Joined(t)
               z == PartHalves(m.leaf, m)
               c == Parent(t).ptrs[leftindex(t)]
               d == Parent(t).ptrs[leftindex(t) + 1]
           IN  /\ ~heap[pos[t].p].leaf /\ {c, d} = {pos[t].l, Sibling(t)}
               /\ \A k, u : /\ HasPair(JointNode(m, sk), k, u) <=> (HasPair(heap[c], k, u) \/ HasPair(heap[d], k, u))
                            /\ (HasPair(z.left, k, u) \/ HasPair(z.right, k, u))
                               <=> (HasPair(heap[c], k, u) \/ HasPair(heap[d], k, u))
<1> DEFINE p == pos[t].p
           i == leftindex(t)
           c == heap[p].ptrs[i]
           d == heap[p].ptrs[i + 1]
           m == Joined(t)
           z == PartHalves(m.leaf, m)
<1>1. /\ Fine(heap, g, retired) /\ i \in 1 .. Len(heap[p].keys) /\ ~heap[p].leaf
      /\ PairOK(heap, g, retired, pos[t].gp, pos[t].ixToP, p, pos[t].l, Sibling(t), i, m)
      /\ Spot(heap, retired, pos[t].gp, pos[t].ixToP, p, pos[t].ixToL, pos[t].l)
  BY DEF AtPair, AtParent, Parent
<1>2. {c, d} = {pos[t].l, Sibling(t)}
  BY <1>1 DEF PairOK
<1>3. SpotOK(heap, g, retired, pos[t].gp, p, pos[t].l) /\ NodesOK(heap, g)
  BY <1>1, SpotNodes DEF Fine
<1>4. p \in 2 .. Len(heap) /\ Sound(heap[p], g[p], g)
  <2>1. p \in {p} \cup {pos[t].l, Sibling(t)}
    OBVIOUS
  <2>2. p \in 2 .. Len(heap)
    BY <1>1, <2>1 DEF PairOK, Leads, Goes
  <2> QED BY <1>3, <2>2, HeapType
<1>5. c \in Kids(heap[p]) /\ d \in Kids(heap[p])
  <2>1. Len(heap[p].keys) \in Nat /\ Len(heap[p].ptrs) = Len(heap[p].keys) + 1
    BY <1>1, <1>4, SoundInner
  <2>2. i \in 1 .. Len(heap[p].ptrs) /\ i + 1 \in 1 .. Len(heap[p].ptrs)
    BY <1>1, <2>1
  <2> QED BY <1>1, <2>2 DEF Kids, Elems
<1>6. heap[c].weight /\ heap[d].weight
  <2>1. getABDegree(Parent(t)) > 1 /\ InTheWay(t) = <<>>
    BY DEF FixingPair
  <2>2. getABDegree(Parent(t)) # 1
    BY <2>1
  <2>3. heap[pos[t].l].weight /\ heap[Sibling(t)].weight
    BY <2>1, <2>2, NoneInTheWay
  <2> QED BY <1>2, <2>3
<1>7. m = JoinOf(heap[p], i, heap[c], heap[d])
  BY DEF Joined, JoinOf, Parent
<1> HIDE DEF c, d, m, i, p
<1>8. \A k, u : /\ HasPair(JointNode(m, sk), k, u) <=> (HasPair(heap[c], k, u) \/ HasPair(heap[d], k, u))
                /\ (HasPair(z.left, k, u) \/ HasPair(z.right, k, u))
                   <=> (HasPair(heap[c], k, u) \/ HasPair(heap[d], k, u))
  BY ONLY <1>3, <1>4, <1>5, <1>6, <1>7, JointPairs
<1> QED BY <1>1, <1>2, <1>8 DEF c, d, m, i, p, Parent

LEMMA SiblingSame ==
    ASSUME NEW g, Good(g), Funs, WorkOK, NEW t \in Thread, AbsorbSibling(t) PROVE Rebalances(t, g)
<1> DEFINE joint == JointNode(Joined(t), At(t).searchKey)
           less == LessParent(Parent(t), leftindex(t), ixToS(t), Len(heap))
           removed == {pos[t].l, Sibling(t)}
           c == Parent(t).ptrs[leftindex(t)]
           d == Parent(t).ptrs[leftindex(t) + 1]
           p == pos[t].p
<1>1. \/ IsParentUpdate(t, g, <<joint>>, removed, <<Fix("degree", Fresh(1))>>)
      \/ IsParentUpdate(t, g, <<less, joint>>, removed, <<Fix("degree", Fresh(2)), Fix("degree", Fresh(1))>>)
  BY SiblingUpdate
<1>2. FixingPair(t) /\ AtPair(t, g)
  <2>1. FixingPair(t) /\ \E new, s : ReplaceParent(t, new, removed, s)
    BY DEF AbsorbSibling
  <2> QED BY <2>1, PairReached DEF ReplaceParent
<1>3. /\ ~heap[p].leaf /\ {c, d} = removed
      /\ \A k, u : HasPair(joint, k, u) <=> (HasPair(heap[c], k, u) \/ HasPair(heap[d], k, u))
  BY <1>2, PairReplaced
<1>4. ~less.leaf
  BY DEF LessParent, MakeNode
<1> HIDE DEF joint, less, c, d, p
<1>5. SamePairs(heap, {p} \cup removed, <<joint>>)
  <2> DEFINE s == <<joint>>
  <2>1. Len(s) = 1 /\ s[1] = joint
    OBVIOUS
  <2> HIDE DEF s
  <2>2. \A k, u : (\E j \in 1 .. Len(s) : HasPair(s[j], k, u)) <=> (HasPair(heap[c], k, u) \/ HasPair(heap[d], k, u))
    BY <1>3, <2>1
  <2>3. SamePairs(heap, {p} \cup removed, s)
    BY <1>3, <2>2, PairPairs
  <2> QED BY <2>3 DEF s
<1>6. SamePairs(heap, {p} \cup removed, <<less, joint>>)
  <2> DEFINE s == <<less, joint>>
  <2>1. Len(s) = 2 /\ s[2] = joint /\ s[1] = less
    OBVIOUS
  <2>2. \A k, u : ~HasPair(less, k, u)
    BY <1>4 DEF HasPair
  <2> HIDE DEF s
  <2>3. \A k, u : (\E j \in 1 .. Len(s) : HasPair(s[j], k, u)) <=> (HasPair(heap[c], k, u) \/ HasPair(heap[d], k, u))
    BY <1>3, <2>1, <2>2
  <2>4. SamePairs(heap, {p} \cup removed, s)
    BY <1>3, <2>3, PairPairs
  <2> QED BY <2>4 DEF s
<1> HIDE DEF removed
<1> QED BY <1>1, <1>5, <1>6 DEF Rebalances, p

LEMMA DistributeSame ==
    ASSUME NEW g, Good(g), Funs, WorkOK, NEW t \in Thread, Distribute(t) PROVE Rebalances(t, g)
<1> DEFINE z == PartHalves(Joined(t).leaf, Joined(t))
           same == SameParent(Parent(t), leftindex(t), z, Len(heap))
           removed == {pos[t].l, Sibling(t)}
           c == Parent(t).ptrs[leftindex(t)]
           d == Parent(t).ptrs[leftindex(t) + 1]
           p == pos[t].p
           s == <<same, z.left, z.right>>
<1>1. IsParentUpdate(t, g, s, removed, <<Fix("degree", Fresh(1))>>)
  BY DistributeUpdate
<1>2. FixingPair(t) /\ AtPair(t, g)
  <2>1. FixingPair(t) /\ \E new, calls : ReplaceParent(t, new, removed, calls)
    BY DEF Distribute
  <2> QED BY <2>1, PairReached DEF ReplaceParent
<1>3. /\ ~heap[p].leaf /\ {c, d} = removed
      /\ \A k, u : (HasPair(z.left, k, u) \/ HasPair(z.right, k, u)) <=> (HasPair(heap[c], k, u) \/ HasPair(heap[d], k, u))
  BY <1>2, PairReplaced
<1>4. ~same.leaf
  BY DEF SameParent, MakeNode
<1> HIDE DEF z, same, c, d, p
<1>5. Len(s) = 3 /\ s[1] = same /\ s[2] = z.left /\ s[3] = z.right
  OBVIOUS
<1>6. \A k, u : ~HasPair(same, k, u)
  BY <1>4 DEF HasPair
<1> HIDE DEF s
<1>7. \A k, u : (\E j \in 1 .. Len(s) : HasPair(s[j], k, u)) <=> (HasPair(heap[c], k, u) \/ HasPair(heap[d], k, u))
  BY <1>3, <1>5, <1>6
<1>8. SamePairs(heap, {p} \cup removed, s)
  BY <1>3, <1>7, PairPairs
<1> HIDE DEF removed
<1> QED BY <1>1, <1>8 DEF Rebalances, p

---------------------------------------------------------------------------
(* What the tree holds after an update *)

\* Old nodes in the tree that are not in D.
StillHolds(h, R, D, k, v) == \E m \in 1 .. Len(h) : m \notin R /\ m \notin D /\ HasPair(h[m], k, v)

LEMMA HoldsAfter ==
    ASSUME NEW h, NEW g, NEW R, Fine(h, g, R), NEW P, NEW ix, NEW D, NEW new,
           Preserves(h, g, R, P, ix, D, new), NEW k, NEW v
    PROVE  /\ Holds(Changed(h, P, ix, D) \o new, R \cup D, k, v)
              <=> (StillHolds(h, R, D, k, v) \/ \E j \in 1 .. Len(new) : HasPair(new[j], k, v))
           /\ Holds(h, R, k, v) <=> (StillHolds(h, R, D, k, v) \/ \E m \in D : HasPair(h[m], k, v))
<1> DEFINE y == Changed(h, P, ix, D)
           h2 == y \o new
           N == Len(h)
<1>1. h \in Seq(NodeType) /\ R \subseteq 1 .. N /\ N \in Nat
  BY LenProperties DEF Fine, NodesOK, LinkOK
<1>2. new \in Seq(NodeType) /\ Len(new) \in Nat
  BY LenProperties DEF Preserves, NewNodes
<1>3. /\ P \in 1 .. N /\ ~h[P].leaf /\ ix \in 1 .. Len(h[P].ptrs) /\ P \notin D
      /\ D \subseteq 2 .. N /\ \A r \in D : r \notin R
  BY DEF Preserves, Leads, Place, Goes
<1>4. y \in Seq(NodeType) /\ Len(y) = N
      /\ \A n \in 1 .. N : /\ y[n].leaf = h[n].leaf /\ y[n].keys = h[n].keys
                           /\ n # P => y[n].ptrs = h[n].ptrs
  <2>1. /\ y \in Seq(NodeType) /\ Len(y) = Len(h)
        /\ \A n \in 1 .. Len(h) : /\ y[n].leaf = h[n].leaf /\ y[n].keys = h[n].keys
                                  /\ n # P => y[n].ptrs = h[n].ptrs
        /\ y[P].ptrs = [h[P].ptrs EXCEPT ![ix] = Len(h) + 1]
    BY <1>1, <1>3, ChangedNodes
  <2> QED BY <2>1
<1> HIDE DEF y
<1>5. /\ Len(h2) = N + Len(new)
      /\ \A n \in 1 .. N : h2[n] = y[n]
      /\ \A j \in 1 .. Len(new) : h2[N + j] = new[j]
  <2>1. y \in Seq(NodeType) /\ new \in Seq(NodeType)
    BY <1>2, <1>4
  <2>2. /\ Len(y \o new) = Len(y) + Len(new)
        /\ \A n \in 1 .. Len(y) : (y \o new)[n] = y[n]
        /\ \A j \in 1 .. Len(new) : (y \o new)[Len(y) + j] = new[j]
    BY ONLY <2>1, Extended
  <2> QED BY <1>4, <2>2
<1> HIDE DEF h2, N
<1>6. \A n \in 1 .. N : HasPair(h2[n], k, v) <=> HasPair(h[n], k, v)
  <2> TAKE n \in 1 .. N
  <2>1. CASE n = P
    <3>1. ~h2[n].leaf /\ ~h[n].leaf
      BY <1>3, <1>4, <1>5, <2>1
    <3> QED BY <3>1 DEF HasPair
  <2>2. CASE n # P
    <3>1. h2[n].leaf = h[n].leaf /\ h2[n].keys = h[n].keys /\ h2[n].ptrs = h[n].ptrs
      BY <1>4, <1>5, <2>2
    <3> QED BY <3>1 DEF HasPair
  <2> QED BY <2>1, <2>2
<1>7. ASSUME Holds(h2, R \cup D, k, v)
      PROVE  StillHolds(h, R, D, k, v) \/ \E j \in 1 .. Len(new) : HasPair(new[j], k, v)
  <2>1. PICK m \in 1 .. N + Len(new) : m \notin R /\ m \notin D /\ HasPair(h2[m], k, v)
    BY <1>5, <1>7 DEF Holds
  <2>2. m \in 1 .. N \/ (m - N \in 1 .. Len(new) /\ N + (m - N) = m)
    BY <1>1, <1>2 DEF N
  <2>3. CASE m \in 1 .. N
    BY <1>6, <2>1, <2>3 DEF StillHolds, N
  <2>4. CASE m - N \in 1 .. Len(new) /\ N + (m - N) = m
    BY <1>5, <2>1, <2>4
  <2> QED BY <2>2, <2>3, <2>4
<1>8. ASSUME StillHolds(h, R, D, k, v) PROVE Holds(h2, R \cup D, k, v)
  <2>1. PICK m \in 1 .. N : m \notin R /\ m \notin D /\ HasPair(h[m], k, v)
    BY <1>8 DEF StillHolds, N
  <2>2. m \in 1 .. N + Len(new)
    BY <1>1, <1>2 DEF N
  <2> QED BY <1>5, <1>6, <2>1, <2>2 DEF Holds
<1>9. ASSUME NEW j \in 1 .. Len(new), HasPair(new[j], k, v) PROVE Holds(h2, R \cup D, k, v)
  <2>1. N + j \in 1 .. N + Len(new) /\ N + j \notin 1 .. N
    BY <1>1, <1>2 DEF N
  <2>2. N + j \notin R /\ N + j \notin D
    BY <1>1, <1>3, <2>1 DEF N
  <2>3. HasPair(h2[N + j], k, v)
    BY <1>5, <1>9
  <2> QED BY <1>5, <2>1, <2>2, <2>3 DEF Holds
<1>10. ASSUME Holds(h, R, k, v) PROVE StillHolds(h, R, D, k, v) \/ \E m \in D : HasPair(h[m], k, v)
  BY <1>10 DEF Holds, StillHolds
<1>11. ASSUME NEW m \in D, HasPair(h[m], k, v) PROVE Holds(h, R, k, v)
  <2>1. m \in 1 .. Len(h) /\ m \notin R
    BY <1>1, <1>3 DEF N
  <2> QED BY <1>11, <2>1 DEF Holds
<1>12. StillHolds(h, R, D, k, v) => Holds(h, R, k, v)
  BY DEF StillHolds, Holds
<1> QED BY <1>7, <1>8, <1>9, <1>10, <1>11, <1>12 DEF h2, y

\* Contents as a function, and after a step.
LEMMA ContentsNext ==
    ASSUME ContentsOK'
    PROVE  /\ Contents' = [k \in Key |-> Contents'[k]]
           /\ \A k \in Key : /\ \A v : Holds(heap', retired', k, v) => Contents'[k] = v
                             /\ (\A v : ~Holds(heap', retired', k, v)) => Contents'[k] = NO_VALUE
BY DEF ContentsOK

LEMMA RebalanceContents ==
    ASSUME NEW g, Good(g), NEW t \in Thread, Rebalances(t, g)
    PROVE  Contents' = Contents
<1>1. PICK new, removed, s : /\ IsParentUpdate(t, g, new, removed, s)
                             /\ SamePairs(heap, {pos[t].p} \cup removed, new)
  BY DEF Rebalances
<1> DEFINE P == pos[t].gp
           ix == pos[t].ixToP
           D == {pos[t].p} \cup removed
<1>2. Updates(t, g, P, ix, D, new) /\ SamePairs(heap, D, new)
  BY <1>1 DEF IsParentUpdate
<1> HIDE DEF P, ix, D
<1>3. /\ heap' = Changed(heap, P, ix, D) \o new /\ retired' = retired \cup D
      /\ Preserves(heap, g, retired, P, ix, D, new) /\ Fine(heap, g, retired)
  BY <1>2 DEF Updates, Good
<1>4. \A k, v : Holds(heap', retired', k, v) <=> Holds(heap, retired, k, v)
  <2> TAKE k, v
  <2>1. /\ Holds(Changed(heap, P, ix, D) \o new, retired \cup D, k, v)
           <=> (StillHolds(heap, retired, D, k, v) \/ \E j \in 1 .. Len(new) : HasPair(new[j], k, v))
        /\ Holds(heap, retired, k, v)
           <=> (StillHolds(heap, retired, D, k, v) \/ \E m \in D : HasPair(heap[m], k, v))
    BY ONLY <1>3, HoldsAfter
  <2>2. (\E m \in D : HasPair(heap[m], k, v)) <=> (\E j \in 1 .. Len(new) : HasPair(new[j], k, v))
    BY <1>2 DEF SamePairs
  <2> QED BY ONLY <1>3, <2>1, <2>2
<1>5. ContentsOK
  BY GoodContents
<1>6. ContentsOK'
  <2>1. PICK g2 : Good(g2)'
    BY <1>2, UpdateGood
  <2> QED BY <2>1, GoodContentsNext
<1>7. ASSUME NEW k \in Key PROVE Contents'[k] = Contents[k]
  <2>1. /\ \A v : Holds(heap', retired', k, v) => Contents'[k] = v
        /\ (\A v : ~Holds(heap', retired', k, v)) => Contents'[k] = NO_VALUE
    BY <1>6, ContentsNext
  <2>2. /\ \A v : Holds(heap, retired, k, v) => Contents[k] = v
        /\ (\A v : ~Holds(heap, retired, k, v)) => Contents[k] = NO_VALUE
    BY <1>5 DEF ContentsOK
  <2> QED BY <1>4, <2>1, <2>2
<1>8. Contents' = [k \in Key |-> Contents'[k]] /\ Contents = [k \in Key |-> Contents[k]]
  BY <1>5, <1>6, ContentsNext DEF ContentsOK
<1> QED BY <1>7, <1>8

\* What an operation that takes effect makes of the contents, and what it returns.
LEMMA EffectContents ==
    ASSUME NEW g, Good(g), NEW t \in Thread, NEW new, NEW s, NEW v, IsLeafUpdate(t, g, new, s, v),
           Assigns(At(t), new, call[t].key, v)
    PROVE  /\ Contents' = [Contents EXCEPT ![call[t].key] = v]
           /\ Lookup(At(t), call[t].key) = Contents[call[t].key]
           /\ HasKey(At(t), call[t].key) <=> Contents[call[t].key] # NO_VALUE
<1> DEFINE P == pos[t].p
           ix == pos[t].ixToL
           l == pos[t].l
           D == {l}
           key == call[t].key
<1>1. Updates(t, g, P, ix, D, new) /\ AtLeaf(t, g) /\ Assigns(heap[l], new, key, v)
  BY DEF IsLeafUpdate, At
<1>2. /\ IsLeaf(heap[l], g[l], g) /\ key \in Key /\ key \in Int /\ Covers(g[l], key) /\ heap[l].leaf
  BY <1>1 DEF AtLeaf, At, Covers
<1> HIDE DEF P, ix, D, key
<1>3. /\ heap' = Changed(heap, P, ix, D) \o new /\ retired' = retired \cup D
      /\ Preserves(heap, g, retired, P, ix, D, new) /\ Fine(heap, g, retired)
  BY <1>1 DEF Updates, Good
<1>4. l \in 2 .. Len(heap) /\ l \notin retired /\ l \in D /\ D = {l}
  <2>1. D = {l}
    BY DEF D
  <2>2. D \subseteq 2 .. Len(heap) /\ \A r \in D : r \notin retired
    BY <1>3 DEF Preserves, Leads, Goes
  <2> QED BY <2>1, <2>2
<1> HIDE DEF l
<1>5. l \in 1 .. Len(heap)
  BY <1>4
<1>6. \A u : ~StillHolds(heap, retired, D, key, u)
  <2> SUFFICES ASSUME NEW u, StillHolds(heap, retired, D, key, u) PROVE FALSE
    OBVIOUS
  <2>1. PICK m \in 1 .. Len(heap) : m \notin retired /\ m \notin D /\ HasPair(heap[m], key, u)
    BY DEF StillHolds
  <2>2. heap[m].leaf
    BY <2>1 DEF HasPair
  <2>3. IsLeaf(heap[m], g[m], g)
    BY <1>3, <2>2, LiveLeaf
  <2>4. Covers(g[m], key)
    BY <1>2, <2>1, <2>3, LeafPairs
  <2>5. m = l
    BY <1>2, <1>3, <1>4, <1>5, <2>1, <2>2, <2>4, OneLeaf
  <2> QED BY <1>4, <2>1, <2>5
<1>7. \A k \in Key : \A u : Holds(heap', retired', k, u)
                            <=> (IF k = key THEN u = v /\ v # NO_VALUE ELSE Holds(heap, retired, k, u))
  <2> TAKE k \in Key
  <2> TAKE u
  <2>1. /\ Holds(Changed(heap, P, ix, D) \o new, retired \cup D, k, u)
           <=> (StillHolds(heap, retired, D, k, u) \/ \E j \in 1 .. Len(new) : HasPair(new[j], k, u))
        /\ Holds(heap, retired, k, u)
           <=> (StillHolds(heap, retired, D, k, u) \/ \E m \in D : HasPair(heap[m], k, u))
    BY ONLY <1>3, HoldsAfter
  <2>2. (\E j \in 1 .. Len(new) : HasPair(new[j], k, u))
        <=> (IF k = key THEN u = v /\ v # NO_VALUE ELSE HasPair(heap[l], k, u))
    BY <1>1 DEF Assigns
  <2>3. (\E m \in D : HasPair(heap[m], k, u)) <=> HasPair(heap[l], k, u)
    BY <1>4
  <2> QED BY ONLY <1>3, <1>6, <2>1, <2>2, <2>3
<1>8. ContentsOK /\ LeavesOK(g)
  BY GoodContents
<1>9. ContentsOK'
  <2>1. PICK g2 : Good(g2)'
    BY <1>1, UpdateGood
  <2> QED BY <2>1, GoodContentsNext
<1>10. ASSUME NEW k \in Key PROVE Contents'[k] = IF k = key THEN v ELSE Contents[k]
  <2>1. /\ \A u : Holds(heap', retired', k, u) => Contents'[k] = u
        /\ (\A u : ~Holds(heap', retired', k, u)) => Contents'[k] = NO_VALUE
    BY <1>9, ContentsNext
  <2>2. /\ \A u : Holds(heap, retired, k, u) => Contents[k] = u
        /\ (\A u : ~Holds(heap, retired, k, u)) => Contents[k] = NO_VALUE
    BY <1>8 DEF ContentsOK
  <2>3. \A u : Holds(heap', retired', k, u)
               <=> (IF k = key THEN u = v /\ v # NO_VALUE ELSE Holds(heap, retired, k, u))
    BY <1>7
  <2>4. CASE k = key
    BY <2>1, <2>3, <2>4
  <2>5. CASE k # key
    BY <2>1, <2>2, <2>3, <2>5
  <2> QED BY <2>4, <2>5
<1>11. Contents' = [k \in Key |-> Contents'[k]] /\ Contents = [k \in Key |-> Contents[k]]
  BY <1>8, <1>9, ContentsNext DEF ContentsOK
<1>12. Contents' = [Contents EXCEPT ![key] = v]
  <2>1. Contents' = [k \in Key |-> IF k = key THEN v ELSE Contents[k]]
    BY <1>10, <1>11
  <2> QED BY <1>11, <2>1
<1>13. Lookup(heap[l], key) = Contents[key]
  BY <1>2, <1>4, <1>5, <1>8 DEF LeavesOK
<1>14. HasKey(heap[l], key) <=> Contents[key] # NO_VALUE
  <2>1. /\ HasKey(heap[l], key) => Lookup(heap[l], key) \in Value
        /\ ~HasKey(heap[l], key) => Lookup(heap[l], key) = NO_VALUE
    BY <1>2, LeafPairs
  <2> QED BY <1>13, <2>1, ValueAssumption
<1> QED BY <1>12, <1>13, <1>14 DEF key, l, At

---------------------------------------------------------------------------
(* What a search may still find *)

\* A search for k that is at a node of S stays in S, and what a leaf in S says
\* of k is in sn.
Guarded(h, g, k, S, sn) ==
    /\ S \subseteq 1 .. Len(h)
    /\ \A n \in S : \A c \in Kids(h[n]) : Covers(g[c], k) => c \in S
    /\ \A m \in S : h[m].leaf => Lookup(h[m], k) \in sn

Watch(h, g, l, k, sn) == \E S : l \in S /\ Guarded(h, g, k, S, sn)

Sees(h, g, c, r, q, sn) == Running(c, r) /\ q # Nowhere => Watch(h, g, q.l, c.key, sn)

Watched(g) == \A t \in Thread : Sees(heap, g, call[t], ret[t], pos[t], seen[t])

SeenOK == \A t \in Thread : call[t] # NoCall => Contents[call[t].key] \in seen[t]

DInv == Funs /\ WorkOK /\ SeenOK /\ \E g : Good(g) /\ Watched(g)

\* The nodes of the tree for k.
Lives(g, k) == {n \in 1 .. Len(heap) : n \notin retired /\ Covers(g[n], k)}

LivesOK == \A g, sn : Good(g) => \A k \in Key : Contents[k] \in sn => Guarded(heap, g, k, Lives(g, k), sn)

LEMMA LiveKids ==
    ASSUME NEW g, Fine(heap, g, retired), NEW n \in 1 .. Len(heap), n \notin retired, NEW c \in Kids(heap[n])
    PROVE  c \in 1 .. Len(heap) /\ c \notin retired
<1>1. LinkOK(Len(heap), KidsOf(heap), retired) /\ Len(heap) \in Nat
  BY HeapType DEF Fine
<1>2. c \in KidsOf(heap)[n]
  BY DEF KidsOf
<1>3. c \in 2 .. Len(heap) /\ c \notin retired
  BY <1>1, <1>2 DEF LinkOK
<1> QED BY <1>1, <1>3

LinksOK == \A g : Fine(heap, g, retired) => \A n \in 1 .. Len(heap) :
              n \notin retired => \A c \in Kids(heap[n]) : c \in 1 .. Len(heap) /\ c \notin retired

LEMMA LinkNext == LinksOK'
<1>1. LinksOK
  BY LiveKids DEF LinksOK
<1> QED BY <1>1, PTL

LEMMA LivesGuarded == LivesOK
<1> SUFFICES ASSUME NEW g, NEW sn, Good(g), NEW k \in Key, Contents[k] \in sn
             PROVE  Guarded(heap, g, k, Lives(g, k), sn)
  BY DEF LivesOK
<1>1. Fine(heap, g, retired) /\ LeavesOK(g)
  BY GoodContents DEF Good
<1>2. ASSUME NEW n \in Lives(g, k), NEW c \in Kids(heap[n]), Covers(g[c], k) PROVE c \in Lives(g, k)
  <2>1. n \in 1 .. Len(heap) /\ n \notin retired
    BY DEF Lives
  <2>2. c \in 1 .. Len(heap) /\ c \notin retired
    BY <1>1, <1>2, <2>1, LiveKids
  <2> QED BY <1>2, <2>2 DEF Lives
<1>3. ASSUME NEW m \in Lives(g, k), heap[m].leaf PROVE Lookup(heap[m], k) \in sn
  BY <1>1, <1>3 DEF Lives, LeavesOK
<1> QED BY <1>2, <1>3 DEF Guarded, Lives

LEMMA LivesGuardedNext == LivesOK'
BY LivesGuarded, PTL

\* Old nodes are not changed, but for the child pointer and the marks.
Kept(h, P, ix, new, h2) ==
    /\ Len(h) \in Nat /\ Len(new) \in Nat /\ Len(h2) = Len(h) + Len(new)
    /\ \A n \in 1 .. Len(h) : /\ h2[n].leaf = h[n].leaf /\ h2[n].keys = h[n].keys
                              /\ h2[n].weight = h[n].weight /\ h2[n].searchKey = h[n].searchKey
                              /\ n # P => h2[n].ptrs = h[n].ptrs
    /\ h2[P].ptrs = [h[P].ptrs EXCEPT ![ix] = Len(h) + 1]
    /\ \A j \in 1 .. Len(new) : h2[Len(h) + j] = new[j]

LEMMA OldNodes ==
    ASSUME NEW h, NEW g, NEW R, Fine(h, g, R), NEW P, NEW ix, NEW D, NEW new,
           Preserves(h, g, R, P, ix, D, new)
    PROVE  Kept(h, P, ix, new, Changed(h, P, ix, D) \o new)
<1> DEFINE y == Changed(h, P, ix, D)
<1>1. h \in Seq(NodeType) /\ Len(h) \in Nat
  BY LenProperties DEF Fine, NodesOK
<1>2. new \in Seq(NodeType) /\ Len(new) \in Nat
  BY LenProperties DEF Preserves, NewNodes
<1>3. P \in 1 .. Len(h) /\ ~h[P].leaf /\ ix \in 1 .. Len(h[P].ptrs) /\ P \notin D
  BY DEF Preserves, Leads, Place, Goes
<1>4. /\ y \in Seq(NodeType) /\ Len(y) = Len(h)
      /\ \A n \in 1 .. Len(h) : /\ y[n].leaf = h[n].leaf /\ y[n].weight = h[n].weight
                                /\ y[n].searchKey = h[n].searchKey /\ y[n].keys = h[n].keys
                                /\ n # P => y[n].ptrs = h[n].ptrs
      /\ y[P].ptrs = [h[P].ptrs EXCEPT ![ix] = Len(h) + 1]
  BY <1>1, <1>3, ChangedNodes
<1> HIDE DEF y
<1>5. /\ Len(y \o new) = Len(y) + Len(new)
      /\ \A n \in 1 .. Len(y) : (y \o new)[n] = y[n]
      /\ \A j \in 1 .. Len(new) : (y \o new)[Len(y) + j] = new[j]
  <2>1. y \in Seq(NodeType) /\ new \in Seq(NodeType)
    BY <1>2, <1>4
  <2> QED BY ONLY <2>1, Extended
<1> QED BY <1>1, <1>2, <1>3, <1>4, <1>5 DEF y, Kept

LEMMA OldKid ==
    ASSUME NEW h, NEW g, NodesOK(h, g), NEW n \in 1 .. Len(h), NEW c \in Kids(h[n])
    PROVE  c \in 2 .. Len(h) /\ c \in 1 .. Len(h)
<1>1. Len(h) \in Nat
  BY HeapType
<1>2. c \in 2 .. Len(h)
  <2>1. CASE n = 1
    BY <2>1, Entry
  <2>2. CASE n # 1
    <3>1. n \in 2 .. Len(h)
      BY <1>1, <2>2
    <3> QED BY <3>1, KidOf
  <2> QED BY <2>1, <2>2
<1> QED BY <1>1, <1>2

\* What a search may find after another thread's update: what it could find before,
\* or what is in the tree now.
LEMMA GuardedAfter ==
    ASSUME NEW g, Good(g), NEW t \in Thread, NEW P, NEW ix, NEW D, NEW new, Updates(t, g, P, ix, D, new),
           NEW g2, Good(g2)', Keeps(g, g2), NEW k \in Key, NEW S, NEW sn, NEW sn2, sn \subseteq sn2,
           Guarded(heap, g, k, S, sn), Contents'[k] \in sn2
    PROVE  Guarded(heap', g2, k, S \cup Lives(g2, k)', sn2)
<1> DEFINE N == Len(heap)
           L == Lives(g2, k)'
<1>1. /\ heap' = Changed(heap, P, ix, D) \o new /\ retired' = retired \cup D
      /\ Preserves(heap, g, retired, P, ix, D, new) /\ Fine(heap, g, retired) /\ NodesOK(heap, g)
  BY DEF Updates, Good, Fine
<1>2. /\ N \in Nat /\ Len(new) \in Nat /\ Len(heap') = N + Len(new)
      /\ \A n \in 1 .. N : /\ heap'[n].leaf = heap[n].leaf /\ heap'[n].keys = heap[n].keys
                           /\ n # P => heap'[n].ptrs = heap[n].ptrs
  <2>1. Kept(heap, P, ix, new, heap')
    BY <1>1, OldNodes
  <2> QED BY <2>1 DEF Kept
<1>3. P \in 1 .. N /\ P \notin retired /\ P \notin D /\ ~heap[P].leaf
  BY <1>1 DEF Preserves, Leads, Place, Goes
<1>4. Guarded(heap', g2, k, L, sn2)
  BY LivesGuardedNext DEF LivesOK
<1>5. \A c \in 1 .. N : g2[c] = g[c]
  BY <1>1, HeapType DEF Keeps
<1>6. S \subseteq 1 .. N /\ L \subseteq 1 .. N + Len(new)
  BY <1>2, <1>4 DEF Guarded
<1>7. \A c : c \in L <=> (c \in 1 .. Len(heap') /\ c \notin retired' /\ Covers(g2[c], k))
  BY DEF Lives
<1>8. Fine(heap, g2, retired)'
  BY DEF Good
<1>9. (\A n \in 1 .. Len(heap) : n \notin retired => \A c \in Kids(heap[n]) : c \in 1 .. Len(heap) /\ c \notin retired)'
  BY <1>8, LinkNext DEF LinksOK
<1> HIDE DEF L, N
<1>10. ASSUME NEW n \in S, NEW c \in Kids(heap'[n]), Covers(g2[c], k) PROVE c \in S \cup L
  <2>1. n \in 1 .. N /\ n \in 1 .. Len(heap')
    BY <1>2, <1>6
  <2>2. CASE n = P
    <3>1. n \notin retired'
      BY <1>1, <1>3, <2>2
    <3>2. c \in 1 .. Len(heap') /\ c \notin retired'
      BY <1>9, <1>10, <2>1, <3>1
    <3> QED BY <1>7, <1>10, <3>2
  <2>3. CASE n # P
    <3>1. heap'[n].leaf = heap[n].leaf /\ heap'[n].ptrs = heap[n].ptrs
      BY <1>2, <2>1, <2>3
    <3>2. c \in Kids(heap[n])
      BY <1>10, <3>1 DEF Kids
    <3>3. c \in 1 .. N
      BY <1>1, <2>1, <3>2, OldKid DEF N
    <3>4. Covers(g[c], k)
      BY <1>5, <1>10, <3>3
    <3> QED BY <1>10, <3>2, <3>4 DEF Guarded
  <2> QED BY <2>2, <2>3
<1>11. ASSUME NEW m \in S, heap'[m].leaf PROVE Lookup(heap'[m], k) \in sn2
  <2>1. m \in 1 .. N
    BY <1>6
  <2>2. heap[m].leaf /\ m # P
    BY <1>2, <1>3, <1>11, <2>1
  <2>3. heap'[m].keys = heap[m].keys /\ heap'[m].ptrs = heap[m].ptrs
    BY <1>2, <2>1, <2>2
  <2>4. Lookup(heap'[m], k) = Lookup(heap[m], k)
    BY <2>3 DEF Lookup, HasKey, getKeyIndex
  <2>5. Lookup(heap[m], k) \in sn
    BY <1>11, <2>2 DEF Guarded
  <2> QED BY <2>4, <2>5
<1>12. S \cup L \subseteq 1 .. Len(heap')
  BY <1>2, <1>6
<1>13. ASSUME NEW n \in L, NEW c \in Kids(heap'[n]), Covers(g2[c], k) PROVE c \in S \cup L
  BY <1>4, <1>13 DEF Guarded
<1>14. ASSUME NEW m \in L, heap'[m].leaf PROVE Lookup(heap'[m], k) \in sn2
  BY <1>4, <1>14 DEF Guarded
<1>15. Guarded(heap', g2, k, S \cup L, sn2)
  BY <1>10, <1>11, <1>12, <1>13, <1>14 DEF Guarded
<1> QED BY <1>15 DEF L

---------------------------------------------------------------------------
(* The steps of the tree are steps of the dictionary *)

\* A step that does not change the tree.
LEMMA QuietWatched ==
    ASSUME NEW g, Good(g), Watched(g), SeenOK, NEW t \in Thread, Quiet(t, g),
           \A u \in Thread : u # t => seen'[u] = seen[u],
           Sees(heap, g, call'[t], ret'[t], pos'[t], seen'[t]),
           call'[t] # NoCall => Contents[call'[t].key] \in seen'[t]
    PROVE  DInv' /\ Contents' = Contents
<1>1. Good(g)' /\ heap' = heap /\ retired' = retired /\ Others(t) /\ Funs' /\ WorkOK'
  BY QuietGood DEF Quiet
<1>2. ContentsOK /\ ContentsOK'
  BY <1>1, GoodContents, GoodContentsNext
<1>3. Contents' = Contents
  <2>1. ASSUME NEW k \in Key PROVE Contents'[k] = Contents[k]
    <3>1. /\ \A v : Holds(heap', retired', k, v) => Contents'[k] = v
          /\ (\A v : ~Holds(heap', retired', k, v)) => Contents'[k] = NO_VALUE
      BY <1>2, ContentsNext
    <3>2. /\ \A v : Holds(heap, retired, k, v) => Contents[k] = v
          /\ (\A v : ~Holds(heap, retired, k, v)) => Contents[k] = NO_VALUE
      BY <1>2 DEF ContentsOK
    <3> QED BY <1>1, <3>1, <3>2
  <2>2. Contents' = [k \in Key |-> Contents'[k]] /\ Contents = [k \in Key |-> Contents[k]]
    BY <1>2, ContentsNext DEF ContentsOK
  <2> QED BY <2>1, <2>2
<1>4. ASSUME NEW u \in Thread PROVE Sees(heap', g, call'[u], ret'[u], pos'[u], seen'[u])
  <2>1. CASE u = t
    BY <1>1, <2>1
  <2>2. CASE u # t
    <3>1. call'[u] = call[u] /\ ret'[u] = ret[u] /\ pos'[u] = pos[u] /\ seen'[u] = seen[u]
      BY <1>1, <2>2 DEF Others
    <3> QED BY <1>1, <3>1 DEF Watched
  <2> QED BY <2>1, <2>2
<1>5. Watched(g)'
  BY <1>4 DEF Watched
<1>6. ASSUME NEW u \in Thread, call'[u] # NoCall PROVE Contents'[call'[u].key] \in seen'[u]
  <2>1. CASE u = t
    BY <1>3, <1>6, <2>1
  <2>2. CASE u # t
    <3>1. call'[u] = call[u] /\ seen'[u] = seen[u]
      BY <1>1, <2>2 DEF Others
    <3> QED BY <1>3, <1>6, <3>1 DEF SeenOK
  <2> QED BY <2>1, <2>2
<1>7. SeenOK'
  BY <1>6 DEF SeenOK
<1> QED BY <1>1, <1>3, <1>5, <1>7 DEF DInv

\* The call goes on, and the dictionary is as it was.
LEMMA SilentWatched ==
    ASSUME NEW g, Good(g), Watched(g), SeenOK, NEW t \in Thread, Quiet(t, g),
           call' = call, ret' = ret, seen' = seen, pos'[t] = pos[t] \/ pos'[t] = Nowhere
    PROVE  DInv' /\ Contents' = Contents
<1>1. Sees(heap, g, call[t], ret[t], pos[t], seen[t])
  BY DEF Watched
<1>2. Sees(heap, g, call'[t], ret'[t], pos'[t], seen'[t])
  <2>1. CASE pos'[t] = pos[t]
    BY <1>1, <2>1
  <2>2. CASE pos'[t] = Nowhere
    BY <2>2 DEF Sees
  <2> QED BY <2>1, <2>2
<1>3. call'[t] # NoCall => Contents[call'[t].key] \in seen'[t]
  BY DEF SeenOK
<1>4. \A u \in Thread : u # t => seen'[u] = seen[u]
  OBVIOUS
<1> QED BY <1>2, <1>3, <1>4, QuietWatched

\* The same for every step that only searches or fixes.
Silent(t) == \/ Enter(t) \/ Descend(t) \/ FixEnter(t) \/ FixHandOff(t) \/ FixParentWeight(t)
             \/ FixWeights(t) \/ FixGivesUp(t) \/ Retry(t)

LEMMA EnterWatched ==
    ASSUME NEW g, Good(g), Funs, WorkOK, Watched(g), SeenOK, NEW t \in Thread, Enter(t)
    PROVE  DInv' /\ Contents' = Contents
<1> DEFINE root == heap[entry].ptrs[1]
           q == [gp |-> NULL, ixToP |-> 0, p |-> entry, ixToL |-> 1, l |-> root]
           k == call[t].key
<1>1. Quiet(t, g) /\ call' = call /\ ret' = ret /\ seen' = seen
  BY EnterQuiet DEF Enter
<1>2. pos'[t].l = root
  <2>1. pos' = [pos EXCEPT ![t] = q]
    BY DEF Enter
  <2>2. q.l = root
    OBVIOUS
  <2> HIDE DEF q
  <2>3. IsSet(pos, pos', t, q)
    BY <2>1, SetIs DEF Funs
  <2> QED BY <2>2, <2>3 DEF IsSet
<1>3. ASSUME Running(call[t], ret[t]) PROVE Watch(heap, g, pos'[t].l, call[t].key, seen[t])
  <2>1. k \in Key /\ call[t] # NoCall /\ Fine(heap, g, retired) /\ NodesOK(heap, g)
    BY <1>3, ThreadFacts DEF Running
  <2>2. Contents[k] \in seen[t]
    BY <2>1 DEF SeenOK
  <2>3. Guarded(heap, g, k, Lives(g, k), seen[t])
    BY <2>1, <2>2, LivesGuarded DEF LivesOK
  <2>4. Covers(g[root], k) /\ 1 \in 1 .. Len(heap) /\ root \in Kids(heap[1])
    <3>1. root = heap[1].ptrs[1]
      BY DEF entry
    <3>2. Kids(heap[1]) = {heap[1].ptrs[1]} /\ Len(heap) \in Nat /\ Len(heap) >= 2
      BY <2>1, Entry, HeapType
    <3>3. g[heap[1].ptrs[1]].lo <= k /\ k < g[heap[1].ptrs[1]].hi
      BY <2>1 DEF NodesOK
    <3> QED BY <3>1, <3>2, <3>3 DEF Covers
  <2>5. 1 \notin retired
    BY <2>1 DEF Fine, LinkOK
  <2>6. root \in Lives(g, k)
    BY <2>1, <2>4, <2>5, LiveKids DEF Lives
  <2> QED BY <1>2, <2>3, <2>6 DEF Watch
<1>4. Sees(heap, g, call'[t], ret'[t], pos'[t], seen'[t])
  BY <1>1, <1>3 DEF Sees
<1>5. call'[t] # NoCall => Contents[call'[t].key] \in seen'[t]
  BY <1>1 DEF SeenOK
<1>6. \A u \in Thread : u # t => seen'[u] = seen[u]
  BY <1>1
<1> QED BY <1>1, <1>4, <1>5, <1>6, QuietWatched

LEMMA DescendWatched ==
    ASSUME NEW g, Good(g), Funs, WorkOK, Watched(g), SeenOK, NEW t \in Thread, Descend(t)
    PROVE  DInv' /\ Contents' = Contents
<1> DEFINE ix == getChildIndex(At(t), SearchKey(t))
           q == [gp |-> pos[t].p, ixToP |-> pos[t].ixToL, p |-> pos[t].l, ixToL |-> ix, l |-> At(t).ptrs[ix]]
           k == call[t].key
<1>1. Quiet(t, g) /\ call' = call /\ ret' = ret /\ seen' = seen /\ pos[t] # Nowhere
  BY DescendQuiet DEF Descend
<1>2. pos'[t].l = At(t).ptrs[ix] /\ pos'[t].p = pos[t].l /\ pos'[t].ixToL = ix
  <2>1. pos' = [pos EXCEPT ![t] = q]
    BY DEF Descend, Funs, IsFun
  <2>2. q.l = At(t).ptrs[ix] /\ q.p = pos[t].l /\ q.ixToL = ix
    OBVIOUS
  <2> HIDE DEF q
  <2>3. IsSet(pos, pos', t, q)
    BY <2>1, SetIs DEF Funs
  <2> QED BY <2>2, <2>3 DEF IsSet
<1> HIDE DEF ix
<1>3. ASSUME Running(call[t], ret[t]), pos'[t] # Nowhere
      PROVE  Watch(heap, g, pos'[t].l, call[t].key, seen[t])
  <2>1. PICK S : pos[t].l \in S /\ Guarded(heap, g, k, S, seen[t])
    BY <1>1, <1>3 DEF Watched, Sees, Watch
  <2>2. SearchOK(heap, g, pos'[t], k)
    BY <1>1, <1>3 DEF Quiet, ThreadOK, PosOK, Sought
  <2>3. Covers(g[pos'[t].l], k) /\ Place(heap, pos'[t].p, pos'[t].ixToL)
    BY <2>2 DEF SearchOK, Covers
  <2>4. pos'[t].l \in Kids(heap[pos[t].l])
    BY <1>2, <2>3 DEF Place, Kids, Elems, At
  <2>5. pos'[t].l \in S
    BY <2>1, <2>3, <2>4 DEF Guarded
  <2> QED BY <2>1, <2>5 DEF Watch
<1>4. Sees(heap, g, call'[t], ret'[t], pos'[t], seen'[t])
  BY <1>1, <1>3 DEF Sees
<1>5. call'[t] # NoCall => Contents[call'[t].key] \in seen'[t]
  BY <1>1 DEF SeenOK
<1>6. \A u \in Thread : u # t => seen'[u] = seen[u]
  BY <1>1
<1> QED BY <1>1, <1>4, <1>5, <1>6, QuietWatched

LEMMA SilentSteps ==
    ASSUME NEW g, Good(g), Funs, WorkOK, Watched(g), SeenOK, NEW t \in Thread, Silent(t)
    PROVE  DInv' /\ Contents' = Contents /\ call' = call /\ ret' = ret /\ seen' = seen
<1>1. call' = call /\ ret' = ret /\ seen' = seen
  BY DEF Silent, Enter, Descend, FixEnter, FixHandOff, FixParentWeight, FixFirst, FixWeights, FixGivesUp, Retry
<1>2. CASE Enter(t)
  BY <1>1, <1>2, EnterWatched
<1>3. CASE Descend(t)
  BY <1>1, <1>3, DescendWatched
<1>4. CASE FixEnter(t)
  BY <1>1, <1>4, FixEnterQuiet, SilentWatched DEF FixEnter
<1>5. ASSUME Quiet(t, g), pos' = [pos EXCEPT ![t] = Nowhere] PROVE DInv' /\ Contents' = Contents
  <2>1. IsSet(pos, pos', t, Nowhere)
    BY <1>5, SetIs DEF Funs
  <2>2. pos'[t] = Nowhere
    BY <2>1 DEF IsSet
  <2> QED BY <1>1, <1>5, <2>2, SilentWatched
<1>6. CASE FixHandOff(t)
  BY <1>1, <1>5, <1>6, HandOffQuiet DEF FixHandOff
<1>7. CASE FixParentWeight(t)
  BY <1>1, <1>5, <1>7, ParentWeightQuiet DEF FixParentWeight, FixFirst
<1>8. CASE FixWeights(t)
  BY <1>1, <1>5, <1>8, WeightsQuiet DEF FixWeights, FixFirst
<1>9. CASE FixGivesUp(t)
  BY <1>1, <1>5, <1>9, GivesUpQuiet DEF FixGivesUp
<1>10. CASE Retry(t)
  BY <1>1, <1>5, <1>10, RetryQuiet DEF Retry
<1> QED BY <1>1, <1>2, <1>3, <1>4, <1>6, <1>7, <1>8, <1>9, <1>10 DEF Silent

LEMMA ObserveStep ==
    ASSUME NEW g, Good(g), Funs, WorkOK, Watched(g), SeenOK, NEW t \in Thread, Observe(t)
    PROVE  DInv' /\ Dict!Next
<1> DEFINE k == call[t].key
           r == Lookup(At(t), k)
<1>1. /\ Quiet(t, g) /\ call' = call /\ seen' = seen /\ ret' = [ret EXCEPT ![t] = r]
      /\ Operating(t) /\ pos[t] # Nowhere /\ At(t).leaf
      /\ \/ call[t].op = "find"
         \/ call[t].op = "insertIfAbsent" /\ r # NO_VALUE
         \/ call[t].op = "erase" /\ r = NO_VALUE
  BY ObserveQuiet DEF Observe, Arrived, Located
<1>2. pos'[t] = Nowhere
  <2>1. IsSet(pos, pos', t, Nowhere)
    BY SetIs DEF Funs, Observe
  <2> QED BY <2>1 DEF IsSet
<1>3. /\ Sees(heap, g, call'[t], ret'[t], pos'[t], seen'[t])
      /\ call'[t] # NoCall => Contents[call'[t].key] \in seen'[t]
      /\ \A u \in Thread : u # t => seen'[u] = seen[u]
  BY <1>1, <1>2 DEF Sees, SeenOK
<1>4. DInv' /\ Contents' = Contents
  BY <1>1, <1>3, QuietWatched
<1>5. Running(call[t], ret[t]) /\ call[t] # NoCall /\ ret[t] = Pending /\ k \in Key /\ k \in Int
  BY <1>1, ThreadFacts, KeyAssumption DEF Operating
<1>6. r \in seen[t]
  <2>1. PICK S : pos[t].l \in S /\ Guarded(heap, g, k, S, seen[t])
    BY <1>1, <1>5 DEF Watched, Sees, Watch
  <2> QED BY <1>1, <2>1 DEF Guarded, At
<1>7. r \in Value \cup {NO_VALUE}
  <2>1. IsLeaf(At(t), g[pos[t].l], g)
    BY <1>1, SearchFacts DEF IsLeaf
  <2> QED BY <1>5, <2>1, LookupType
<1> HIDE DEF r
<1>8. Dict!Observe(t, r)
  BY <1>1, <1>4, <1>5, <1>6 DEF Dict!Observe, Dict!NoCall, NoCall, Dict!Pending, Pending
<1> QED BY <1>4, <1>7, <1>8 DEF Dict!Next

LEMMA ReturnStep ==
    ASSUME NEW g, Good(g), Funs, WorkOK, Watched(g), SeenOK, NEW t \in Thread, Return(t)
    PROVE  DInv' /\ Dict!Next
<1>1. /\ Quiet(t, g) /\ call[t] # NoCall /\ ret[t] # Pending /\ call' = [call EXCEPT ![t] = NoCall]
      /\ ret' = [ret EXCEPT ![t] = Pending] /\ seen' = [seen EXCEPT ![t] = {}]
  BY ReturnQuiet DEF Return
<1>2. IsSet(call, call', t, NoCall) /\ IsSet(seen, seen', t, {})
  BY <1>1, SetIs DEF Funs
<1>3. /\ Sees(heap, g, call'[t], ret'[t], pos'[t], seen'[t])
      /\ call'[t] # NoCall => Contents[call'[t].key] \in seen'[t]
      /\ \A u \in Thread : u # t => seen'[u] = seen[u]
  BY <1>2 DEF Sees, Running, IsSet
<1>4. DInv' /\ Contents' = Contents
  BY <1>1, <1>3, QuietWatched
<1>5. Dict!Return(t)
  BY <1>1, <1>4 DEF Dict!Return, Dict!NoCall, NoCall, Dict!Pending, Pending
<1> QED BY <1>4, <1>5 DEF Dict!Next

LEMMA CallStep ==
    ASSUME NEW g, Good(g), Funs, WorkOK, Watched(g), SeenOK, NEW t \in Thread, NEW c, Call(t, c)
    PROVE  DInv' /\ Dict!Next
<1> DEFINE s == {Contents[c.key]}
<1>1. /\ Quiet(t, g) /\ call[t] = NoCall /\ call' = [call EXCEPT ![t] = c] /\ ret' = ret /\ pos' = pos
      /\ seen' = [seen EXCEPT ![t] = s]
  BY CallQuiet DEF Call, local
<1>2. Contents[c.key] \in s
  OBVIOUS
<1> HIDE DEF s
<1>3. IsSet(call, call', t, c) /\ IsSet(seen, seen', t, s)
  BY <1>1, SetIs DEF Funs
<1>4. pos[t] = Nowhere
  <2>1. todo[t] = <<>>
    BY <1>1, ThreadFacts DEF CallOK
  <2> QED BY <1>1, <2>1, Idle DEF Operating
<1>5. /\ Sees(heap, g, call'[t], ret'[t], pos'[t], seen'[t])
      /\ call'[t] # NoCall => Contents[call'[t].key] \in seen'[t]
      /\ \A u \in Thread : u # t => seen'[u] = seen[u]
  BY <1>1, <1>2, <1>3, <1>4 DEF Sees, IsSet
<1>6. DInv' /\ Contents' = Contents
  BY <1>1, <1>5, QuietWatched
<1>7. c \in Calls
  <2>1. CASE work.fill # <<>> /\ c = Head(work.fill)
    <3>1. work.fill \in Seq(Calls)
      BY DEF WorkOK
    <3> QED BY <2>1, <3>1, HeadTailProperties
  <2>2. CASE c \in work.calls
    BY <2>2 DEF WorkOK
  <2> QED BY <2>1, <2>2 DEF Call
<1>8. c \in Dict!Calls
  BY <1>7 DEF Dict!Calls, Calls
<1>9. Dict!Call(t, c)
  BY <1>1, <1>6 DEF Dict!Call, Dict!NoCall, NoCall, s
<1> QED BY <1>6, <1>8, <1>9 DEF Dict!Next

\* An update of t that only adds to what the others have seen.
LEMMA UpdateWatched ==
    ASSUME NEW g, Good(g), Watched(g), SeenOK, NEW t \in Thread, NEW P, NEW ix, NEW D, NEW new,
           Updates(t, g, P, ix, D, new), \A u \in Thread : seen[u] \subseteq seen'[u], SeenOK'
    PROVE  DInv'
<1>1. Funs' /\ WorkOK' /\ Others(t) /\ pos'[t] = Nowhere
  BY DEF Updates
<1>2. PICK g2 : Good(g2)' /\ Keeps(g, g2)
  BY UpdateGood
<1>3. ASSUME NEW u \in Thread PROVE Sees(heap', g2, call'[u], ret'[u], pos'[u], seen'[u])
  <2>1. CASE u = t
    BY <1>1, <2>1 DEF Sees
  <2>2. CASE u # t
    <3>1. call'[u] = call[u] /\ ret'[u] = ret[u] /\ pos'[u] = pos[u]
      BY <1>1, <2>2 DEF Others
    <3>k. PICK k : k = call[u].key
      OBVIOUS
    <3>2. ASSUME Running(call[u], ret[u]), pos[u] # Nowhere PROVE Watch(heap', g2, pos[u].l, k, seen'[u])
      <4>1. PICK S : pos[u].l \in S /\ Guarded(heap, g, k, S, seen[u])
        BY <3>k, <3>2 DEF Watched, Sees, Watch
      <4>2. k \in Key /\ call[u] # NoCall
        <5>1. Operating(u) <=> Running(call[u], ret[u])
          BY ThreadFacts
        <5>2. Operating(u) => call[u].key \in Key
          BY ThreadFacts
        <5> QED BY <3>k, <3>2, <5>1, <5>2 DEF Running
      <4>3. Contents'[k] \in seen'[u]
        BY <3>k, <3>1, <4>2 DEF SeenOK
      <4> DEFINE sn == seen[u]
                 sn2 == seen'[u]
      <4>4. sn \subseteq sn2 /\ Guarded(heap, g, k, S, sn) /\ Contents'[k] \in sn2
        BY <4>1, <4>3
      <4> HIDE DEF sn, sn2
      <4>5. Guarded(heap', g2, k, S \cup Lives(g2, k)', sn2)
        BY <1>2, <4>2, <4>4, GuardedAfter
      <4> QED BY <4>1, <4>5 DEF Watch, sn2
    <3> QED BY <3>k, <3>1, <3>2 DEF Sees
  <2> QED BY <2>1, <2>2
<1>4. Watched(g2)'
  BY <1>3 DEF Watched
<1> QED BY <1>1, <1>2, <1>4 DEF DInv

LEMMA RebalanceStep ==
    ASSUME NEW g, Good(g), Watched(g), SeenOK, NEW t \in Thread, Rebalances(t, g)
    PROVE  DInv' /\ Contents' = Contents /\ call' = call /\ ret' = ret /\ seen' = seen
<1>1. Contents' = Contents
  BY RebalanceContents
<1>2. PICK new, removed, s : IsParentUpdate(t, g, new, removed, s)
  BY DEF Rebalances
<1>3. call' = call /\ ret' = ret /\ seen' = seen
  BY <1>2 DEF IsParentUpdate, ReplaceParent
<1>4. SeenOK'
  BY <1>1, <1>3 DEF SeenOK
<1>5. DInv'
  BY <1>2, <1>3, <1>4, UpdateWatched DEF IsParentUpdate
<1> QED BY <1>1, <1>3, <1>5

LEMMA EffectStep ==
    ASSUME NEW g, Good(g), Watched(g), SeenOK, NEW t \in Thread, TakesEffect(t, g)
    PROVE  DInv' /\ Dict!Next
<1> DEFINE key == call[t].key
<1>1. PICK new, s, v : /\ IsLeafUpdate(t, g, new, s, v) /\ Assigns(At(t), new, call[t].key, v)
                       /\ Effect(t, v) /\ Operating(t)
  BY DEF TakesEffect
<1>2. /\ Contents' = [Contents EXCEPT ![call[t].key] = v]
      /\ Lookup(At(t), call[t].key) = Contents[call[t].key]
      /\ HasKey(At(t), call[t].key) <=> Contents[call[t].key] # NO_VALUE
  BY <1>1, EffectContents
<1>3. /\ Updates(t, g, pos[t].p, pos[t].ixToL, {pos[t].l}, new) /\ ReplaceLeaf(t, new, s, v)
      /\ call[t] \in Calls /\ key \in Key
  BY <1>1 DEF IsLeafUpdate, AtLeaf
<1>4. /\ ret' = [ret EXCEPT ![t] = Contents[key]] /\ call' = call
      /\ seen' = [u \in Thread |-> IF call[u] # NoCall /\ call[u].key = key
                                   THEN seen[u] \cup {v} ELSE seen[u]]
  BY <1>2, <1>3 DEF ReplaceLeaf
<1>5. ContentsOK
  BY GoodContents
<1>6. Contents'[key] = v /\ \A k \in Key : k # key => Contents'[k] = Contents[k]
  BY <1>2, <1>3, <1>5 DEF ContentsOK
<1>7. ASSUME NEW u \in Thread, call[u] # NoCall PROVE Contents'[call[u].key] \in seen'[u]
  <2>1. CASE call[u].key = key
    BY <1>4, <1>6, <1>7, <2>1
  <2>2. CASE call[u].key # key
    <3>1. call[u].key \in Key
      BY <1>7, ThreadFacts DEF CallOK, Calls
    <3> QED BY <1>4, <1>6, <1>7, <2>2, <3>1 DEF SeenOK
  <2> QED BY <2>1, <2>2
<1>8. SeenOK'
  BY <1>4, <1>7 DEF SeenOK
<1>9. \A u \in Thread : seen[u] \subseteq seen'[u]
  BY <1>4
<1>10. DInv'
  BY <1>3, <1>8, <1>9, UpdateWatched
<1>11. v \in Value \cup {NO_VALUE}
  BY <1>1, <1>3, InsertCalls DEF Effect
<1>12. /\ call[t] # NoCall /\ ret[t] = Pending
       /\ \/ call[t].op = "insert" /\ v = call[t].val
          \/ call[t].op = "insertIfAbsent" /\ v = call[t].val /\ Contents[call[t].key] = NO_VALUE
          \/ call[t].op = "erase" /\ v = NO_VALUE /\ Contents[call[t].key] # NO_VALUE
  BY <1>1, <1>2 DEF Effect, Operating
<1>13. Dict!Update(t, v)
  BY <1>2, <1>4, <1>12 DEF Dict!Update, Dict!NoCall, NoCall, Dict!Pending, Pending
<1> QED BY <1>10, <1>11, <1>13 DEF Dict!Next

LEMMA StepDictionary ==
    ASSUME NEW g, Good(g), Funs, WorkOK, Watched(g), SeenOK, NEW t \in Thread, Step(t)
    PROVE  DInv' /\ (Dict!Next \/ (Contents' = Contents /\ call' = call /\ ret' = ret /\ seen' = seen))
<1>1. CASE Silent(t)
  BY <1>1, SilentSteps
<1>2. CASE Observe(t)
  BY <1>2, ObserveStep
<1>3. CASE Return(t)
  BY <1>3, ReturnStep
<1>4. CASE ReplaceValue(t) \/ InsertPair(t) \/ Overflow(t) \/ Erase(t)
  <2>1. TakesEffect(t, g)
    BY <1>4, ValueTakes, PairTakes, OverflowTakes, EraseTakes
  <2> QED BY <2>1, EffectStep
<1>5. CASE Absorb(t) \/ Split(t) \/ AbsorbSibling(t) \/ Distribute(t)
  <2>1. Rebalances(t, g)
    BY <1>5, AbsorbSame, SplitSame, SiblingSame, DistributeSame
  <2> QED BY <2>1, RebalanceStep
<1> QED BY <1>1, <1>2, <1>3, <1>4, <1>5 DEF Step, Silent

LEMMA NextDictionary ==
    ASSUME DInv, [Next]_vars
    PROVE  DInv' /\ [Dict!Next]_(Dict!vars)
<1>1. PICK g : Good(g) /\ Watched(g)
  BY DEF DInv
<1>2. Funs /\ WorkOK /\ SeenOK
  BY DEF DInv
<1>3. CASE Next
  <2>1. PICK t \in Thread : Step(t) \/ \E c \in work.calls \cup Range(work.fill) : Call(t, c)
    BY <1>3 DEF Next
  <2>2. CASE Step(t)
    <3>1. DInv' /\ (Dict!Next \/ (Contents' = Contents /\ call' = call /\ ret' = ret /\ seen' = seen))
      BY <1>1, <1>2, <2>2, StepDictionary
    <3> QED BY <3>1 DEF Dict!vars
  <2>3. ASSUME NEW c, Call(t, c) PROVE DInv' /\ Dict!Next
    BY <1>1, <1>2, <2>3, CallStep
  <2> QED BY <2>1, <2>2, <2>3
<1>4. CASE UNCHANGED vars
  <2>1. /\ heap' = heap /\ retired' = retired /\ call' = call /\ ret' = ret /\ seen' = seen
        /\ todo' = todo /\ pos' = pos /\ work' = work
    BY <1>4 DEF vars, tree, local
  <2>2. PICK t : t \in Thread
    BY ThreadAssumption
  <2>3. Quiet(t, g)
    <3>1. Funs' /\ WorkOK' /\ Others(t)
      BY <1>2, <2>1 DEF Funs, WorkOK, Others
    <3>2. ThreadOK(heap, g, call'[t], ret'[t], todo'[t], pos'[t])
      BY <1>1, <2>1, <2>2 DEF Good
    <3> QED BY <2>1, <3>1, <3>2 DEF Quiet
  <2>4. DInv' /\ Contents' = Contents
    BY <1>1, <1>2, <2>1, <2>2, <2>3, SilentWatched
  <2> QED BY <2>1, <2>4 DEF Dict!vars
<1> QED BY <1>3, <1>4

LEMMA InitDictionary ==
    ASSUME Init
    PROVE  DInv /\ Dict!Init
<1>1. Inv
  BY InitGood
<1>2. PICK g : Good(g)
  BY <1>1 DEF Inv
<1>3. /\ call = [t \in Thread |-> NoCall] /\ ret = [t \in Thread |-> Pending]
      /\ seen = [t \in Thread |-> {}] /\ pos = [t \in Thread |-> Nowhere]
  BY DEF Init
<1>4. Watched(g) /\ SeenOK
  BY <1>3 DEF Watched, Sees, SeenOK
<1>5. ContentsOK
  BY <1>2, GoodContents
<1>6. \A k, v : ~Holds(heap, retired, k, v)
  <2> DEFINE n1 == MakeNode(FALSE, TRUE, AnyKey, <<>>, <<2>>)
             n2 == MakeNode(TRUE, TRUE, AnyKey, <<>>, <<>>)
  <2>1. heap = <<n1, n2>> /\ ~n1.leaf /\ n2.keys = <<>>
    BY DEF Init, MakeNode
  <2> HIDE DEF n1, n2
  <2>2. Len(heap) = 2 /\ heap[1] = n1 /\ heap[2] = n2
    BY <2>1
  <2>3. \A k, v : ~HasPair(n1, k, v) /\ ~HasPair(n2, k, v)
    BY <2>1 DEF HasPair
  <2>4. \A m \in 1 .. Len(heap) : m = 1 \/ m = 2
    BY <2>2
  <2> QED BY <2>2, <2>3, <2>4 DEF Holds
<1>7. Contents = [k \in Key |-> NO_VALUE]
  <2>1. \A k \in Key : Contents[k] = NO_VALUE
    BY <1>5, <1>6 DEF ContentsOK
  <2>2. Contents = [k \in Key |-> Contents[k]]
    BY <1>5 DEF ContentsOK
  <2> QED BY <2>1, <2>2
<1>8. Dict!Init
  BY <1>3, <1>7 DEF Dict!Init, Dict!NoCall, NoCall, Dict!Pending, Pending
<1> QED BY <1>1, <1>2, <1>4, <1>8 DEF DInv, Inv

\* Searches that read child pointers one by one while other threads replace the nodes
\* under them, and updates that check only the parent, still make a dictionary: every
\* insert, insertIfAbsent and erase takes effect at its SCX, with the value that the key
\* has at that moment; what find, or an update that finds nothing to do, returns from a
\* leaf that may have left the tree long ago was the key's value at some time during the
\* call; and no rebalancing step changes what the tree holds.
THEOREM TreeIsDictionary == Spec => KeepsDictionary
<1>1. Init => DInv /\ Dict!Init
  BY InitDictionary
<1>2. DInv /\ [Next]_vars => DInv' /\ [Dict!Next]_(Dict!vars)
  BY NextDictionary
<1> QED BY <1>1, <1>2, PTL DEF Spec, KeepsDictionary, Dict!Spec

---------------------------------------------------------------------------
(* What a fix function finds *)

\* A search for k that is at a node of S stays in S.
Stays(h, g, k, S) == \A n \in S : n \in 1 .. Len(h) /\ \A c \in Kids(h[n]) : Covers(g[c], k) => c \in S

\* A search from l, for the searchKey of v, comes to v.
Finds(h, g, l, v) == \A S : l \in S /\ Stays(h, g, h[v].searchKey, S) => v \in S

\* A thread that searches for a node will find it, unless the node is removed.
Seeks(h, g, R, c, r, td, q) ==
    q # Nowhere /\ ~Running(c, r) /\ td[1].viol \notin R => Finds(h, g, q.l, td[1].viol)

Seeking(g) == \A t \in Thread : Seeks(heap, g, retired, call[t], ret[t], todo[t], pos[t])

\* From the root every node of the tree is found.
LEMMA RootFinds ==
    ASSUME NEW h, NEW g, NEW R, Fine(h, g, R), NEW v \in 2 .. Len(h), v \notin R
    PROVE  Finds(h, g, h[1].ptrs[1], v)
<1> DEFINE k == h[v].searchKey
           N == Len(h)
           root == h[1].ptrs[1]
<1>1. NodesOK(h, g) /\ LinkOK(N, KidsOf(h), R) /\ N \in Nat
  BY HeapType DEF Fine
<1>2. SUFFICES ASSUME NEW S, root \in S, Stays(h, g, k, S), v \notin S PROVE FALSE
  BY DEF Finds
<1> DEFINE T == {n \in 2 .. N : n \notin R /\ Covers(g[n], k) /\ n \notin S}
<1>3. k \in Int /\ Covers(g[v], k)
  <2>1. Sound(h[v], g[v], g)
    BY <1>1, HeapType
  <2>2. h[v].searchKey \in Key
    BY <2>1, NodeFields DEF Sound
  <2> QED BY <2>1, <2>2, KeyAssumption DEF Sound, Covers
<1> HIDE DEF k
<1>4. v \in T /\ T \subseteq 1 .. N
  BY <1>1, <1>2, <1>3
<1>5. Ranked(N, KidsOf(h), TreeRank(h, g))
  BY <1>1, NodesRanked
<1>6. PICK n \in T : \A q \in 1 .. N : n \in KidsOf(h)[q] => q \notin T
  <2> HIDE DEF T, N
  <2> QED BY <1>4, <1>5, GreatestRank
<1>7. n \in 2 .. N /\ n \notin R /\ Covers(g[n], k) /\ n \notin S
  BY <1>6
<1>8. PICK q \in 1 .. N : q \notin R /\ n \in KidsOf(h)[q]
  BY <1>1, <1>7 DEF LinkOK
<1>9. n \in Kids(h[q]) /\ q \notin T
  BY <1>6, <1>8 DEF KidsOf
<1>10. CASE q = 1
  <2>1. n = root
    BY <1>1, <1>9, <1>10, Entry
  <2> QED BY <1>2, <1>7, <2>1
<1>11. CASE q # 1
  <2>1. q \in 2 .. N
    BY <1>1, <1>11
  <2>2. g[q].lo <= g[n].lo /\ g[n].hi <= g[q].hi /\ g[n].lo \in Int /\ g[n].hi \in Int
    BY <1>1, <1>9, <2>1, KidOf
  <2>3. g[q].lo \in Int /\ g[q].hi \in Int
    <3>1. Sound(h[q], g[q], g)
      BY <1>1, <2>1, HeapType
    <3> QED BY <3>1, RankType
  <2>4. Covers(g[q], k)
    BY <1>3, <1>7, <2>2, <2>3, CoversMore
  <2>5. q \in S
    BY <1>8, <1>9, <2>1, <2>4
  <2> QED BY <1>2, <1>7, <1>9, <2>5 DEF Stays
<1> QED BY <1>10, <1>11

\* From a node's child for the key, what was found from the node.
LEMMA KidFinds ==
    ASSUME NEW h, NEW g, NodesOK(h, g), NEW l \in 2 .. Len(h), NEW c \in Kids(h[l]), NEW v, v # l,
           h[v].searchKey \in Int, Covers(g[c], h[v].searchKey), Finds(h, g, l, v)
    PROVE  Finds(h, g, c, v)
<1> DEFINE k == h[v].searchKey
<1>1. SUFFICES ASSUME NEW S, c \in S, Stays(h, g, k, S) PROVE v \in S
  BY DEF Finds
<1>2. Sound(h[l], g[l], g) /\ ~h[l].leaf /\ l \in 1 .. Len(h)
  BY HeapType, KidOf
<1>3. \A d \in Kids(h[l]) : Covers(g[d], k) => d = c
  BY <1>2, KidsDisjoint
<1>4. Stays(h, g, k, S \cup {l})
  BY <1>1, <1>2, <1>3 DEF Stays
<1>5. v \in S \cup {l}
  BY <1>4 DEF Finds
<1> QED BY <1>5

\* A leaf leads to itself only.
LEMMA LeafFinds ==
    ASSUME NEW h, NEW g, NEW l \in 1 .. Len(h), h[l].leaf, NEW v, Finds(h, g, l, v)
    PROVE  v = l
<1>1. Stays(h, g, h[v].searchKey, {l})
  BY DEF Stays, Kids
<1>2. v \in {l}
  BY <1>1 DEF Finds
<1> QED BY <1>2

\* What is found is found after an update too, unless it was removed.
LEMMA FindsAfter ==
    ASSUME NEW h, NEW g, NEW R, Fine(h, g, R), NEW P, NEW ix, NEW D, NEW new,
           Preserves(h, g, R, P, ix, D, new), NEW h2, Kept(h, P, ix, new, h2),
           NEW g2, Fine(h2, g2, R \cup D), Keeps(g, g2), SameRange(g[h[P].ptrs[ix]], g2[Len(h) + 1]),
           NEW l \in 1 .. Len(h), NEW v \in 1 .. Len(h), v \notin D, Finds(h, g, l, v)
    PROVE  Finds(h2, g2, l, v)
<1> DEFINE N == Len(h)
           c == h[P].ptrs[ix]
           k == h[v].searchKey
<1>2. /\ N \in Nat /\ Len(new) \in Nat /\ Len(h2) = N + Len(new)
      /\ \A n \in 1 .. N : h2[n].leaf = h[n].leaf /\ (n # P => h2[n].ptrs = h[n].ptrs)
      /\ h2[P].ptrs = [h[P].ptrs EXCEPT ![ix] = N + 1] /\ h2[v].searchKey = k
      /\ \A j \in 1 .. Len(new) : h2[N + j] = new[j]
  BY DEF Kept
<1>3. SUFFICES ASSUME NEW S, l \in S, Stays(h2, g2, k, S) PROVE v \in S
  BY <1>2 DEF Finds
<1>4. /\ P \in 1 .. N /\ ~h[P].leaf /\ ix \in 1 .. Len(h[P].ptrs) /\ P \notin D
      /\ D \subseteq 2 .. N /\ c \in D /\ Adopts(h, R, P, c, D, new)
  BY DEF Preserves, Leads, Place, Goes
<1>5. NodesOK(h, g) /\ NodesOK(h2, g2) /\ Len(g) = N
  BY HeapType DEF Fine
<1>6. \A x \in 1 .. N : g2[x] = g[x]
  BY <1>5 DEF Keeps
<1>7. Len(new) >= 1 /\ new \in Seq(NodeType)
  BY DEF Preserves, NewNodes
<1>8. k \in Int
  <2>1. h[v] \in NodeType
    BY <1>5, HeapType
  <2> QED BY <2>1, NodeFields, KeyAssumption
<1>9. \A x : Covers(g2[N + 1], x) <=> Covers(g[c], x)
  BY DEF SameRange, Covers
<1>10. h[P].ptrs \in Seq(Value \cup Nat)
  <2>1. h[P] \in NodeType
    BY <1>4, <1>5, HeapType
  <2> QED BY <2>1, NodeFields
<1>11. /\ N + 1 \in Kids(h2[P])
       /\ \A x \in Kids(h[P]) : x = c \/ x \in Kids(h2[P])
  <2>1. Len(h2[P].ptrs) = Len(h[P].ptrs) /\ h2[P].ptrs[ix] = N + 1
        /\ \A i \in 1 .. Len(h[P].ptrs) : i # ix => h2[P].ptrs[i] = h[P].ptrs[i]
    <3> DEFINE s == h[P].ptrs
    <3>1. s \in Seq(Value \cup Nat) /\ ix \in 1 .. Len(s) /\ N + 1 \in Value \cup Nat
      BY <1>2, <1>4, <1>10
    <3>2. h2[P].ptrs = [s EXCEPT ![ix] = N + 1]
      BY <1>2
    <3> HIDE DEF s, N
    <3> DEFINE z == [s EXCEPT ![ix] = N + 1]
    <3>3. DOMAIN s = 1 .. Len(s)
      BY <3>1, LenProperties
    <3>4. Len(z) = Len(s) /\ \A i \in 1 .. Len(s) : z[i] = IF i = ix THEN N + 1 ELSE s[i]
      BY <3>1, <3>3, ExceptSeq
    <3> QED BY <3>1, <3>2, <3>4 DEF s
  <2>2. ~h2[P].leaf
    BY <1>2, <1>4
  <2> QED BY <1>4, <2>1, <2>2 DEF Kids, Elems
<1> DEFINE E == IF P \in S /\ Covers(g[c], k) THEN D ELSE {}
           S0 == {n \in S : n \in 1 .. N}
<1> HIDE DEF N, c, k
<1>12. ASSUME NEW n \in S0, NEW x \in Kids(h[n]), Covers(g[x], k) PROVE x \in S0 \cup E
  <2>1. n \in S /\ n \in 1 .. N
    OBVIOUS
  <2>2. x \in 1 .. N
    BY <1>5, <1>12, <2>1, OldKid DEF N
  <2>3. Covers(g2[x], k)
    BY <1>6, <1>12, <2>2
  <2>4. CASE n = P
    <3>1. CASE x = c
      BY <1>4, <1>12, <2>1, <2>4, <3>1
    <3>2. CASE x \in Kids(h2[P])
      BY <1>3, <2>1, <2>2, <2>3, <2>4, <3>2 DEF Stays
    <3> QED BY <1>11, <1>12, <2>4, <3>1, <3>2
  <2>5. CASE n # P
    <3>1. x \in Kids(h2[n])
      BY <1>2, <1>12, <2>1, <2>5 DEF Kids
    <3> QED BY <1>3, <2>1, <2>2, <2>3, <3>1 DEF Stays
  <2> QED BY <2>4, <2>5
<1>13. ASSUME NEW n \in E, NEW x \in Kids(h[n]), Covers(g[x], k) PROVE x \in S0 \cup E
  <2>1. P \in S /\ Covers(g[c], k) /\ n \in D /\ E = D
    BY <1>13
  <2>2. n \in 1 .. N
    BY <1>2, <1>4, <2>1
  <2>3. x \in 1 .. N
    BY <1>5, <1>13, <2>2, OldKid DEF N
  <2>4. Covers(g2[x], k)
    BY <1>6, <1>13, <2>3
  <2>5. CASE x \in D
    BY <2>1, <2>5
  <2>6. CASE x \notin D
    <3>1. PICK j \in 1 .. Len(new) : x \in Kids(new[j])
      BY <1>4, <1>13, <2>1, <2>6 DEF Adopts
    <3>2. N + 1 \in S
      BY <1>3, <1>9, <1>11, <2>1 DEF Stays
    <3>3. N + j \in S
      <4>1. CASE j = 1
        BY <3>2, <4>1
      <4>2. CASE j # 1
        <5>1. j \in 2 .. Len(new)
          BY <1>2, <4>2
        <5>2. N + j \in Kids(h2[N + 1])
          <6>1. N + j \in Kids(new[1])
            BY <1>4, <5>1 DEF Adopts, N
          <6>2. 1 \in 1 .. Len(new)
            BY ONLY <1>2, <1>7
          <6>3. h2[N + 1] = new[1]
            BY ONLY <1>2, <6>2
          <6> QED BY <6>1, <6>3
        <5>3. N + j \in 2 .. Len(h2) /\ x \in Kids(h2[N + j])
          <6>1. N + j \in 2 .. N + Len(new)
            BY ONLY <1>2, <5>1
          <6>2. h2[N + j] = new[j] /\ Len(h2) = N + Len(new)
            BY ONLY <1>2, <3>1
          <6> QED BY ONLY <3>1, <6>1, <6>2
        <5>4. /\ g2[N + j].lo <= g2[x].lo /\ g2[x].hi <= g2[N + j].hi
              /\ g2[x].lo \in Int /\ g2[x].hi \in Int
          BY <1>5, <5>3, KidOf
        <5>5. g2[N + j].lo \in Int /\ g2[N + j].hi \in Int
          <6>1. Sound(h2[N + j], g2[N + j], g2)
            BY <1>5, <5>3, HeapType
          <6> QED BY <6>1, RankType
        <5>6. Covers(g2[N + j], k)
          BY <1>8, <2>4, <5>4, <5>5, CoversMore DEF k
        <5> QED BY <1>3, <3>2, <5>2, <5>6 DEF Stays
      <4> QED BY <4>1, <4>2
    <3>4. x \in Kids(h2[N + j])
      BY <1>2, <3>1
    <3> QED BY <1>3, <2>3, <2>4, <3>3, <3>4 DEF Stays
  <2> QED BY <2>5, <2>6
<1>14. Stays(h, g, k, S0 \cup E)
  <2>1. D \subseteq 1 .. N
    BY ONLY <1>2, <1>4
  <2>2. S0 \subseteq 1 .. N /\ E \subseteq 1 .. N
    BY <2>1
  <2> HIDE DEF S0, E
  <2> QED BY <1>12, <1>13, <2>2 DEF Stays, N
<1>15. l \in S0 \cup E
  BY <1>3 DEF N
<1>16. v \in S0 \cup E
  <2> HIDE DEF S0, E
  <2> QED BY <1>14, <1>15 DEF Finds, k
<1> QED BY <1>16

---------------------------------------------------------------------------
(* Whose a violation is *)

HasCall(td, kind, n) == \E i \in 1 .. Len(td) : td[i].kind = kind /\ td[i].viol = n

Owned(kind, n) == \E t \in Thread : HasCall(todo[t], kind, n)

\* The node n of the tree is below the root.
Within(h, R, n) == n \in 2 .. Len(h) /\ n \notin R /\ n # h[1].ptrs[1]

Faulty(r, kind) == \/ kind = "weight" /\ ~r.weight
                   \/ kind = "degree" /\ r.weight /\ Len(r.ptrs) < a

Owns == \A n, kind : Within(heap, retired, n) /\ Faulty(heap[n], kind)
                     => Owned(kind, n) \/ (kind = "degree" /\ n \in givenUp)

Clear(h) == \A n \in 1 .. Len(h) : h[n].leaf => ~h[n].marked

VInv == Funs /\ WorkOK /\ Clear(heap) /\ Owns /\ \E g : Good(g) /\ Seeking(g)

LEMMA CallsJoin ==
    ASSUME NEW S, NEW x \in Seq(S), NEW y \in Seq(S), NEW kind, NEW n
    PROVE  HasCall(x \o y, kind, n) <=> (HasCall(x, kind, n) \/ HasCall(y, kind, n))
<1> DEFINE z == x \o y
<1>1. /\ Len(x) \in Nat /\ Len(y) \in Nat /\ Len(z) = Len(x) + Len(y)
      /\ \A i \in 1 .. Len(x) : z[i] = x[i]
      /\ \A j \in 1 .. Len(y) : z[Len(x) + j] = y[j]
  BY Extended
<1> HIDE DEF z
<1>2. ASSUME HasCall(z, kind, n) PROVE HasCall(x, kind, n) \/ HasCall(y, kind, n)
  <2>1. PICK i \in 1 .. Len(z) : z[i].kind = kind /\ z[i].viol = n
    BY <1>2 DEF HasCall
  <2>2. CASE i \in 1 .. Len(x)
    BY <1>1, <2>1, <2>2 DEF HasCall
  <2>3. CASE i \notin 1 .. Len(x)
    <3> DEFINE j == i - Len(x)
    <3>1. j \in 1 .. Len(y) /\ Len(x) + j = i
      BY <1>1, <2>3
    <3>2. z[i] = y[j]
      BY <1>1, <3>1
    <3> QED BY <2>1, <3>1, <3>2 DEF HasCall
  <2> QED BY <2>2, <2>3
<1>3. ASSUME HasCall(x, kind, n) PROVE HasCall(z, kind, n)
  <2>1. PICK i \in 1 .. Len(x) : x[i].kind = kind /\ x[i].viol = n
    BY <1>3 DEF HasCall
  <2>2. i \in 1 .. Len(z) /\ z[i] = x[i]
    BY <1>1
  <2> QED BY <2>1, <2>2 DEF HasCall
<1>4. ASSUME HasCall(y, kind, n) PROVE HasCall(z, kind, n)
  <2>1. PICK j \in 1 .. Len(y) : y[j].kind = kind /\ y[j].viol = n
    BY <1>4 DEF HasCall
  <2>2. Len(x) + j \in 1 .. Len(z) /\ z[Len(x) + j] = y[j]
    BY <1>1
  <2> QED BY <2>1, <2>2 DEF HasCall
<1> QED BY <1>2, <1>3, <1>4 DEF z

LEMMA CallsTail ==
    ASSUME NEW h, NEW td, TodoOK(h, td), td # <<>>, NEW kind, NEW n, HasCall(td, kind, n)
    PROVE  HasCall(Tail(td), kind, n) \/ (kind = td[1].kind /\ n = td[1].viol)
<1> DEFINE z == Tail(td)
<1>1. td \in Seq(FixType(Len(h)))
  BY DEF TodoOK
<1>2. Len(td) \in Nat /\ Len(z) = Len(td) - 1 /\ \A i \in 1 .. Len(z) : z[i] = td[i + 1]
  BY <1>1, HeadTailProperties, LenProperties
<1> HIDE DEF z
<1>3. PICK i \in 1 .. Len(td) : td[i].kind = kind /\ td[i].viol = n
  BY DEF HasCall
<1>4. CASE i = 1
  BY <1>3, <1>4
<1>5. CASE i # 1
  <2> DEFINE j == i - 1
  <2>1. j \in 1 .. Len(z) /\ j + 1 = i
    BY <1>2, <1>5
  <2>2. z[j] = td[i]
    BY <1>2, <2>1
  <2> QED BY <1>3, <2>1, <2>2 DEF HasCall, z
<1> QED BY <1>4, <1>5

LEMMA CallsBegun ==
    ASSUME NEW h, NEW td, TodoOK(h, td), td # <<>>, NEW kind, NEW n, HasCall(td, kind, n)
    PROVE  HasCall(Begun(td), kind, n)
<1> DEFINE f == [td[1] EXCEPT !.entered = TRUE]
           z == [td EXCEPT ![1] = f]
<1>1. td \in Seq(FixType(Len(h))) /\ td[1] \in FixType(Len(h)) /\ Len(td) \in Nat /\ Len(td) >= 1
  BY TodoHead DEF TodoOK
<1>2. f.kind = td[1].kind /\ f.viol = td[1].viol /\ f \in FixType(Len(h))
  BY <1>1 DEF FixType
<1>3. Begun(td) = z
  BY <1>1 DEF Begun
<1> HIDE DEF f
<1>4. Len(z) = Len(td) /\ \A i \in 1 .. Len(td) : z[i] = IF i = 1 THEN f ELSE td[i]
  <2>1. 1 \in 1 .. Len(td) /\ DOMAIN td = 1 .. Len(td)
    BY <1>1, LenProperties
  <2> QED BY <1>1, <1>2, <2>1, ExceptSeq
<1> HIDE DEF z
<1>5. PICK i \in 1 .. Len(td) : td[i].kind = kind /\ td[i].viol = n
  BY DEF HasCall
<1>6. z[i].kind = kind /\ z[i].viol = n
  BY <1>2, <1>4, <1>5
<1> QED BY <1>3, <1>4, <1>5, <1>6 DEF HasCall

\* A step of t that does not change the tree, after which t's calls are for all that
\* they were for and still needs it.
LEMMA QuietOwns ==
    ASSUME NEW g, Good(g), Seeking(g), Clear(heap), Owns, NEW t \in Thread, Quiet(t, g),
           givenUp \subseteq givenUp',
           \A n, kind : HasCall(todo[t], kind, n) /\ Within(heap, retired, n) /\ Faulty(heap[n], kind)
                        => HasCall(todo'[t], kind, n) \/ (kind = "degree" /\ n \in givenUp'),
           Seeks(heap, g, retired, call'[t], ret'[t], todo'[t], pos'[t])
    PROVE  VInv'
<1>1. Good(g)' /\ heap' = heap /\ retired' = retired /\ Others(t) /\ Funs' /\ WorkOK'
  BY QuietGood DEF Quiet
<1>2. ASSUME NEW u \in Thread PROVE Seeks(heap', g, retired', call'[u], ret'[u], todo'[u], pos'[u])
  <2>1. CASE u = t
    BY <1>1, <2>1
  <2>2. CASE u # t
    <3>1. call'[u] = call[u] /\ ret'[u] = ret[u] /\ pos'[u] = pos[u] /\ todo'[u] = todo[u]
      BY <1>1, <2>2 DEF Others
    <3> QED BY <1>1, <3>1 DEF Seeking
  <2> QED BY <2>1, <2>2
<1>3. Seeking(g)'
  BY <1>2 DEF Seeking
<1>4. Clear(heap')
  BY <1>1
<1>5. ASSUME NEW n, NEW kind, Within(heap', retired', n), Faulty(heap'[n], kind)
      PROVE  Owned(kind, n)' \/ (kind = "degree" /\ n \in givenUp')
  <2>1. Within(heap, retired, n) /\ Faulty(heap[n], kind)
    BY <1>1, <1>5
  <2>2. CASE kind = "degree" /\ n \in givenUp
    BY <2>2
  <2>3. ASSUME NEW u \in Thread, HasCall(todo[u], kind, n)
        PROVE  Owned(kind, n)' \/ (kind = "degree" /\ n \in givenUp')
    <3>1. CASE u = t
      <4>1. HasCall(todo'[t], kind, n) \/ (kind = "degree" /\ n \in givenUp')
        BY <2>1, <2>3, <3>1
      <4> QED BY <4>1 DEF Owned
    <3>2. CASE u # t
      <4>1. todo'[u] = todo[u]
        BY <1>1, <3>2 DEF Others
      <4>2. HasCall(todo'[u], kind, n)
        BY <2>3, <4>1
      <4> QED BY <4>2 DEF Owned
    <3> QED BY <3>1, <3>2
  <2>4. Owned(kind, n) \/ (kind = "degree" /\ n \in givenUp)
    BY <2>1 DEF Owns
  <2> QED BY <2>2, <2>3, <2>4 DEF Owned
<1>6. Owns'
  BY <1>5 DEF Owns
<1> QED BY <1>1, <1>3, <1>4, <1>6 DEF VInv

LEMMA ClearAfter ==
    ASSUME NEW h, NEW g, NEW R, Fine(h, g, R), NEW P, NEW ix, NEW D, NEW new,
           Preserves(h, g, R, P, ix, D, new), Clear(h)
    PROVE  Clear(Changed(h, P, ix, D) \o new)
<1> DEFINE y == Changed(h, P, ix, D)
           N == Len(h)
<1>1. h \in Seq(NodeType) /\ Len(h) \in Nat
  BY LenProperties DEF Fine, NodesOK
<1>2. new \in Seq(NodeType) /\ Len(new) \in Nat /\ \A j \in 1 .. Len(new) : ~new[j].marked
  BY LenProperties DEF Preserves, NewNodes
<1>3. P \in 1 .. Len(h) /\ ~h[P].leaf /\ ix \in 1 .. Len(h[P].ptrs) /\ P \notin D
  BY DEF Preserves, Leads, Place, Goes
<1>4. /\ y \in Seq(NodeType) /\ Len(y) = Len(h)
      /\ \A n \in 1 .. Len(h) : /\ y[n].leaf = h[n].leaf
                                /\ n \in D => y[n].marked = ~h[n].leaf
                                /\ n \notin D => y[n].marked = h[n].marked
      /\ y[P].ptrs = [h[P].ptrs EXCEPT ![ix] = Len(h) + 1]
  BY <1>1, <1>3, ChangedNodes
<1> HIDE DEF y
<1>5. /\ Len(y \o new) = Len(y) + Len(new)
      /\ \A n \in 1 .. Len(y) : (y \o new)[n] = y[n]
      /\ \A j \in 1 .. Len(new) : (y \o new)[Len(y) + j] = new[j]
  <2>1. y \in Seq(NodeType) /\ new \in Seq(NodeType)
    BY <1>2, <1>4
  <2> QED BY ONLY <2>1, Extended
<1>9. PICK h2 : h2 = y \o new
  OBVIOUS
<1>6. /\ Len(h2) = Len(y) + Len(new)
      /\ \A n \in 1 .. Len(y) : h2[n] = y[n]
      /\ \A j \in 1 .. Len(new) : h2[Len(y) + j] = new[j]
  BY <1>5, <1>9
<1> HIDE DEF N
<1>7. ASSUME NEW n \in 1 .. Len(h2), h2[n].leaf PROVE ~h2[n].marked
  <2>1. n \in 1 .. N \/ (n - N \in 1 .. Len(new) /\ N + (n - N) = n)
    BY <1>1, <1>2, <1>4, <1>6 DEF N
  <2>2. CASE n \in 1 .. N
    <3>1. h2[n] = y[n] /\ y[n].leaf = h[n].leaf /\ (n \in D => y[n].marked = ~h[n].leaf)
          /\ (n \notin D => y[n].marked = h[n].marked)
      BY <1>4, <1>6, <2>2 DEF N
    <3>2. h[n].leaf => ~h[n].marked
      BY <2>2 DEF Clear, N
    <3> QED BY ONLY <1>7, <3>1, <3>2
  <2>3. CASE n - N \in 1 .. Len(new) /\ N + (n - N) = n
    <3>1. h2[N + (n - N)] = new[n - N] /\ ~new[n - N].marked
      BY <1>1, <1>2, <1>4, <1>6, <2>3 DEF N
    <3> QED BY <2>3, <3>1
  <2> QED BY <2>1, <2>2, <2>3
<1>8. Clear(h2)
  BY <1>7 DEF Clear
<1> QED BY <1>8, <1>9 DEF y

LEMMA FindsThen ==
    ASSUME NEW h, NEW g, NEW R, Fine(h, g, R), NEW P, NEW ix, NEW D, NEW new,
           Preserves(h, g, R, P, ix, D, new),
           NEW g2, Fine(Changed(h, P, ix, D) \o new, g2, R \cup D), Keeps(g, g2),
           SameRange(g[h[P].ptrs[ix]], g2[Len(h) + 1]),
           NEW l \in 1 .. Len(h), NEW v \in 1 .. Len(h), v \notin D, Finds(h, g, l, v)
    PROVE  Finds(Changed(h, P, ix, D) \o new, g2, l, v)
<1>1. PICK h2 : h2 = Changed(h, P, ix, D) \o new
  OBVIOUS
<1>2. Fine(h2, g2, R \cup D)
  BY <1>1
<1>3. Kept(h, P, ix, new, h2)
  BY <1>1, OldNodes
<1>4. Finds(h2, g2, l, v)
  BY ONLY Fine(h, g, R), Preserves(h, g, R, P, ix, D, new), <1>2, <1>3, Keeps(g, g2),
          SameRange(g[h[P].ptrs[ix]], g2[Len(h) + 1]), l \in 1 .. Len(h), v \in 1 .. Len(h),
          v \notin D, Finds(h, g, l, v), FindsAfter
<1> QED BY <1>1, <1>4

\* The new nodes, of which the first may be the root, have no violation that s is
\* not called for.
Answers(s, N, new, top) ==
    \A j \in 1 .. Len(new), kind \in {"weight", "degree"} :
        Faulty(new[j], kind) => HasCall(s, kind, N + j) \/ (j = 1 /\ top)

\* An update of t, whose calls are then for all that they were for but for D, and for
\* what is new.
LEMMA UpdateOwns ==
    ASSUME NEW g, Good(g), Seeking(g), Clear(heap), Owns, NEW t \in Thread, NEW P, NEW ix, NEW D, NEW new,
           Updates(t, g, P, ix, D, new), givenUp' = givenUp,
           NEW s, Answers(s, Len(heap), new, P = 1),
           \A n, kind : HasCall(todo[t], kind, n) => HasCall(todo'[t], kind, n) \/ n \in D,
           \A n, kind : HasCall(s, kind, n) => HasCall(todo'[t], kind, n)
    PROVE  VInv'
<1> DEFINE N == Len(heap)
<1>1. /\ heap' = Changed(heap, P, ix, D) \o new /\ retired' = retired \cup D
      /\ Preserves(heap, g, retired, P, ix, D, new) /\ Fine(heap, g, retired) /\ NodesOK(heap, g)
      /\ Funs' /\ WorkOK' /\ Others(t) /\ pos'[t] = Nowhere
  BY DEF Updates, Good, Fine
<1>2. PICK g2 : Good(g2)' /\ Keeps(g, g2) /\ SameRange(g[heap[P].ptrs[ix]], g2[Len(heap) + 1])
                /\ Later(heap, heap')
  BY UpdateGood
<1>3. Kept(heap, P, ix, new, heap')
  BY <1>1, OldNodes
<1>4. /\ N \in Nat /\ Len(new) \in Nat /\ Len(heap') = N + Len(new)
      /\ \A n \in 1 .. N : heap'[n].leaf = heap[n].leaf /\ heap'[n].weight = heap[n].weight
      /\ \A j \in 1 .. Len(new) : heap'[N + j] = new[j]
      /\ heap'[P].ptrs = [heap[P].ptrs EXCEPT ![ix] = N + 1]
      /\ \A n \in 1 .. N : n # P => heap'[n].ptrs = heap[n].ptrs
  BY <1>3 DEF Kept
<1>5. ASSUME NEW u \in Thread PROVE Seeks(heap', g2, retired', call'[u], ret'[u], todo'[u], pos'[u])
  <2>1. CASE u = t
    BY <1>1, <2>1 DEF Seeks
  <2>2. CASE u # t
    <3>1. call'[u] = call[u] /\ ret'[u] = ret[u] /\ pos'[u] = pos[u] /\ todo'[u] = todo[u]
      BY <1>1, <2>2 DEF Others
    <3> DEFINE v == todo[u][1].viol
               l == pos[u].l
    <3>2. ASSUME pos[u] # Nowhere, ~Running(call[u], ret[u]), v \notin retired'
          PROVE  Finds(heap', g2, l, v)
      <4>1. Finds(heap, g, l, v) /\ v \notin D
        <5>1. Seeks(heap, g, retired, call[u], ret[u], todo[u], pos[u])
          BY DEF Seeking
        <5>2. pos[u] # Nowhere /\ ~Running(call[u], ret[u]) /\ v \notin retired /\ v \notin D
          BY <1>1, <3>2
        <5>3. Finds(heap, g, l, v)
          BY ONLY <5>1, <5>2 DEF Seeks
        <5> QED BY <5>2, <5>3
      <4>2. l \in 1 .. Len(heap) /\ todo[u] # <<>>
        <5>1. ~Operating(u)
          BY <3>2, ThreadFacts
        <5>2. l \in 2 .. Len(heap) /\ todo[u] # <<>>
          BY <3>2, <5>1, SearchFacts
        <5> QED BY <1>4, <5>2
      <4>3. v \in 1 .. Len(heap)
        BY <4>2, ThreadFacts, TodoHead
      <4>4. Fine(heap', g2, retired \cup D)
        BY <1>1, <1>2 DEF Good
      <4>5. Fine(Changed(heap, P, ix, D) \o new, g2, retired \cup D)
        BY <1>1, <4>4
      <4>6. Preserves(heap, g, retired, P, ix, D, new) /\ Fine(heap, g, retired)
        BY <1>1
      <4>7. Keeps(g, g2) /\ SameRange(g[heap[P].ptrs[ix]], g2[Len(heap) + 1])
        BY <1>2
      <4> HIDE DEF v, l
      <4>8. Finds(Changed(heap, P, ix, D) \o new, g2, l, v)
        BY ONLY <4>1, <4>2, <4>3, <4>5, <4>6, <4>7, FindsThen
      <4> QED BY <1>1, <4>8
    <3> QED BY <3>1, <3>2 DEF Seeks
  <2> QED BY <2>1, <2>2
<1>6. Seeking(g2)'
  BY <1>5 DEF Seeking
<1>7. ASSUME NEW n \in 1 .. N + Len(new) PROVE n \in 1 .. N \/ \E j \in 1 .. Len(new) : n = N + j
  <2>1. n \in 1 .. N \/ (n - N \in 1 .. Len(new) /\ n = N + (n - N))
    BY <1>4
  <2> QED BY <2>1
<1>8. Clear(heap')
  BY <1>1, ClearAfter
<1>9. \A n \in 1 .. N : Len(heap'[n].ptrs) = Len(heap[n].ptrs)
  BY <1>2 DEF Later
<1>10. P = 1 => heap'[1].ptrs[1] = N + 1 /\ heap[1].ptrs[1] \in D
  <2>1. P = 1 => ix = 1 /\ 1 \in DOMAIN heap[1].ptrs
    <3>1. Len(heap[1].ptrs) = 1 /\ heap[1] \in NodeType
      BY <1>1, HeapType DEF NodesOK
    <3>2. heap[1].ptrs \in Seq(Value \cup Nat)
      BY <3>1, NodeFields
    <3>3. P = 1 => ix \in 1 .. Len(heap[1].ptrs)
      BY <1>1 DEF Preserves, Leads, Place
    <3> QED BY <3>1, <3>2, <3>3, LenProperties
  <2>2. heap[P].ptrs[ix] \in D
    BY <1>1 DEF Preserves, Leads, Goes
  <2> QED BY <1>4, <2>1, <2>2
<1>11. P # 1 => heap'[1].ptrs[1] = heap[1].ptrs[1]
  <2>1. 1 \in 1 .. N
    BY <1>1, <1>4, HeapType
  <2> QED BY <1>4, <2>1
<1> HIDE DEF N
<1>12. ASSUME NEW n \in 1 .. N, NEW kind, Within(heap', retired', n), Faulty(heap'[n], kind)
       PROVE  Owned(kind, n)' \/ (kind = "degree" /\ n \in givenUp')
  <2>1. n \in 2 .. N /\ n \notin retired /\ n \notin D /\ n # heap'[1].ptrs[1]
    BY <1>1, <1>4, <1>12 DEF Within
  <2>2. n # heap[1].ptrs[1]
    BY <1>10, <1>11, <2>1
  <2>3. Within(heap, retired, n) /\ Faulty(heap[n], kind)
    BY <1>4, <1>9, <1>12, <2>1, <2>2 DEF Within, Faulty, N
  <2>4. Owned(kind, n) \/ (kind = "degree" /\ n \in givenUp)
    BY <2>3 DEF Owns
  <2>5. ASSUME NEW u \in Thread, HasCall(todo[u], kind, n) PROVE Owned(kind, n)'
    <3>1. CASE u = t
      <4>1. HasCall(todo'[t], kind, n)
        BY <2>1, <2>5, <3>1
      <4> QED BY <4>1 DEF Owned
    <3>2. CASE u # t
      <4>1. todo'[u] = todo[u]
        BY <1>1, <3>2 DEF Others
      <4>2. HasCall(todo'[u], kind, n)
        BY <2>5, <4>1
      <4> QED BY <4>2 DEF Owned
    <3> QED BY <3>1, <3>2
  <2> QED BY <2>4, <2>5 DEF Owned
<1>13. ASSUME NEW n, NEW kind, Within(heap', retired', n), Faulty(heap'[n], kind)
       PROVE  Owned(kind, n)' \/ (kind = "degree" /\ n \in givenUp')
  <2>1. n \in 1 .. N + Len(new)
    BY <1>4, <1>13 DEF Within
  <2>2. CASE n \in 1 .. N
    BY <1>12, <1>13, <2>2
  <2>3. ASSUME NEW j \in 1 .. Len(new), n = N + j PROVE Owned(kind, n)'
    <3>1. heap'[n] = new[j] /\ kind \in {"weight", "degree"} /\ Faulty(new[j], kind)
      BY <1>4, <1>13, <2>3 DEF Faulty
    <3>2. HasCall(s, kind, n) \/ (j = 1 /\ P = 1)
      BY <2>3, <3>1 DEF Answers, N
    <3>3. ~(j = 1 /\ P = 1)
      BY <1>10, <1>13, <2>3 DEF Within
    <3>4. HasCall(todo'[t], kind, n)
      BY <3>2, <3>3
    <3> QED BY <3>4 DEF Owned
  <2> QED BY <1>7, <2>1, <2>2, <2>3 DEF N
<1>14. Owns'
  BY <1>13 DEF Owns
<1> QED BY <1>1, <1>2, <1>6, <1>8, <1>14 DEF VInv

---------------------------------------------------------------------------
(* The steps that leave the tree as it is *)

LEMMA NotSeeking == ASSUME NEW h, NEW g, NEW R, NEW c, NEW r, NEW td PROVE Seeks(h, g, R, c, r, td, Nowhere)
BY DEF Seeks

\* A step after which t still has all its calls and does not search.
LEMMA CallsOwns ==
    ASSUME NEW g, Good(g), Seeking(g), Clear(heap), Owns, NEW t \in Thread, Quiet(t, g), givenUp' = givenUp,
           todo'[t] = todo[t], pos'[t] = Nowhere
    PROVE  VInv'
<1>1. Seeks(heap, g, retired, call'[t], ret'[t], todo'[t], pos'[t])
  BY NotSeeking
<1> QED BY ONLY <1>1, Good(g), Seeking(g), Clear(heap), Owns, t \in Thread, Quiet(t, g), givenUp' = givenUp,
                todo'[t] = todo[t], QuietOwns

LEMMA EnterOwns ==
    ASSUME NEW g, Good(g), Funs, WorkOK, Seeking(g), Clear(heap), Owns, NEW t \in Thread, Enter(t)
    PROVE  VInv'
<1> DEFINE v == todo[t][1].viol
           root == heap[1].ptrs[1]
<1>1. Quiet(t, g)
  BY EnterQuiet
<1>2. call' = call /\ ret' = ret /\ todo' = todo /\ givenUp' = givenUp
  BY DEF Enter
<1>3. pos'[t].l = root
  <2> DEFINE q == [gp |-> NULL, ixToP |-> 0, p |-> entry, ixToL |-> 1, l |-> heap[entry].ptrs[1]]
  <2>1. pos' = [pos EXCEPT ![t] = q] /\ q.l = root
    BY DEF Enter, entry
  <2> HIDE DEF q
  <2>2. IsSet(pos, pos', t, q)
    BY <2>1, SetIs DEF Funs
  <2> QED BY <2>1, <2>2 DEF IsSet
<1>4. ASSUME ~Running(call[t], ret[t]), v \notin retired PROVE Finds(heap, g, root, v)
  <2>1. /\ TodoOK(heap, todo[t]) /\ NodesOK(heap, g) /\ Fine(heap, g, retired) /\ ~Operating(t)
        /\ todo[t] # <<>> /\ todo[t][1].entered
    BY <1>4, ThreadFacts DEF Enter, Fixing
  <2>2. v \in 1 .. Len(heap) /\ Entered(heap, todo[t][1]) /\ todo[t][1].kind \in {"weight", "degree"}
    BY <2>1, TodoHead
  <2>3. v # 1 /\ Len(heap) \in Nat
    BY <2>1, <2>2, HeapType DEF Entered, NodesOK
  <2>4. v \in 2 .. Len(heap)
    BY <2>2, <2>3
  <2> HIDE DEF v, root
  <2> QED BY <1>4, <2>1, <2>4, RootFinds DEF root
<1>5. Seeks(heap, g, retired, call'[t], ret'[t], todo'[t], pos'[t])
  BY <1>2, <1>3, <1>4 DEF Seeks
<1> QED BY ONLY <1>1, <1>2, <1>5, Good(g), Seeking(g), Clear(heap), Owns, t \in Thread, QuietOwns

LEMMA DescendOwns ==
    ASSUME NEW g, Good(g), Funs, WorkOK, Seeking(g), Clear(heap), Owns, NEW t \in Thread, Descend(t)
    PROVE  VInv'
<1> DEFINE v == todo[t][1].viol
           l == pos[t].l
           c == pos'[t].l
<1>1. Quiet(t, g)
  BY DescendQuiet
<1>2. call' = call /\ ret' = ret /\ todo' = todo /\ givenUp' = givenUp /\ heap' = heap
      /\ pos[t] # Nowhere /\ ~Arrived(t)
  BY DEF Descend, tree
<1>3. c = heap[l].ptrs[getChildIndex(heap[l], SearchKey(t))] /\ pos'[t].p = l
      /\ pos'[t].ixToL = getChildIndex(heap[l], SearchKey(t))
  <2> DEFINE ix == getChildIndex(At(t), SearchKey(t))
             q == [gp |-> pos[t].p, ixToP |-> pos[t].ixToL, p |-> pos[t].l, ixToL |-> ix, l |-> At(t).ptrs[ix]]
  <2>1. pos' = [pos EXCEPT ![t] = q] /\ q.l = At(t).ptrs[ix] /\ q.p = l /\ q.ixToL = ix
    BY DEF Descend, Funs, IsFun
  <2> HIDE DEF q
  <2>2. IsSet(pos, pos', t, q)
    BY <2>1, SetIs DEF Funs
  <2> QED BY <2>1, <2>2 DEF IsSet, At
<1>4. ASSUME ~Running(call[t], ret[t]), v \notin retired PROVE Finds(heap, g, c, v)
  <2>1. /\ TodoOK(heap, todo[t]) /\ NodesOK(heap, g) /\ ~Operating(t) /\ todo[t] # <<>>
        /\ l \in 2 .. Len(heap) /\ SearchKey(t) = heap[v].searchKey
    <3>1. ~Operating(t)
      BY <1>4, ThreadFacts
    <3>2. TodoOK(heap, todo[t]) /\ NodesOK(heap, g)
      BY ThreadFacts
    <3>3. l \in 2 .. Len(heap) /\ todo[t] # <<>>
      BY <1>2, <3>1, SearchFacts
    <3> QED BY <3>1, <3>2, <3>3 DEF SearchKey, Viol
  <2>2. v # l
    BY <1>2, <2>1 DEF Arrived, Located, Viol
  <2>3. v \in 1 .. Len(heap)
    BY <2>1, TodoHead
  <2>4. heap[v].searchKey \in Int
    <3>1. heap[v] \in NodeType
      BY <2>1, <2>3, HeapType
    <3> QED BY <3>1, NodeFields
  <2>5. pos'[t] # Nowhere
    <3>1. pos'[t].p = l /\ l \in 2 .. Len(heap)
      BY <1>3, <2>1
    <3>2. l # 0
      BY <2>1, HeapType
    <3> QED BY <3>1, <3>2 DEF Nowhere, NULL
  <2>6. SearchOK(heap, g, pos'[t], heap[v].searchKey)
    <3>1. PosOK(heap, g, call[t], ret[t], todo[t], pos'[t])
      BY <1>1, <1>2 DEF Quiet, ThreadOK
    <3> QED BY <1>4, <2>5, <3>1 DEF PosOK, Sought
  <2>7. Covers(g[c], heap[v].searchKey)
    BY <2>6 DEF SearchOK, Covers
  <2>8. c \in Kids(heap[l])
    <3>1. Place(heap, pos'[t].p, pos'[t].ixToL)
      BY <2>6 DEF SearchOK
    <3> QED BY <1>3, <3>1 DEF Place, Kids, Elems
  <2>9. Finds(heap, g, l, v)
    <3>1. Seeks(heap, g, retired, call[t], ret[t], todo[t], pos[t])
      BY DEF Seeking
    <3> QED BY ONLY <1>2, <1>4, <3>1 DEF Seeks
  <2> HIDE DEF v, l, c
  <2> QED BY ONLY <2>1, <2>2, <2>4, <2>7, <2>8, <2>9, KidFinds
<1>5. Seeks(heap, g, retired, call'[t], ret'[t], todo'[t], pos'[t])
  BY <1>2, <1>4 DEF Seeks
<1> QED BY ONLY <1>1, <1>2, <1>5, Good(g), Seeking(g), Clear(heap), Owns, t \in Thread, QuietOwns

LEMMA ObserveOwns ==
    ASSUME NEW g, Good(g), Funs, WorkOK, Seeking(g), Clear(heap), Owns, NEW t \in Thread, Observe(t)
    PROVE  VInv'
<1>1. Quiet(t, g)
  BY ObserveQuiet
<1>2. todo' = todo /\ givenUp' = givenUp /\ pos' = [pos EXCEPT ![t] = Nowhere]
  BY DEF Observe
<1>3. IsSet(pos, pos', t, Nowhere)
  BY <1>2, SetIs DEF Funs
<1>4. todo'[t] = todo[t] /\ pos'[t] = Nowhere
  BY <1>2, <1>3 DEF IsSet
<1> QED BY <1>1, <1>2, <1>4, CallsOwns

LEMMA RetryOwns ==
    ASSUME NEW g, Good(g), Funs, WorkOK, Seeking(g), Clear(heap), Owns, NEW t \in Thread, Retry(t)
    PROVE  VInv'
<1>1. Quiet(t, g)
  BY RetryQuiet
<1>2. todo' = todo /\ givenUp' = givenUp /\ pos' = [pos EXCEPT ![t] = Nowhere]
  BY DEF Retry
<1>3. IsSet(pos, pos', t, Nowhere)
  BY <1>2, SetIs DEF Funs
<1>4. todo'[t] = todo[t] /\ pos'[t] = Nowhere
  BY <1>2, <1>3 DEF IsSet
<1> QED BY <1>1, <1>2, <1>4, CallsOwns

LEMMA ReturnOwns ==
    ASSUME NEW g, Good(g), Funs, WorkOK, Seeking(g), Clear(heap), Owns, NEW t \in Thread, Return(t)
    PROVE  VInv'
<1>1. Quiet(t, g)
  BY ReturnQuiet
<1>2. todo' = todo /\ pos' = pos /\ givenUp' = givenUp /\ todo[t] = <<>> /\ ~Operating(t)
  BY DEF Return, local, Operating
<1>3. pos[t] = Nowhere
  BY <1>2, Idle
<1> QED BY <1>1, <1>2, <1>3, CallsOwns

LEMMA CallOwns ==
    ASSUME NEW g, Good(g), Funs, WorkOK, Seeking(g), Clear(heap), Owns, NEW t \in Thread, NEW c, Call(t, c)
    PROVE  VInv'
<1>1. Quiet(t, g)
  BY CallQuiet
<1>2. todo' = todo /\ pos' = pos /\ givenUp' = givenUp /\ call[t] = NoCall
  BY DEF Call, local
<1>3. todo[t] = <<>> /\ ~Operating(t)
  BY <1>2, ThreadFacts DEF CallOK, Operating
<1>4. pos[t] = Nowhere
  BY <1>3, Idle
<1> QED BY <1>1, <1>2, <1>4, CallsOwns

\* A step after which t does not search, and has the calls e.
LEMMA EndsOwns ==
    ASSUME NEW g, Good(g), Funs, Seeking(g), Clear(heap), Owns, NEW t \in Thread, Quiet(t, g),
           givenUp \subseteq givenUp', NEW e, todo' = [todo EXCEPT ![t] = e], pos'[t] = Nowhere,
           \A n, kind : HasCall(todo[t], kind, n) /\ Within(heap, retired, n) /\ Faulty(heap[n], kind)
                        => HasCall(e, kind, n) \/ (kind = "degree" /\ n \in givenUp')
    PROVE  VInv'
<1>1. IsSet(todo, todo', t, e)
  BY SetIs DEF Funs
<1>2. todo'[t] = e
  BY <1>1 DEF IsSet
<1>3. Seeks(heap, g, retired, call'[t], ret'[t], todo'[t], pos'[t])
  BY NotSeeking
<1>4. \A n, kind : HasCall(todo[t], kind, n) /\ Within(heap, retired, n) /\ Faulty(heap[n], kind)
                   => HasCall(todo'[t], kind, n) \/ (kind = "degree" /\ n \in givenUp')
  BY <1>2
<1> QED BY ONLY <1>3, <1>4, Good(g), Seeking(g), Clear(heap), Owns, t \in Thread, Quiet(t, g),
                givenUp \subseteq givenUp', QuietOwns

LEMMA FirstOwns ==
    ASSUME NEW g, Good(g), Funs, WorkOK, Seeking(g), Clear(heap), Owns, NEW t \in Thread, todo[t] # <<>>,
           NEW s, TodoOK(heap, s), FixFirst(t, s)
    PROVE  VInv'
<1> DEFINE e == s \o todo[t]
<1>1. Quiet(t, g)
  BY FirstQuiet
<1>2. givenUp' = givenUp /\ todo' = [todo EXCEPT ![t] = e] /\ pos' = [pos EXCEPT ![t] = Nowhere]
  BY DEF FixFirst, Funs, IsFun
<1>3. IsSet(pos, pos', t, Nowhere)
  BY <1>2, SetIs DEF Funs
<1>4. pos'[t] = Nowhere
  BY <1>3 DEF IsSet
<1>5. ASSUME NEW n, NEW kind, HasCall(todo[t], kind, n) PROVE HasCall(e, kind, n)
  <2>1. s \in Seq(FixType(Len(heap))) /\ todo[t] \in Seq(FixType(Len(heap)))
    BY ThreadFacts DEF TodoOK
  <2> QED BY <1>5, <2>1, CallsJoin
<1> HIDE DEF e
<1>6. \A n, kind : HasCall(todo[t], kind, n) /\ Within(heap, retired, n) /\ Faulty(heap[n], kind)
                   => HasCall(e, kind, n) \/ (kind = "degree" /\ n \in givenUp')
  BY <1>5
<1>7. givenUp \subseteq givenUp'
  BY <1>2
<1> QED BY ONLY <1>1, <1>2, <1>4, <1>6, <1>7, Good(g), Funs, Seeking(g), Clear(heap), Owns, t \in Thread, EndsOwns

LEMMA ParentWeightOwns ==
    ASSUME NEW g, Good(g), Funs, WorkOK, Seeking(g), Clear(heap), Owns, NEW t \in Thread, FixParentWeight(t)
    PROVE  VInv'
<1>1. todo[t] # <<>> /\ pos[t] # Nowhere /\ FixFirst(t, <<Fix("weight", pos[t].p)>>)
  BY DEF FixParentWeight, Fixing, Arrived
<1>2. pos[t].p \in 1 .. Len(heap)
  BY <1>1, SearchFacts DEF Place
<1>3. TodoOK(heap, <<Fix("weight", pos[t].p)>>)
  BY <1>2, TodoOne
<1> QED BY <1>1, <1>3, FirstOwns

LEMMA WeightsOwns ==
    ASSUME NEW g, Good(g), Funs, WorkOK, Seeking(g), Clear(heap), Owns, NEW t \in Thread, FixWeights(t)
    PROVE  VInv'
<1> DEFINE s == [i \in DOMAIN InTheWay(t) |-> Fix("weight", InTheWay(t)[i])]
<1>1. todo[t] # <<>> /\ pos[t] # Nowhere /\ FixFirst(t, s)
  BY DEF FixWeights, FixingDegree, Fixing, Arrived
<1>2. TodoOK(heap, s)
  BY <1>1, InTheWayType, WeightCalls
<1> HIDE DEF s
<1> QED BY <1>1, <1>2, FirstOwns

\* The call that gives up has located its node, and the node is remembered.
LEMMA GivesUpOwns ==
    ASSUME NEW g, Good(g), Funs, WorkOK, Seeking(g), Clear(heap), Owns, NEW t \in Thread, FixGivesUp(t)
    PROVE  VInv'
<1> DEFINE s == [i \in DOMAIN InTheWay(t) |-> Fix("weight", InTheWay(t)[i])]
           e == s \o Tail(todo[t])
<1>1. /\ pos' = [pos EXCEPT ![t] = Nowhere] /\ todo' = [todo EXCEPT ![t] = e]
      /\ todo[t] # <<>> /\ pos[t] # Nowhere /\ givenUp' = givenUp \cup {pos[t].l}
      /\ todo[t][1].kind = "degree" /\ pos[t].l = todo[t][1].viol
  BY DEF FixGivesUp, FixingDegree, Fixing, Arrived, Located, Viol, Funs, IsFun
<1>2. Quiet(t, g)
  BY GivesUpQuiet
<1>3. TodoOK(heap, s)
  BY <1>1, InTheWayType, WeightCalls
<1> HIDE DEF s
<1>4. TodoOK(heap, todo[t]) /\ TodoOK(heap, Tail(todo[t]))
  BY <1>1, ThreadFacts, TodoTail
<1>5. ASSUME NEW n, NEW kind, HasCall(todo[t], kind, n)
      PROVE  HasCall(e, kind, n) \/ (kind = "degree" /\ n \in givenUp')
  <2>1. HasCall(Tail(todo[t]), kind, n) \/ (kind = todo[t][1].kind /\ n = todo[t][1].viol)
    BY <1>1, <1>4, <1>5, CallsTail
  <2>2. CASE HasCall(Tail(todo[t]), kind, n)
    <3>1. s \in Seq(FixType(Len(heap))) /\ Tail(todo[t]) \in Seq(FixType(Len(heap)))
      BY <1>3, <1>4 DEF TodoOK
    <3>2. HasCall(e, kind, n)
      BY <2>2, <3>1, CallsJoin
    <3> QED BY <3>2
  <2>3. CASE kind = todo[t][1].kind /\ n = todo[t][1].viol
    BY <1>1, <2>3
  <2> QED BY <2>1, <2>2, <2>3
<1> HIDE DEF e
<1>6. IsSet(pos, pos', t, Nowhere)
  BY <1>1, SetIs DEF Funs
<1>7. pos'[t] = Nowhere
  BY <1>6 DEF IsSet
<1>8. \A n, kind : HasCall(todo[t], kind, n) /\ Within(heap, retired, n) /\ Faulty(heap[n], kind)
                   => HasCall(e, kind, n) \/ (kind = "degree" /\ n \in givenUp')
  BY <1>5
<1>9. givenUp \subseteq givenUp'
  BY <1>1
<1> QED BY ONLY <1>1, <1>2, <1>7, <1>8, <1>9, Good(g), Funs, Seeking(g), Clear(heap), Owns, t \in Thread, EndsOwns

\* The search that ends at a leaf was for a node that is no longer in the tree.
LEMMA HandOffOwns ==
    ASSUME NEW g, Good(g), Funs, WorkOK, Seeking(g), Clear(heap), Owns, NEW t \in Thread, FixHandOff(t)
    PROVE  VInv'
<1> DEFINE e == Tail(todo[t])
           v == todo[t][1].viol
<1>1. /\ todo[t] # <<>> /\ pos' = [pos EXCEPT ![t] = Nowhere] /\ todo' = [todo EXCEPT ![t] = e]
      /\ givenUp' = givenUp /\ Arrived(t) /\ ~Located(t)
  BY DEF FixHandOff, Fixing, Funs, IsFun
<1>2. Quiet(t, g)
  BY HandOffQuiet
<1>3. TodoOK(heap, todo[t]) /\ ~Operating(t) /\ ~Running(call[t], ret[t])
  BY <1>1, ThreadFacts
<1>4. pos[t] # Nowhere /\ heap[pos[t].l].leaf /\ v # pos[t].l
  BY <1>1, <1>3 DEF Arrived, Located, Viol, At
<1>5. v \in retired
  <2>1. SUFFICES ASSUME v \notin retired PROVE FALSE
    OBVIOUS
  <2>2. Seeks(heap, g, retired, call[t], ret[t], todo[t], pos[t])
    BY DEF Seeking
  <2>3. Finds(heap, g, pos[t].l, v)
    BY ONLY <1>3, <1>4, <2>1, <2>2 DEF Seeks
  <2>4. pos[t].l \in 1 .. Len(heap)
    <3>1. pos[t].l \in 2 .. Len(heap)
      BY <1>4, SearchFacts
    <3>2. Len(heap) \in Nat
      BY ThreadFacts, HeapType
    <3> QED BY <3>1, <3>2
  <2> HIDE DEF v
  <2>5. v = pos[t].l
    BY ONLY <1>4, <2>3, <2>4, LeafFinds
  <2> QED BY <1>4, <2>5
<1>6. ASSUME NEW n, NEW kind, HasCall(todo[t], kind, n), Within(heap, retired, n) PROVE HasCall(e, kind, n)
  <2>1. HasCall(e, kind, n) \/ (kind = todo[t][1].kind /\ n = v)
    BY <1>1, <1>3, <1>6, CallsTail
  <2>2. n \notin retired
    BY <1>6 DEF Within
  <2> QED BY <1>5, <2>1, <2>2
<1> HIDE DEF e
<1>7. IsSet(pos, pos', t, Nowhere)
  BY <1>1, SetIs DEF Funs
<1>8. pos'[t] = Nowhere
  BY <1>7 DEF IsSet
<1>9. \A n, kind : HasCall(todo[t], kind, n) /\ Within(heap, retired, n) /\ Faulty(heap[n], kind)
                   => HasCall(e, kind, n) \/ (kind = "degree" /\ n \in givenUp')
  BY <1>6
<1>10. givenUp \subseteq givenUp'
  BY <1>1
<1> QED BY ONLY <1>1, <1>2, <1>8, <1>9, <1>10, Good(g), Funs, Seeking(g), Clear(heap), Owns, t \in Thread, EndsOwns

\* A call that has nothing to fix was for no violation.
LEMMA FixEnterOwns ==
    ASSUME NEW g, Good(g), Funs, WorkOK, Seeking(g), Clear(heap), Owns, NEW t \in Thread, FixEnter(t)
    PROVE  VInv'
<1> DEFINE td == todo[t]
           v == td[1].viol
           fixed == \/ heap[v].marked
                    \/ td[1].kind = "weight" /\ heap[v].weight
                    \/ /\ td[1].kind = "degree"
                       /\ Len(heap[v].ptrs) >= a \/ v \in {1, heap[1].ptrs[1]}
           e == IF fixed THEN Tail(td) ELSE Begun(td)
<1>1. pos' = pos /\ givenUp' = givenUp /\ td # <<>> /\ ~td[1].entered
  BY DEF FixEnter
<1>2. todo' = [todo EXCEPT ![t] = e]
  BY DEF FixEnter, Begun, Funs, IsFun, getABDegree, Viol, entry
<1>3. Quiet(t, g)
  BY FixEnterQuiet
<1>4. TodoOK(heap, td) /\ ~Operating(t) /\ Fine(heap, g, retired) /\ NodesOK(heap, g)
  BY <1>1, ThreadFacts
<1>5. pos'[t] = Nowhere
  BY <1>1, <1>4, Idle
<1>6. v \in 1 .. Len(heap) /\ heap[v] \in NodeType /\ td[1].kind \in {"weight", "degree"}
  <2>1. v \in 1 .. Len(heap) /\ td[1].kind \in {"weight", "degree"}
    BY <1>1, <1>4, TodoHead
  <2> QED BY <1>4, <2>1, HeapType
<1>7. fixed => ~Within(heap, retired, v) \/ ~Faulty(heap[v], td[1].kind)
  <2>1. CASE heap[v].marked
    <3>1. ~heap[v].leaf
      BY <1>6, <2>1 DEF Clear
    <3>2. v \in retired
      BY <1>4, <1>6, <2>1, <3>1 DEF Fine, MarksOK
    <3> QED BY <3>2 DEF Within
  <2>2. CASE td[1].kind = "weight" /\ heap[v].weight
    BY <2>2 DEF Faulty
  <2>3. CASE td[1].kind = "degree" /\ Len(heap[v].ptrs) >= a
    <3>1. Len(heap[v].ptrs) \in Nat /\ a \in Nat
      BY <1>6, NodeFields, Sizes
    <3>2. ~(Len(heap[v].ptrs) < a)
      BY <2>3, <3>1
    <3> QED BY <2>3, <3>2 DEF Faulty
  <2>4. CASE v \in {1, heap[1].ptrs[1]}
    <3>1. 1 \notin 2 .. Len(heap)
      BY <1>4, HeapType
    <3> QED BY <2>4, <3>1 DEF Within
  <2> QED BY <2>1, <2>2, <2>3, <2>4
<1>8. ASSUME NEW n, NEW kind, HasCall(td, kind, n), Within(heap, retired, n), Faulty(heap[n], kind)
      PROVE  HasCall(e, kind, n)
  <2>1. CASE fixed
    <3>1. HasCall(Tail(td), kind, n) \/ (kind = td[1].kind /\ n = v)
      BY <1>1, <1>4, <1>8, CallsTail
    <3>2. HasCall(Tail(td), kind, n)
      BY <1>7, <1>8, <2>1, <3>1
    <3> QED BY <2>1, <3>2
  <2>2. CASE ~fixed
    <3>1. HasCall(Begun(td), kind, n)
      BY <1>1, <1>4, <1>8, CallsBegun
    <3> QED BY <2>2, <3>1
  <2> QED BY <2>1, <2>2
<1> HIDE DEF e
<1>9. \A n, kind : HasCall(todo[t], kind, n) /\ Within(heap, retired, n) /\ Faulty(heap[n], kind)
                   => HasCall(e, kind, n) \/ (kind = "degree" /\ n \in givenUp')
  BY <1>8
<1>10. givenUp \subseteq givenUp'
  BY <1>1
<1> QED BY ONLY <1>2, <1>3, <1>5, <1>9, <1>10, Good(g), Funs, Seeking(g), Clear(heap), Owns, t \in Thread, EndsOwns

---------------------------------------------------------------------------
(* What an update leaves behind *)

LEMMA NoCalls == ASSUME NEW kind, NEW n PROVE ~HasCall(<<>>, kind, n)
<1>1. Len(<<>>) = 0 /\ \A i : i \notin 1 .. 0
  OBVIOUS
<1> QED BY <1>1 DEF HasCall

CallType == [kind : {"weight", "degree"}, viol : Nat, entered : BOOLEAN]

LEMMA OneCall ==
    ASSUME NEW kind \in {"weight", "degree"}, NEW n \in Nat
    PROVE  <<Fix(kind, n)>> \in Seq(CallType) /\ HasCall(<<Fix(kind, n)>>, kind, n)
<1> DEFINE f == Fix(kind, n)
           s == <<f>>
<1>1. f \in CallType /\ f.kind = kind /\ f.viol = n
  BY DEF Fix, CallType
<1> HIDE DEF f
<1>2. s \in Seq(CallType) /\ Len(s) = 1 /\ s[1] = f /\ 1 \in 1 .. 1
  BY <1>1
<1> HIDE DEF s
<1>3. HasCall(s, kind, n)
  BY <1>1, <1>2 DEF HasCall
<1> QED BY <1>2, <1>3 DEF s, f

LEMMA TwoCalls ==
    ASSUME NEW kind \in {"weight", "degree"}, NEW n \in Nat, NEW kind2 \in {"weight", "degree"}, NEW m \in Nat
    PROVE  LET s == <<Fix(kind, n), Fix(kind2, m)>>
           IN  s \in Seq(CallType) /\ HasCall(s, kind, n) /\ HasCall(s, kind2, m)
<1> DEFINE f == Fix(kind, n)
           e == Fix(kind2, m)
           s == <<f, e>>
<1>1. f \in CallType /\ f.kind = kind /\ f.viol = n /\ e \in CallType /\ e.kind = kind2 /\ e.viol = m
  BY DEF Fix, CallType
<1> HIDE DEF f, e
<1>2. s \in Seq(CallType) /\ Len(s) = 2 /\ s[1] = f /\ s[2] = e /\ 1 \in 1 .. 2 /\ 2 \in 1 .. 2
  BY <1>1
<1> HIDE DEF s
<1>3. HasCall(s, kind, n) /\ HasCall(s, kind2, m)
  BY <1>1, <1>2 DEF HasCall
<1> QED BY <1>2, <1>3 DEF s, f, e

LEMMA AnswersOne ==
    ASSUME NEW s, NEW N, NEW n, n.weight, NEW top, HasCall(s, "degree", N + 1)
    PROVE  Answers(s, N, <<n>>, top)
<1> DEFINE new == <<n>>
<1>1. Len(new) = 1 /\ new[1] = n /\ \A j \in 1 .. 1 : j = 1
  OBVIOUS
<1> HIDE DEF new
<1>2. Answers(s, N, new, top)
  BY <1>1 DEF Answers, Faulty
<1> QED BY <1>2 DEF new

LEMMA AnswersTwo ==
    ASSUME NEW s, NEW N, NEW n, n.weight, NEW m, m.weight, NEW top,
           HasCall(s, "degree", N + 1), HasCall(s, "degree", N + 2)
    PROVE  Answers(s, N, <<n, m>>, top)
<1> DEFINE new == <<n, m>>
<1>1. Len(new) = 2 /\ new[1] = n /\ new[2] = m /\ \A j \in 1 .. 2 : j = 1 \/ j = 2
  OBVIOUS
<1> HIDE DEF new
<1>2. Answers(s, N, new, top)
  BY <1>1 DEF Answers, Faulty
<1> QED BY <1>2 DEF new

\* A node that has at least a pointers and counts as a level.
Full(r) == r.weight /\ Len(r.ptrs) \in Nat /\ Len(r.ptrs) >= a

LEMMA FullNode == ASSUME NEW r, Full(r), NEW kind PROVE ~Faulty(r, kind)
<1>1. a \in Nat
  BY Sizes
<1> QED BY <1>1 DEF Full, Faulty

LEMMA AnswersThree ==
    ASSUME NEW s, NEW N, NEW n, NEW m, Full(m), NEW r, Full(r), NEW top \in BOOLEAN,
           \A kind \in {"weight", "degree"} : Faulty(n, kind) => HasCall(s, kind, N + 1) \/ top
    PROVE  Answers(s, N, <<n, m, r>>, top)
<1> DEFINE new == <<n, m, r>>
<1>1. Len(new) = 3 /\ new[1] = n /\ new[2] = m /\ new[3] = r /\ \A j \in 1 .. 3 : j = 1 \/ j = 2 \/ j = 3
  OBVIOUS
<1> HIDE DEF new
<1>2. Answers(s, N, new, top)
  <2> SUFFICES ASSUME NEW j \in 1 .. 3, NEW kind \in {"weight", "degree"}, Faulty(new[j], kind)
               PROVE  HasCall(s, kind, N + j) \/ (j = 1 /\ top)
    BY <1>1 DEF Answers
  <2>1. j = 1
    BY <1>1, FullNode
  <2> QED BY <1>1, <2>1
<1> QED BY <1>2 DEF new

LEMMA HalvesFull ==
    ASSUME NEW leaf, NEW keys, NEW S, NEW ptrs \in Seq(S), NEW size \in Nat, size >= a, size + a <= Len(ptrs)
    PROVE  LET z == Halves(leaf, keys, ptrs, size) IN Full(z.left) /\ Full(z.right)
<1> DEFINE z == Halves(leaf, keys, ptrs, size)
           n == Len(ptrs)
           p1 == SubSeq(ptrs, 1, size)
           p2 == SubSeq(ptrs, size + 1, Len(ptrs))
<1>1. n \in Nat /\ a \in Nat /\ a >= 2
  BY LenProperties, Sizes
<1>2. z.left.weight = TRUE /\ z.left.ptrs = p1 /\ z.right.weight = TRUE /\ z.right.ptrs = p2
  BY DEF Halves, MakeNode
<1>3. Len(p1) = size
  <2>1. 1 \in 1 .. n + 1 /\ size \in 1 - 1 .. n
    BY <1>1
  <2>2. Len(p1) = size - 1 + 1
    BY <2>1, Part
  <2> QED BY <2>2
<1>4. Len(p2) = n - size
  <2>1. size + 1 \in 1 .. n + 1 /\ n \in (size + 1) - 1 .. n
    BY <1>1
  <2>2. Len(p2) = n - (size + 1) + 1
    BY <2>1, Part
  <2> QED BY <1>1, <2>2
<1> HIDE DEF z, p1, p2, n
<1>5. n - size \in Nat /\ n - size >= a
  BY <1>1 DEF n
<1>6. Full(z.left) /\ Full(z.right)
  BY <1>2, <1>3, <1>4, <1>5 DEF Full
<1> QED BY <1>6 DEF z

\* Both halves of what is more than a node holds have enough pointers.
LEMMA HalfSizes ==
    /\ (DEGREE + 1) \div 2 \in Nat /\ (DEGREE + 1) \div 2 >= a
    /\ (DEGREE + 1) \div 2 + a <= b + 1
    /\ \A n \in Nat : n > b => n \div 2 \in Nat /\ n \div 2 >= a /\ n \div 2 + a <= n
    /\ \A n \in Nat : n >= 2 * a => n \div 2 \in Nat /\ n \div 2 >= a /\ n \div 2 + a <= n
<1>1. DEGREE \in Nat /\ DEGREE >= 3
  BY DegreeAssumption
<1>2. a = 2 \/ a = DEGREE \div 4
  BY DEF a
<1>3. 2 * a <= DEGREE + 1 /\ a \in Nat
  BY <1>1, <1>2
<1>4. \A n \in Nat : n >= 2 * a => n \div 2 \in Nat /\ n \div 2 >= a /\ n \div 2 + a <= n
  BY <1>3
<1>5. DEGREE + 1 \in Nat /\ b = DEGREE
  BY <1>1 DEF b
<1>6. \A n \in Nat : n > b => n >= 2 * a
  BY <1>1, <1>3, <1>5
<1> QED BY <1>3, <1>4, <1>5, <1>6

LEMMA LeafOwns ==
    ASSUME NEW g, Good(g), Funs, Seeking(g), Clear(heap), Owns, NEW t \in Thread, NEW new, NEW s, NEW v,
           IsLeafUpdate(t, g, new, s, v), Answers(s, Len(heap), new, pos[t].p = 1)
    PROVE  VInv'
<1>1. /\ Updates(t, g, pos[t].p, pos[t].ixToL, {pos[t].l}, new) /\ todo[t] = <<>>
      /\ todo' = [todo EXCEPT ![t] = s] /\ givenUp' = givenUp
  BY DEF IsLeafUpdate, AtLeaf, ReplaceLeaf
<1>2. IsSet(todo, todo', t, s)
  BY <1>1, SetIs DEF Funs
<1>3. todo'[t] = s
  BY <1>2 DEF IsSet
<1>4. \A n, kind : HasCall(todo[t], kind, n) => HasCall(todo'[t], kind, n) \/ n \in {pos[t].l}
  BY <1>1, NoCalls
<1>5. \A n, kind : HasCall(s, kind, n) => HasCall(todo'[t], kind, n)
  BY <1>3
<1> QED BY ONLY <1>1, <1>4, <1>5, Good(g), Seeking(g), Clear(heap), Owns, t \in Thread,
                Answers(s, Len(heap), new, pos[t].p = 1), UpdateOwns

LEMMA ParentOwns ==
    ASSUME NEW g, Good(g), Funs, Seeking(g), Clear(heap), Owns, NEW t \in Thread, NEW new, NEW removed,
           pos[t].l \in removed, NEW s \in Seq(CallType),
           IsParentUpdate(t, g, new, removed, s), Answers(s, Len(heap), new, pos[t].gp = 1)
    PROVE  VInv'
<1> DEFINE td == todo[t]
           e == s \o Tail(td)
           D == {pos[t].p} \cup removed
<1>1. /\ Updates(t, g, pos[t].gp, pos[t].ixToP, D, new) /\ td # <<>> /\ pos[t].l = td[1].viol
      /\ todo' = [todo EXCEPT ![t] = e] /\ givenUp' = givenUp
  BY DEF IsParentUpdate, AtParent, ReplaceParent, Funs, IsFun
<1>2. TodoOK(heap, td) /\ TodoOK(heap, Tail(td)) /\ NodesOK(heap, g)
  BY <1>1, ThreadFacts, TodoTail
<1>3. Tail(td) \in Seq(CallType)
  <2>1. FixType(Len(heap)) \subseteq CallType
    <3>1. Len(heap) \in Nat
      BY <1>2, HeapType
    <3>2. 1 .. Len(heap) \subseteq Nat
      BY <3>1
    <3> QED BY <3>2 DEF FixType, CallType
  <2>2. Tail(td) \in Seq(FixType(Len(heap)))
    BY <1>2 DEF TodoOK
  <2> HIDE DEF td
  <2> QED BY <2>1, <2>2
<1>4. IsSet(todo, todo', t, e)
  <2> HIDE DEF e
  <2> QED BY <1>1, SetIs DEF Funs
<1>5. todo'[t] = e
  BY <1>4 DEF IsSet
<1>6. ASSUME NEW n, NEW kind PROVE HasCall(e, kind, n) <=> (HasCall(s, kind, n) \/ HasCall(Tail(td), kind, n))
  BY <1>3, CallsJoin
<1> HIDE DEF e
<1>7. ASSUME NEW n, NEW kind, HasCall(td, kind, n) PROVE HasCall(todo'[t], kind, n) \/ n \in D
  <2>1. HasCall(Tail(td), kind, n) \/ (kind = td[1].kind /\ n = td[1].viol)
    BY <1>1, <1>2, <1>7, CallsTail
  <2> QED BY <1>1, <1>5, <1>6, <2>1
<1>8. \A n, kind : HasCall(todo[t], kind, n) => HasCall(todo'[t], kind, n) \/ n \in D
  BY <1>7
<1>9. \A n, kind : HasCall(s, kind, n) => HasCall(todo'[t], kind, n)
  BY <1>5, <1>6
<1> HIDE DEF D, td
<1> QED BY ONLY <1>1, <1>8, <1>9, Good(g), Seeking(g), Clear(heap), Owns, t \in Thread,
                Answers(s, Len(heap), new, pos[t].gp = 1), UpdateOwns

\* The calls of an update, for nodes that it adds.
LEMMA NewCalls ==
    ASSUME NEW g, Good(g), NEW t \in Thread
    PROVE  Fresh(1) = Len(heap) + 1 /\ Fresh(2) = Len(heap) + 2 /\ Fresh(1) \in Nat /\ Fresh(2) \in Nat
<1>1. NodesOK(heap, g)
  BY ThreadFacts
<1>2. Len(heap) \in Nat
  BY <1>1, HeapType
<1> QED BY <1>2 DEF Fresh

LEMMA OneLeafOwns ==
    ASSUME NEW g, Good(g), Funs, Seeking(g), Clear(heap), Owns, NEW t \in Thread, NEW n, NEW v, n.weight,
           IsLeafUpdate(t, g, <<n>>, <<Fix("degree", Fresh(1))>>, v)
    PROVE  VInv'
<1> DEFINE s == <<Fix("degree", Fresh(1))>>
           new == <<n>>
<1>1. HasCall(s, "degree", Len(heap) + 1)
  BY NewCalls, OneCall
<1> HIDE DEF s
<1>2. Answers(s, Len(heap), new, pos[t].p = 1)
  BY <1>1, AnswersOne
<1>3. IsLeafUpdate(t, g, new, s, v)
  BY DEF s
<1> HIDE DEF new
<1> QED BY <1>2, <1>3, LeafOwns

LEMMA ValueOwns ==
    ASSUME NEW g, Good(g), Funs, WorkOK, Seeking(g), Clear(heap), Owns, NEW t \in Thread, ReplaceValue(t)
    PROVE  VInv'
<1> DEFINE n == ValueNode(At(t), call[t].key, call[t].val)
<1>1. n.weight
  BY DEF ValueNode, MakeNode
<1>2. IsLeafUpdate(t, g, <<n>>, <<Fix("degree", Fresh(1))>>, call[t].val)
  BY ValueUpdate
<1> HIDE DEF n
<1> QED BY <1>1, <1>2, OneLeafOwns

LEMMA PairOwns ==
    ASSUME NEW g, Good(g), Funs, WorkOK, Seeking(g), Clear(heap), Owns, NEW t \in Thread, InsertPair(t)
    PROVE  VInv'
<1> DEFINE n == PairNode(At(t), call[t].key, call[t].val)
<1>1. IsLeafUpdate(t, g, <<n>>, <<Fix("degree", Fresh(1))>>, call[t].val)
  BY PairUpdate
<1>2. IsLeaf(At(t), g[pos[t].l], g)
  BY <1>1 DEF IsLeafUpdate, AtLeaf
<1>3. At(t).weight
  BY <1>2, LeafFields
<1>4. n.weight
  BY <1>3 DEF PairNode, MakeNode
<1> HIDE DEF n
<1> QED BY <1>1, <1>4, OneLeafOwns

LEMMA EraseOwns ==
    ASSUME NEW g, Good(g), Funs, WorkOK, Seeking(g), Clear(heap), Owns, NEW t \in Thread, Erase(t)
    PROVE  VInv'
<1> DEFINE n == LessNode(At(t), call[t].key)
<1>1. n.weight
  BY DEF LessNode, MakeNode
<1>2. IsLeafUpdate(t, g, <<n>>, <<Fix("degree", Fresh(1))>>, NO_VALUE)
  BY EraseUpdate
<1> HIDE DEF n
<1> QED BY <1>1, <1>2, OneLeafOwns

\* Two halves under a new node, which is the root or has a weight violation.
LEMMA TopAnswers ==
    ASSUME NEW s, NEW N, NEW w \in BOOLEAN, NEW z, Full(z.left), Full(z.right), HasCall(s, "weight", N + 1)
    PROVE  Answers(s, N, <<TopNode(w, z, N), z.left, z.right>>, w)
<1> DEFINE n == TopNode(w, z, N)
<1>1. n.weight = w
  BY DEF TopNode, MakeNode
<1> HIDE DEF n
<1>2. \A kind \in {"weight", "degree"} : Faulty(n, kind) => HasCall(s, kind, N + 1) \/ w
  BY <1>1 DEF Faulty
<1>3. Answers(s, N, <<n, z.left, z.right>>, w)
  BY <1>2, AnswersThree
<1> QED BY <1>3 DEF n

LEMMA OverflowOwns ==
    ASSUME NEW g, Good(g), Funs, WorkOK, Seeking(g), Clear(heap), Owns, NEW t \in Thread, Overflow(t)
    PROVE  VInv'
<1> DEFINE r == At(t)
           key == call[t].key
           v == call[t].val
           z == LeafHalves(r, key, v)
           w == pos[t].p = 1
           new == <<TopNode(w, z, Len(heap)), z.left, z.right>>
           s == <<Fix("weight", Fresh(1))>>
           K == InsertAt(r.keys, getKeyIndex(r, key), key)
           Q == InsertAt(r.ptrs, getKeyIndex(r, key), v)
<1>1. IsLeafUpdate(t, g, new, s, v)
  BY OverflowUpdate
<1>2. Inserting(t) /\ ~HasKey(r, key) /\ Len(r.keys) = b
  BY DEF Overflow
<1>3. IsLeaf(r, g[pos[t].l], g) /\ key \in Key /\ v \in Value
  BY <1>1, <1>2, InsertCalls DEF AtLeaf, Inserting, IsLeafUpdate
<1>4. Q \in Seq(Value \cup Nat) /\ Len(Q) = b + 1
  <2> HIDE DEF r, key, v
  <2>1. Len(Q) = Len(r.keys) + 1 /\ Q \in Seq(Value \cup Nat)
    BY ONLY <1>2, <1>3, InsertedPairs
  <2> QED BY <1>2, <2>1
<1>5. Full(z.left) /\ Full(z.right)
  <2>1. z = Halves(TRUE, K, Q, (DEGREE + 1) \div 2)
    BY DEF LeafHalves
  <2> DEFINE size == (DEGREE + 1) \div 2
  <2>2. size \in Nat /\ size >= a /\ size + a <= Len(Q)
    BY <1>4, HalfSizes
  <2> HIDE DEF z, K, Q, size
  <2>3. LET y == Halves(TRUE, K, Q, size) IN Full(y.left) /\ Full(y.right)
    BY <1>4, <2>2, HalvesFull
  <2> QED BY <2>1, <2>3 DEF size
<1>6. HasCall(s, "weight", Len(heap) + 1)
  BY NewCalls, OneCall
<1> HIDE DEF r, key, v, z, s
<1>7. w \in BOOLEAN
  OBVIOUS
<1>8. Answers(s, Len(heap), new, w)
  BY ONLY <1>5, <1>6, <1>7, TopAnswers
<1> HIDE DEF new
<1> QED BY <1>1, <1>8, LeafOwns

LEMMA AbsorbOwns ==
    ASSUME NEW g, Good(g), Funs, WorkOK, Seeking(g), Clear(heap), Owns, NEW t \in Thread, Absorb(t)
    PROVE  VInv'
<1> DEFINE n == WholeNode(Spliced(Parent(t), At(t), pos[t].ixToL))
           s == <<Fix("degree", Fresh(1))>>
           new == <<n>>
           removed == {pos[t].l}
<1>1. IsParentUpdate(t, g, new, removed, s)
  BY AbsorbUpdate
<1>2. n.weight
  BY DEF WholeNode, MakeNode
<1>3. s \in Seq(CallType) /\ HasCall(s, "degree", Len(heap) + 1)
  BY NewCalls, OneCall
<1> HIDE DEF n, s
<1>4. Answers(s, Len(heap), new, pos[t].gp = 1)
  BY <1>2, <1>3, AnswersOne
<1>5. pos[t].l \in removed
  OBVIOUS
<1> HIDE DEF new, removed
<1> QED BY <1>1, <1>3, <1>4, <1>5, ParentOwns

LEMMA SplitOwns ==
    ASSUME NEW g, Good(g), Funs, WorkOK, Seeking(g), Clear(heap), Owns, NEW t \in Thread, Split(t)
    PROVE  VInv'
<1> DEFINE m == Spliced(Parent(t), At(t), pos[t].ixToL)
           z == PartHalves(FALSE, m)
           w == pos[t].gp = 1
           new == <<TopNode(w, z, Len(heap)), z.left, z.right>>
           s == <<Fix("weight", Fresh(1)), Fix("degree", Fresh(1))>>
           removed == {pos[t].l}
<1>1. IsParentUpdate(t, g, new, removed, s)
  BY SplitUpdate
<1>2. FixingWeight(t) /\ Len(m.ptrs) > b
  BY DEF Split
<1>3. m.ptrs \in Seq(Value \cup Nat)
  <2> DEFINE r == heap[pos[t].p]
             u == heap[pos[t].l]
             i == pos[t].ixToL
  <2>1. /\ Fine(heap, g, retired) /\ ~u.weight /\ r.weight
        /\ Spot(heap, retired, pos[t].gp, pos[t].ixToP, pos[t].p, i, pos[t].l)
    BY <1>1, <1>2 DEF IsParentUpdate, AtParent, FixingWeight, Fixing, Entered, Parent
  <2>2. SpotOK(heap, g, retired, pos[t].gp, pos[t].p, pos[t].l)
    BY ONLY <2>1, SpotNodes
  <2>3. /\ Sound(r, g[pos[t].p], g) /\ ~r.leaf /\ i \in 1 .. Len(r.ptrs) /\ pos[t].l = r.ptrs[i]
        /\ Sound(u, g[pos[t].l], g)
    BY <2>1, <2>2 DEF SpotOK, Spot, Place
  <2>4. Sound(u, g[r.ptrs[i]], g)
    BY <2>3
  <2> DEFINE x == g[pos[t].p]
  <2>5. Sound(r, x, g) /\ ~r.leaf /\ i \in 1 .. Len(r.ptrs) /\ r.weight /\ ~u.weight
    BY <2>1, <2>3
  <2>6. m = Spliced(r, u, i)
    BY DEF Parent, At
  <2> HIDE DEF r, u, i, m, x
  <2>7. SplicedOK(Spliced(r, u, i), r, x, i, u, g)
    BY ONLY <2>4, <2>5, SplicedNode
  <2> QED BY <2>6, <2>7 DEF SplicedOK
<1>4. Full(z.left) /\ Full(z.right)
  <2>1. z = Halves(FALSE, m.keys, m.ptrs, Len(m.ptrs) \div 2)
    BY DEF PartHalves
  <2> DEFINE size == Len(m.ptrs) \div 2
  <2>2. size \in Nat /\ size >= a /\ size + a <= Len(m.ptrs)
    <3>1. Len(m.ptrs) \in Nat
      BY <1>3, LenProperties
    <3> QED BY <1>2, <3>1, HalfSizes
  <2> HIDE DEF z, m, size
  <2>3. LET y == Halves(FALSE, m.keys, m.ptrs, size) IN Full(y.left) /\ Full(y.right)
    BY <1>3, <2>2, HalvesFull
  <2> QED BY <2>1, <2>3 DEF size
<1>5. s \in Seq(CallType) /\ HasCall(s, "weight", Len(heap) + 1)
  BY NewCalls, TwoCalls
<1> HIDE DEF z, s
<1>6. w \in BOOLEAN
  OBVIOUS
<1>7. Answers(s, Len(heap), new, w)
  BY ONLY <1>4, <1>5, <1>6, TopAnswers
<1>8. pos[t].l \in removed
  OBVIOUS
<1> HIDE DEF new, removed
<1> QED BY <1>1, <1>5, <1>7, <1>8, ParentOwns

LEMMA SiblingOwns ==
    ASSUME NEW g, Good(g), Funs, WorkOK, Seeking(g), Clear(heap), Owns, NEW t \in Thread, AbsorbSibling(t)
    PROVE  VInv'
<1> DEFINE joint == JointNode(Joined(t), At(t).searchKey)
           less == LessParent(Parent(t), leftindex(t), ixToS(t), Len(heap))
           removed == {pos[t].l, Sibling(t)}
           s1 == <<Fix("degree", Fresh(1))>>
           s2 == <<Fix("degree", Fresh(2)), Fix("degree", Fresh(1))>>
           new1 == <<joint>>
           new2 == <<less, joint>>
<1>1. IsParentUpdate(t, g, new1, removed, s1) \/ IsParentUpdate(t, g, new2, removed, s2)
  BY SiblingUpdate
<1>2. joint.weight /\ less.weight
  BY DEF JointNode, LessParent, MakeNode
<1>3. /\ s1 \in Seq(CallType) /\ HasCall(s1, "degree", Len(heap) + 1)
      /\ s2 \in Seq(CallType) /\ HasCall(s2, "degree", Len(heap) + 1) /\ HasCall(s2, "degree", Len(heap) + 2)
  BY NewCalls, OneCall, TwoCalls
<1> HIDE DEF joint, less, s1, s2
<1>4. Answers(s1, Len(heap), new1, pos[t].gp = 1)
  BY <1>2, <1>3, AnswersOne
<1>5. Answers(s2, Len(heap), new2, pos[t].gp = 1)
  BY <1>2, <1>3, AnswersTwo
<1>6. pos[t].l \in removed
  OBVIOUS
<1> HIDE DEF new1, new2, removed
<1>7. CASE IsParentUpdate(t, g, new1, removed, s1)
  BY <1>3, <1>4, <1>6, <1>7, ParentOwns
<1>8. CASE IsParentUpdate(t, g, new2, removed, s2)
  BY <1>3, <1>5, <1>6, <1>8, ParentOwns
<1> QED BY <1>1, <1>7, <1>8

LEMMA DistributeOwns ==
    ASSUME NEW g, Good(g), Funs, WorkOK, Seeking(g), Clear(heap), Owns, NEW t \in Thread, Distribute(t)
    PROVE  VInv'
<1> DEFINE m == Joined(t)
           z == PartHalves(m.leaf, m)
           n == SameParent(Parent(t), leftindex(t), z, Len(heap))
           removed == {pos[t].l, Sibling(t)}
           s == <<Fix("degree", Fresh(1))>>
           new == <<n, z.left, z.right>>
           w == pos[t].gp = 1
<1>1. IsParentUpdate(t, g, new, removed, s)
  BY DistributeUpdate
<1>2. FixingPair(t) /\ Len(m.ptrs) >= 2 * a /\ \E new2, removed2, s2 : ReplaceParent(t, new2, removed2, s2)
  BY DEF Distribute
<1>3. m.ptrs \in Seq(Value \cup Nat)
  <2>1. AtPair(t, g)
    BY <1>2, PairReached DEF ReplaceParent
  <2> QED BY <2>1 DEF AtPair, PairOK, Content
<1>4. Full(z.left) /\ Full(z.right)
  <2>1. z = Halves(m.leaf, m.keys, m.ptrs, Len(m.ptrs) \div 2)
    BY DEF PartHalves
  <2> DEFINE size == Len(m.ptrs) \div 2
  <2>2. size \in Nat /\ size >= a /\ size + a <= Len(m.ptrs)
    <3>1. Len(m.ptrs) \in Nat
      BY <1>3, LenProperties
    <3> QED BY <1>2, <3>1, HalfSizes
  <2> HIDE DEF z, m, size
  <2>3. LET y == Halves(m.leaf, m.keys, m.ptrs, size) IN Full(y.left) /\ Full(y.right)
    BY <1>3, <2>2, HalvesFull
  <2> QED BY <2>1, <2>3 DEF size
<1>5. s \in Seq(CallType) /\ HasCall(s, "degree", Len(heap) + 1)
  BY NewCalls, OneCall
<1>6. n.weight
  BY DEF SameParent, MakeNode
<1> HIDE DEF n, z, s
<1>7. \A kind \in {"weight", "degree"} : Faulty(n, kind) => HasCall(s, kind, Len(heap) + 1) \/ w
  BY <1>5, <1>6 DEF Faulty
<1>8. w \in BOOLEAN
  OBVIOUS
<1> HIDE DEF w
<1>9. Answers(s, Len(heap), new, w)
  BY ONLY <1>4, <1>7, <1>8, AnswersThree
<1>10. pos[t].l \in removed
  OBVIOUS
<1> HIDE DEF new, removed
<1> QED BY <1>1, <1>5, <1>9, <1>10, ParentOwns DEF w

---------------------------------------------------------------------------
(* Each violation has an owner *)

LEMMA StepOwns ==
    ASSUME NEW g, Good(g), Funs, WorkOK, Seeking(g), Clear(heap), Owns, NEW t \in Thread, Step(t)
    PROVE  VInv'
<1>1. CASE Enter(t) \/ Descend(t) \/ Observe(t) \/ Retry(t) \/ Return(t)
  BY <1>1, EnterOwns, DescendOwns, ObserveOwns, RetryOwns, ReturnOwns
<1>2. CASE ReplaceValue(t) \/ InsertPair(t) \/ Overflow(t) \/ Erase(t)
  BY <1>2, ValueOwns, PairOwns, OverflowOwns, EraseOwns
<1>3. CASE FixEnter(t) \/ FixHandOff(t) \/ FixParentWeight(t) \/ FixWeights(t) \/ FixGivesUp(t)
  BY <1>3, FixEnterOwns, HandOffOwns, ParentWeightOwns, WeightsOwns, GivesUpOwns
<1>4. CASE Absorb(t) \/ Split(t) \/ AbsorbSibling(t) \/ Distribute(t)
  BY <1>4, AbsorbOwns, SplitOwns, SiblingOwns, DistributeOwns
<1> QED BY <1>1, <1>2, <1>3, <1>4 DEF Step

LEMMA NextOwns ==
    ASSUME VInv, [Next]_vars
    PROVE  VInv'
<1>1. PICK g : Good(g) /\ Seeking(g)
  BY DEF VInv
<1>2. Funs /\ WorkOK /\ Clear(heap) /\ Owns
  BY DEF VInv
<1>3. CASE Next
  <2>1. PICK t \in Thread : Step(t) \/ \E c \in work.calls \cup Range(work.fill) : Call(t, c)
    BY <1>3 DEF Next
  <2>2. CASE Step(t)
    BY <1>1, <1>2, <2>2, StepOwns
  <2>3. ASSUME NEW c, Call(t, c) PROVE VInv'
    BY <1>1, <1>2, <2>3, CallOwns
  <2> QED BY <2>1, <2>2, <2>3
<1>4. CASE UNCHANGED vars
  <2>1. /\ heap' = heap /\ retired' = retired /\ call' = call /\ ret' = ret /\ seen' = seen
        /\ todo' = todo /\ pos' = pos /\ work' = work /\ givenUp' = givenUp
    BY <1>4 DEF vars, tree, local
  <2>2. Good(g)'
    BY <1>1, <2>1 DEF Good
  <2>3. Seeking(g)'
    BY <1>1, <2>1 DEF Seeking
  <2>4. Owns'
    BY <1>2, <2>1 DEF Owns, Owned
  <2> QED BY <1>2, <2>1, <2>2, <2>3, <2>4 DEF VInv, Funs, WorkOK
<1> QED BY <1>3, <1>4

LEMMA InitOwns ==
    ASSUME Init
    PROVE  VInv
<1>1. Inv
  BY InitGood
<1>2. PICK g : Good(g)
  BY <1>1 DEF Inv
<1>3. pos = [t \in Thread |-> Nowhere]
  BY DEF Init
<1>4. Seeking(g)
  BY <1>3, NotSeeking DEF Seeking
<1> DEFINE n1 == MakeNode(FALSE, TRUE, AnyKey, <<>>, <<2>>)
           n2 == MakeNode(TRUE, TRUE, AnyKey, <<>>, <<>>)
<1>5. heap = <<n1, n2>> /\ ~n1.leaf /\ ~n2.marked /\ n1.ptrs = <<2>>
  BY DEF Init, MakeNode
<1> HIDE DEF n1, n2
<1>6. Len(heap) = 2 /\ heap[1] = n1 /\ heap[2] = n2
  BY <1>5
<1>7. \A n \in 1 .. Len(heap) : n = 1 \/ n = 2
  BY <1>6
<1>8. Clear(heap)
  BY <1>5, <1>6, <1>7 DEF Clear
<1>9. \A n : ~Within(heap, retired, n)
  <2>1. \A n \in 2 .. Len(heap) : n = 2
    BY <1>6
  <2>2. heap[1].ptrs[1] = 2
    BY <1>5, <1>6
  <2> QED BY <2>1, <2>2 DEF Within
<1>10. Owns
  BY <1>9 DEF Owns
<1> QED BY <1>1, <1>2, <1>4, <1>8, <1>10 DEF VInv, Inv

LEMMA OwnsHolds ==
    ASSUME VInv
    PROVE  ViolationsOwned
<1>1. PICK g : Good(g)
  BY DEF VInv
<1>2. Fine(heap, g, retired) /\ NodesOK(heap, g)
  BY <1>1 DEF Good, Fine
<1>3. Linked = (1 .. Len(heap)) \ retired /\ Len(heap) \in Nat
  BY <1>2, LinkedIs, HeapType
<1>4. ASSUME NEW n \in Inner, NEW kind \in {"weight", "degree"}, Violates(n, kind)
      PROVE  \/ \E t \in Thread : \E i \in DOMAIN todo[t] : todo[t][i].kind = kind /\ todo[t][i].viol = n
             \/ kind = "degree" /\ n \in givenUp
  <2>1. n \in 1 .. Len(heap) /\ n \notin retired /\ n # 1 /\ n # heap[1].ptrs[1]
    BY <1>3 DEF Inner, entry
  <2>2. Within(heap, retired, n)
    BY <1>3, <2>1 DEF Within
  <2>3. Faulty(heap[n], kind)
    BY <1>4 DEF Violates, Faulty, getABDegree
  <2>4. Owned(kind, n) \/ (kind = "degree" /\ n \in givenUp)
    BY <2>2, <2>3 DEF VInv, Owns
  <2>5. ASSUME NEW t \in Thread, HasCall(todo[t], kind, n)
        PROVE  \E i \in DOMAIN todo[t] : todo[t][i].kind = kind /\ todo[t][i].viol = n
    <3>1. todo[t] \in Seq(FixType(Len(heap)))
      BY <1>1, ThreadFacts DEF TodoOK
    <3>2. DOMAIN todo[t] = 1 .. Len(todo[t])
      BY <3>1, LenProperties
    <3> QED BY <2>5, <3>2 DEF HasCall
  <2> QED BY <2>4, <2>5 DEF Owned
<1> QED BY <1>4 DEF ViolationsOwned

\* No violation is forgotten.  While a node of the tree has weight 0 or too few pointers,
\* some thread has still to make a fix call for it: a call ends early only when its node
\* has no violation or has left the tree, and what replaces a node that is removed with
\* a violation is the business of the thread that removed it.  Only a degree violation
\* that fixDegreeViolation itself gave up, for want of a sibling, may be left.
THEOREM EachViolationOwned == Spec => []ViolationsOwned
<1>1. Init => VInv
  BY InitOwns
<1>2. VInv /\ [Next]_vars => VInv'
  BY NextOwns
<1>3. VInv => ViolationsOwned
  BY OwnsHolds
<1> QED BY <1>1, <1>2, <1>3, PTL DEF Spec
=============================================================================
