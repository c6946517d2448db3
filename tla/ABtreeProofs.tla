---------------------------- MODULE ABtreeProofs ----------------------------
(***************************************************************************)
(* The tree is ordered, balanced up to its weights, and retires what it    *)
(* removes, for any number of threads, any DEGREE and any finite Key.      *)
(*                                                                         *)
(* A ghost g assigns to each address, once and for all, the keys that are  *)
(* for it (from lo up to hi) and its height over the leaves (ht), not      *)
(* counting nodes of weight 0.  Good(g) says that each node, whether in    *)
(* the tree or retired, agrees with g about itself and its children        *)
(* (Sound), that the nodes not retired are those that have a parent which  *)
(* is not retired, one each (LinkOK), and that threads hold only addresses *)
(* that keep to that.  The inductive invariant Inv is that there is such a *)
(* g.  An SCX extends g by the new nodes and keeps the rest.               *)
(***************************************************************************)
EXTENDS ABtree, SharedLemmas, SequenceTheorems

LEMMA Part ==
    ASSUME NEW S, NEW s \in Seq(S), NEW m \in 1 .. Len(s) + 1, NEW n \in m - 1 .. Len(s)
    PROVE  /\ SubSeq(s, m, n) \in Seq(S)
           /\ Len(SubSeq(s, m, n)) = n - m + 1
           /\ \A i \in 1 .. n - m + 1 : SubSeq(s, m, n)[i] = s[m + i - 1]
<1>0. Len(s) \in Nat /\ \A i \in 1 .. Len(s) : s[i] \in S
  BY LenProperties, ElementOfSeq
<1>1. \A i \in m .. n : s[i] \in S
  BY <1>0
<1>2. m \in Int /\ n \in Int
  BY <1>0
<1>3. /\ SubSeq(s, m, n) \in Seq(S)
      /\ Len(SubSeq(s, m, n)) = IF m <= n THEN n - m + 1 ELSE 0
      /\ \A i \in 1 .. n - m + 1 : SubSeq(s, m, n)[i] = s[m + i - 1]
  BY <1>1, <1>2, SubSeqProperties
<1> QED BY <1>0, <1>3

LEMMA InsertAtIs ==
    ASSUME NEW S, NEW s \in Seq(S), NEW i \in 1 .. Len(s) + 1, NEW e \in S
    PROVE  /\ InsertAt(s, i, e) \in Seq(S)
           /\ Len(InsertAt(s, i, e)) = Len(s) + 1
           /\ \A j \in 1 .. Len(s) + 1 :
                 InsertAt(s, i, e)[j] = IF j < i THEN s[j] ELSE IF j = i THEN e ELSE s[j - 1]
<1> DEFINE x == SubSeq(s, 1, i - 1)
           y == SubSeq(s, i, Len(s))
<1>0. Len(s) \in Nat
  BY LenProperties
<1>1. x \in Seq(S) /\ Len(x) = i - 1 /\ \A j \in 1 .. i - 1 : x[j] = s[j]
  <2>1. 1 \in 1 .. Len(s) + 1 /\ i - 1 \in 1 - 1 .. Len(s)
    BY <1>0
  <2> QED BY <1>0, <2>1, Part
<1>2. y \in Seq(S) /\ Len(y) = Len(s) - i + 1 /\ \A j \in 1 .. Len(s) - i + 1 : y[j] = s[i + j - 1]
  <2>1. Len(s) \in i - 1 .. Len(s)
    BY <1>0
  <2> QED BY <1>0, <2>1, Part
<1>3. <<e>> \in Seq(S) /\ Len(<<e>>) = 1 /\ <<e>>[1] = e
  OBVIOUS
<1> HIDE DEF x, y
<1>4. InsertAt(s, i, e) = (x \o <<e>>) \o y
  BY DEF InsertAt, x, y
<1> DEFINE z == x \o <<e>>
<1>5. z \in Seq(S) /\ Len(z) = i /\ \A j \in 1 .. i : z[j] = IF j <= i - 1 THEN x[j] ELSE <<e>>[j - (i - 1)]
  BY <1>0, <1>1, <1>3, ConcatProperties
<1>6. z[i] = e /\ \A j \in 1 .. i - 1 : z[j] = s[j]
  BY <1>0, <1>1, <1>3, <1>5
<1> HIDE DEF z
<1>7. /\ z \o y \in Seq(S) /\ Len(z \o y) = Len(z) + Len(y)
      /\ \A j \in 1 .. Len(z) + Len(y) : (z \o y)[j] = IF j <= Len(z) THEN z[j] ELSE y[j - Len(z)]
  BY <1>2, <1>5, ConcatProperties
<1>8. Len(z) + Len(y) = Len(s) + 1
  BY <1>0, <1>2, <1>5
<1>9. ASSUME NEW j \in 1 .. Len(s) + 1
      PROVE  (z \o y)[j] = IF j < i THEN s[j] ELSE IF j = i THEN e ELSE s[j - 1]
  <2>1. CASE j <= i
    BY <1>0, <1>5, <1>6, <1>7, <1>8, <2>1
  <2>2. CASE j > i
    <3>1. j - i \in 1 .. Len(s) - i + 1 /\ i + (j - i) - 1 = j - 1
      BY <1>0, <2>2
    <3>2. y[j - i] = s[j - 1]
      BY <1>2, <3>1
    <3> QED BY <1>0, <1>5, <1>7, <1>8, <2>2, <3>2
  <2>3. j <= i \/ j > i
    BY <1>0
  <2> QED BY <2>1, <2>2, <2>3
<1> QED BY <1>4, <1>7, <1>8, <1>9 DEF z

LEMMA RemoveAtIs ==
    ASSUME NEW S, NEW s \in Seq(S), NEW i \in 1 .. Len(s)
    PROVE  /\ RemoveAt(s, i) \in Seq(S)
           /\ Len(RemoveAt(s, i)) = Len(s) - 1
           /\ \A j \in 1 .. Len(s) - 1 : RemoveAt(s, i)[j] = IF j < i THEN s[j] ELSE s[j + 1]
<1> DEFINE x == SubSeq(s, 1, i - 1)
           y == SubSeq(s, i + 1, Len(s))
<1>0. Len(s) \in Nat
  BY LenProperties
<1>1. x \in Seq(S) /\ Len(x) = i - 1 /\ \A j \in 1 .. i - 1 : x[j] = s[j]
  <2>1. 1 \in 1 .. Len(s) + 1 /\ i - 1 \in 1 - 1 .. Len(s)
    BY <1>0
  <2> QED BY <1>0, <2>1, Part
<1>2. y \in Seq(S) /\ Len(y) = Len(s) - i /\ \A j \in 1 .. Len(s) - i : y[j] = s[i + j]
  <2>1. i + 1 \in 1 .. Len(s) + 1 /\ Len(s) \in (i + 1) - 1 .. Len(s)
    BY <1>0
  <2> QED BY <1>0, <2>1, Part
<1> HIDE DEF x, y
<1>3. RemoveAt(s, i) = x \o y
  BY DEF RemoveAt, x, y
<1>4. /\ x \o y \in Seq(S) /\ Len(x \o y) = Len(x) + Len(y)
      /\ \A j \in 1 .. Len(x) + Len(y) : (x \o y)[j] = IF j <= Len(x) THEN x[j] ELSE y[j - Len(x)]
  BY <1>1, <1>2, ConcatProperties
<1>5. Len(x) + Len(y) = Len(s) - 1
  BY <1>0, <1>1, <1>2
<1>6. ASSUME NEW j \in 1 .. Len(s) - 1
      PROVE  (x \o y)[j] = IF j < i THEN s[j] ELSE s[j + 1]
  <2>1. CASE j < i
    BY <1>0, <1>1, <1>4, <1>5, <2>1
  <2>2. CASE j >= i
    <3>1. j - (i - 1) \in 1 .. Len(s) - i /\ i + (j - (i - 1)) = j + 1
      BY <1>0, <2>2
    <3>2. y[j - (i - 1)] = s[j + 1]
      BY <1>2, <3>1
    <3> QED BY <1>0, <1>1, <1>4, <1>5, <2>2, <3>2
  <2>3. j < i \/ j >= i
    BY <1>0
  <2> QED BY <2>1, <2>2, <2>3
<1> QED BY <1>3, <1>4, <1>5, <1>6

LEMMA ReplaceAtIs ==
    ASSUME NEW S, NEW s \in Seq(S), NEW i \in 1 .. Len(s), NEW e \in S
    PROVE  /\ ReplaceAt(s, i, e) \in Seq(S)
           /\ Len(ReplaceAt(s, i, e)) = Len(s)
           /\ \A j \in 1 .. Len(s) : ReplaceAt(s, i, e)[j] = IF j = i THEN e ELSE s[j]
<1>1. ReplaceAt(s, i, e) = [s EXCEPT ![i] = e]
  BY DEF ReplaceAt
<1>2. [s EXCEPT ![i] = e] \in Seq(S) /\ Len([s EXCEPT ![i] = e]) = Len(s)
  BY ExceptSeq
<1> QED BY <1>1, <1>2

\* t in the place of the elements from i to k.
LEMMA SpliceIs ==
    ASSUME NEW S, NEW s \in Seq(S), NEW t \in Seq(S), NEW i \in 1 .. Len(s) + 1,
           NEW k \in i - 1 .. Len(s)
    PROVE  LET z == SubSeq(s, 1, i - 1) \o t \o SubSeq(s, k + 1, Len(s))
           IN  /\ z \in Seq(S)
               /\ Len(z) = i - 1 + Len(t) + Len(s) - k
               /\ \A j \in 1 .. i - 1 + Len(t) + Len(s) - k :
                     z[j] = IF j < i THEN s[j]
                            ELSE IF j < i + Len(t) THEN t[j - i + 1]
                            ELSE s[j - (i - 1) - Len(t) + k]
<1> DEFINE x == SubSeq(s, 1, i - 1)
           y == SubSeq(s, k + 1, Len(s))
<1>0. Len(s) \in Nat /\ Len(t) \in Nat
  BY LenProperties
<1>1. x \in Seq(S) /\ Len(x) = i - 1 /\ \A j \in 1 .. i - 1 : x[j] = s[j]
  <2>1. 1 \in 1 .. Len(s) + 1 /\ i - 1 \in 1 - 1 .. Len(s)
    BY <1>0
  <2> QED BY <1>0, <2>1, Part
<1>2. y \in Seq(S) /\ Len(y) = Len(s) - k /\ \A j \in 1 .. Len(s) - k : y[j] = s[k + j]
  <2>1. k + 1 \in 1 .. Len(s) + 1 /\ Len(s) \in (k + 1) - 1 .. Len(s)
    BY <1>0
  <2> QED BY <1>0, <2>1, Part
<1> HIDE DEF x, y
<1> DEFINE w == x \o t
<1>3. /\ w \in Seq(S) /\ Len(w) = i - 1 + Len(t)
      /\ \A j \in 1 .. i - 1 + Len(t) : w[j] = IF j <= i - 1 THEN x[j] ELSE t[j - (i - 1)]
  <2>1. /\ w \in Seq(S) /\ Len(w) = Len(x) + Len(t)
        /\ \A j \in 1 .. Len(x) + Len(t) : w[j] = IF j <= Len(x) THEN x[j] ELSE t[j - Len(x)]
    BY <1>1, ConcatProperties
  <2> HIDE DEF w
  <2> QED BY <1>0, <1>1, <2>1
<1>4. \A j \in 1 .. i - 1 + Len(t) : w[j] = IF j < i THEN s[j] ELSE t[j - i + 1]
  <2> SUFFICES ASSUME NEW j \in 1 .. i - 1 + Len(t)
               PROVE  w[j] = IF j < i THEN s[j] ELSE t[j - i + 1]
    OBVIOUS
  <2>1. j \in Int /\ j - (i - 1) = j - i + 1 /\ (j < i => j \in 1 .. i - 1)
    BY <1>0
  <2> QED BY <1>0, <1>1, <1>3, <2>1
<1> HIDE DEF w
<1>5. /\ w \o y \in Seq(S) /\ Len(w \o y) = Len(w) + Len(y)
      /\ \A j \in 1 .. Len(w) + Len(y) : (w \o y)[j] = IF j <= Len(w) THEN w[j] ELSE y[j - Len(w)]
  BY <1>2, <1>3, ConcatProperties
<1>6. Len(w) + Len(y) = i - 1 + Len(t) + Len(s) - k
  BY <1>0, <1>2, <1>3
<1>7. ASSUME NEW j \in 1 .. i - 1 + Len(t) + Len(s) - k
      PROVE  (w \o y)[j] = IF j < i THEN s[j]
                            ELSE IF j < i + Len(t) THEN t[j - i + 1]
                            ELSE s[j - (i - 1) - Len(t) + k]
  <2>1. CASE j < i + Len(t)
    <3>1. j \in 1 .. i - 1 + Len(t) /\ j <= Len(w) /\ j \in 1 .. Len(w) + Len(y)
      BY <1>0, <1>3, <1>6, <2>1
    <3>2. (w \o y)[j] = w[j]
      BY <1>5, <3>1
    <3> QED BY <1>4, <2>1, <3>1, <3>2
  <2>2. CASE j >= i + Len(t)
    <3>1. /\ j - Len(w) \in 1 .. Len(s) - k /\ k + (j - Len(w)) = j - (i - 1) - Len(t) + k
          /\ ~(j <= Len(w)) /\ ~(j < i) /\ ~(j < i + Len(t)) /\ j \in 1 .. Len(w) + Len(y)
      BY <1>0, <1>3, <1>6, <2>2
    <3>2. y[j - Len(w)] = s[j - (i - 1) - Len(t) + k]
      BY <1>2, <3>1
    <3> QED BY <1>5, <3>1, <3>2
  <2>3. j < i + Len(t) \/ j >= i + Len(t)
    BY <1>0
  <2> QED BY <2>1, <2>2, <2>3
<1> QED BY <1>5, <1>6, <1>7 DEF x, y, w

---------------------------------------------------------------------------

NodeType == [leaf : BOOLEAN, marked : BOOLEAN, weight : BOOLEAN, searchKey : Key,
             keys : Seq(Key), ptrs : Seq(Value \cup Nat)]

Info == [lo : Int, hi : Int, ht : Int]

\* n keys and as many values.
LeafArray(n, keys, ptrs, lo, hi) ==
    /\ n \in Nat /\ lo \in Int /\ hi \in Int /\ lo < hi
    /\ Len(keys) = n /\ Len(ptrs) = n
    /\ \A i \in 1 .. n : ptrs[i] \in Value
    /\ \A i \in 1 .. n : keys[i] \in Int /\ lo <= keys[i] /\ keys[i] < hi
    /\ \A i, j \in 1 .. n : i < j => keys[i] < keys[j]

\* The bounds of the i-th child of a node with n keys.
Low(keys, lo, i) == IF i = 1 THEN lo ELSE keys[i - 1]
High(n, keys, hi, i) == IF i = n + 1 THEN hi ELSE keys[i]

\* The node c has these bounds and this height.
Fits(g, c, lo, hi, d) ==
    c \in 2 .. Len(g) /\ g[c].lo = lo /\ g[c].hi = hi /\ g[c].ht = d

\* n keys and n + 1 children, all of height d.
InnerArray(n, keys, ptrs, lo, hi, d, g) ==
    /\ n \in Nat /\ lo \in Int /\ hi \in Int /\ lo < hi
    /\ d \in Int /\ d >= 1
    /\ Len(keys) = n /\ Len(ptrs) = n + 1
    /\ \A i \in 1 .. n : keys[i] \in Int /\ lo < keys[i] /\ keys[i] < hi
    /\ \A i, j \in 1 .. n : i < j => keys[i] < keys[j]
    /\ \A i \in 1 .. n + 1 : Fits(g, ptrs[i], Low(keys, lo, i), High(n, keys, hi, i), d)

\* z is s, of length n, with t, of length m, in the place of the elements from i to k.
IsSplice(z, s, n, t, m, i, k) ==
    /\ Len(z) = n + m + i - 1 - k
    /\ \A j \in 1 .. n + m + i - 1 - k :
          /\ j < i => z[j] = s[j]
          /\ j >= i /\ j < i + m => z[j] = t[j - i + 1]
          /\ j >= i + m => z[j] = s[j - m - i + 1 + k]

\* The bounds of a child.
LEMMA Bounds ==
    ASSUME NEW g, NEW n, NEW keys, NEW ptrs, NEW lo, NEW hi, NEW d,
           InnerArray(n, keys, ptrs, lo, hi, d, g), NEW i \in 1 .. n + 1
    PROVE  /\ Low(keys, lo, i) \in Int /\ High(n, keys, hi, i) \in Int
           /\ lo <= Low(keys, lo, i) /\ Low(keys, lo, i) < High(n, keys, hi, i)
           /\ High(n, keys, hi, i) <= hi
           /\ \A j \in 1 .. n : j < i => keys[j] <= Low(keys, lo, i)
           /\ \A j \in 1 .. n : j >= i => High(n, keys, hi, i) <= keys[j]
<1>0. /\ n \in Nat /\ lo \in Int /\ hi \in Int /\ lo < hi
      /\ \A j \in 1 .. n : keys[j] \in Int /\ lo < keys[j] /\ keys[j] < hi
      /\ \A j, k \in 1 .. n : j < k => keys[j] < keys[k]
  BY DEF InnerArray
<1>1. /\ i = 1 \/ i - 1 \in 1 .. n
      /\ i = n + 1 \/ i \in 1 .. n
      /\ i # 1 => i - 1 < i
  BY <1>0
<1>2. Low(keys, lo, i) \in Int /\ lo <= Low(keys, lo, i) /\ Low(keys, lo, i) < hi
  BY <1>0, <1>1 DEF Low
<1>3. High(n, keys, hi, i) \in Int /\ High(n, keys, hi, i) <= hi /\ lo < High(n, keys, hi, i)
  BY <1>0, <1>1 DEF High
<1>4. Low(keys, lo, i) < High(n, keys, hi, i)
  <2>1. CASE i = 1
    BY <1>3, <2>1 DEF Low
  <2>2. CASE i = n + 1
    BY <1>2, <2>2 DEF High
  <2>3. CASE i # 1 /\ i # n + 1
    BY <1>0, <1>1, <2>3 DEF Low, High
  <2> QED BY <2>1, <2>2, <2>3
<1>5. ASSUME NEW j \in 1 .. n, j < i PROVE keys[j] <= Low(keys, lo, i)
  <2>1. i # 1 /\ i - 1 \in 1 .. n /\ (j = i - 1 \/ j < i - 1)
    BY <1>0, <1>5
  <2>2. keys[i - 1] \in Int
    BY <1>0, <2>1
  <2> QED BY <1>0, <2>1, <2>2 DEF Low
<1>6. ASSUME NEW j \in 1 .. n, j >= i PROVE High(n, keys, hi, i) <= keys[j]
  <2>1. i # n + 1 /\ i \in 1 .. n /\ (j = i \/ i < j)
    BY <1>0, <1>6
  <2> QED BY <1>0, <2>1 DEF High
<1> QED BY <1>2, <1>3, <1>4, <1>5, <1>6

\* The children are different, and their bounds ascend.
LEMMA DistinctKids ==
    ASSUME NEW g, NEW n, NEW keys, NEW ptrs, NEW lo, NEW hi, NEW d,
           InnerArray(n, keys, ptrs, lo, hi, d, g),
           NEW i \in 1 .. n + 1, NEW j \in 1 .. n + 1, i < j
    PROVE  /\ ptrs[i] # ptrs[j]
           /\ g[ptrs[i]].hi <= g[ptrs[j]].lo
<1>0. n \in Nat
  BY DEF InnerArray
<1>1. i \in 1 .. n /\ i # n + 1
  BY <1>0
<1>2. g[ptrs[i]].hi = keys[i] /\ g[ptrs[i]].lo = Low(keys, lo, i) /\ High(n, keys, hi, i) = keys[i]
  BY <1>1 DEF InnerArray, High, Fits
<1>3. g[ptrs[j]].lo = Low(keys, lo, j)
  BY DEF InnerArray, Fits
<1>4. keys[i] <= Low(keys, lo, j) /\ Low(keys, lo, j) \in Int
  BY <1>1, Bounds
<1>5. High(n, keys, hi, i) \in Int /\ Low(keys, lo, i) < High(n, keys, hi, i) /\ Low(keys, lo, i) \in Int
  BY Bounds
<1>6. g[ptrs[i]].lo < g[ptrs[j]].lo /\ g[ptrs[j]].lo \in Int
  BY <1>2, <1>3, <1>4, <1>5
<1> QED BY <1>2, <1>3, <1>4, <1>6

\* The children from i to k are replaced by others with the same outer bounds.
LEMMA SpliceInner ==
    ASSUME NEW g, NEW n, NEW keys, NEW ptrs, NEW lo, NEW hi, NEW d,
           NEW m, NEW keys2, NEW ptrs2, NEW i \in 1 .. n + 1, NEW k \in i .. n + 1,
           InnerArray(n, keys, ptrs, lo, hi, d, g),
           InnerArray(m, keys2, ptrs2, Low(keys, lo, i), High(n, keys, hi, k), d, g),
           NEW keys3, NEW ptrs3,
           IsSplice(keys3, keys, n, keys2, m, i, k - 1),
           IsSplice(ptrs3, ptrs, n + 1, ptrs2, m + 1, i, k)
    PROVE  InnerArray(n + m + i - k, keys3, ptrs3, lo, hi, d, g)
<1> DEFINE L == Low(keys, lo, i)
           H == High(n, keys, hi, k)
           N == n + m + i - k
<1>0. /\ n \in Nat /\ lo \in Int /\ hi \in Int /\ lo < hi /\ d \in Int /\ d >= 1
      /\ \A j \in 1 .. n : keys[j] \in Int /\ lo < keys[j] /\ keys[j] < hi
      /\ \A j, q \in 1 .. n : j < q => keys[j] < keys[q]
      /\ \A j \in 1 .. n + 1 : Fits(g, ptrs[j], Low(keys, lo, j), High(n, keys, hi, j), d)
  BY DEF InnerArray
<1>1. /\ m \in Nat /\ L \in Int /\ H \in Int /\ L < H
      /\ \A j \in 1 .. m : keys2[j] \in Int /\ L < keys2[j] /\ keys2[j] < H
      /\ \A j, q \in 1 .. m : j < q => keys2[j] < keys2[q]
      /\ \A j \in 1 .. m + 1 : Fits(g, ptrs2[j], Low(keys2, L, j), High(m, keys2, H, j), d)
  BY DEF InnerArray
<1>2. lo <= L /\ \A j \in 1 .. n : j < i => keys[j] <= L
  BY Bounds
<1>3. H <= hi /\ \A j \in 1 .. n : j >= k => H <= keys[j]
  <2>1. k \in 1 .. n + 1
    BY <1>0
  <2> QED BY <2>1, Bounds
<1>4. i \in Nat /\ k \in Nat /\ 1 <= i /\ i <= k /\ k <= n + 1 /\ N \in Nat
  BY <1>0, <1>1
<1>5. /\ Len(keys3) = N
      /\ \A j \in 1 .. N : /\ j < i => keys3[j] = keys[j]
                           /\ j >= i /\ j < i + m => keys3[j] = keys2[j - i + 1]
                           /\ j >= i + m => keys3[j] = keys[j - m - i + k]
  <2>1. n + m + i - 1 - (k - 1) = N /\ \A j \in 1 .. N : j - m - i + 1 + (k - 1) = j - m - i + k
    BY <1>0, <1>1, <1>4
  <2> QED BY <2>1 DEF IsSplice
<1>6. /\ Len(ptrs3) = N + 1
      /\ \A j \in 1 .. N + 1 : /\ j < i => ptrs3[j] = ptrs[j]
                               /\ j >= i /\ j < i + m + 1 => ptrs3[j] = ptrs2[j - i + 1]
                               /\ j >= i + m + 1 => ptrs3[j] = ptrs[j - m - i + k]
  <2>1. /\ (n + 1) + (m + 1) + i - 1 - k = N + 1 /\ i + (m + 1) = i + m + 1
        /\ \A j \in 1 .. N + 1 : j - (m + 1) - i + 1 + k = j - m - i + k
    BY <1>0, <1>1, <1>4
  <2> QED BY <2>1 DEF IsSplice
<1> HIDE DEF L, H, N
<1>7. ASSUME NEW j \in 1 .. N
      PROVE  /\ keys3[j] \in Int /\ lo < keys3[j] /\ keys3[j] < hi
             /\ j < i => j \in 1 .. n /\ keys3[j] = keys[j] /\ keys3[j] <= L
             /\ j >= i /\ j < i + m => j - i + 1 \in 1 .. m /\ keys3[j] = keys2[j - i + 1]
                                       /\ L < keys3[j] /\ keys3[j] < H
             /\ j >= i + m => j - m - i + k \in 1 .. n /\ keys3[j] = keys[j - m - i + k]
                              /\ H <= keys3[j]
  <2>1. /\ j \in Int
        /\ j < i => j \in 1 .. n
        /\ j >= i /\ j < i + m => j - i + 1 \in 1 .. m
        /\ j >= i + m => j - m - i + k \in 1 .. n /\ j - m - i + k >= k
    BY <1>0, <1>1, <1>4 DEF N
  <2>2. CASE j < i
    <3>1. keys3[j] = keys[j] /\ keys[j] \in Int /\ lo < keys[j] /\ keys[j] < hi /\ keys[j] <= L
      BY <1>0, <1>2, <1>5, <2>1, <2>2
    <3> QED BY <1>1, <1>4, <2>1, <2>2, <3>1
  <2>3. CASE j >= i /\ j < i + m
    <3>1. keys3[j] = keys2[j - i + 1] /\ keys2[j - i + 1] \in Int /\ L < keys2[j - i + 1] /\ keys2[j - i + 1] < H
      BY <1>1, <1>5, <2>1, <2>3
    <3>2. lo <= L /\ H <= hi
      BY <1>2, <1>3
    <3> QED BY <1>0, <1>1, <1>4, <2>1, <2>3, <3>1, <3>2
  <2>4. CASE j >= i + m
    <3> DEFINE q == j - m - i + k
    <3>1. keys3[j] = keys[q] /\ keys[q] \in Int /\ lo < keys[q] /\ keys[q] < hi /\ H <= keys[q]
      BY <1>0, <1>3, <1>5, <2>1, <2>4
    <3> QED BY <1>1, <1>4, <2>1, <2>4, <3>1
  <2>5. j < i \/ (j >= i /\ j < i + m) \/ j >= i + m
    BY <1>1, <1>4
  <2> QED BY <2>2, <2>3, <2>4, <2>5
<1>8. ASSUME NEW j \in 1 .. N, NEW q \in 1 .. N, j < q PROVE keys3[j] < keys3[q]
  <2>1. /\ j \in Int /\ q \in Int
        /\ j - i + 1 < q - i + 1 /\ j - m - i + k < q - m - i + k
        /\ q < i => j < i
        /\ q < i + m => j < i + m
    BY <1>1, <1>4, <1>8
  <2>2. CASE q < i
    BY <1>0, <1>7, <1>8, <2>1, <2>2
  <2>3. CASE j < i /\ q >= i /\ q < i + m
    <3>1. keys3[j] \in Int /\ keys3[q] \in Int /\ keys3[j] <= L /\ L < keys3[q]
      BY <1>7, <2>3
    <3> QED BY <1>1, <3>1
  <2>4. CASE j >= i /\ q < i + m
    <3>1. q >= i /\ j < i + m
      BY <1>1, <1>4, <1>8, <2>1, <2>4
    <3>2. j - i + 1 \in 1 .. m /\ keys3[j] = keys2[j - i + 1] /\ q - i + 1 \in 1 .. m /\ keys3[q] = keys2[q - i + 1]
      BY <1>7, <2>4, <3>1
    <3>3. keys2[j - i + 1] < keys2[q - i + 1]
      BY <1>1, <2>1, <3>2
    <3> QED BY <3>2, <3>3
  <2>5. CASE j < i + m /\ q >= i + m
    <3>1. keys3[j] \in Int /\ keys3[q] \in Int /\ keys3[j] < H /\ H <= keys3[q]
      BY <1>1, <1>4, <1>7, <2>1, <2>5
    <3> QED BY <1>1, <3>1
  <2>6. CASE j >= i + m
    <3>1. q >= i + m
      BY <1>1, <1>4, <1>8, <2>6
    <3>2. j - m - i + k \in 1 .. n /\ keys3[j] = keys[j - m - i + k] /\ q - m - i + k \in 1 .. n /\ keys3[q] = keys[q - m - i + k]
      BY <1>7, <2>6, <3>1
    <3>3. keys[j - m - i + k] < keys[q - m - i + k]
      BY <1>0, <2>1, <3>2
    <3> QED BY <3>2, <3>3
  <2>7. q < i \/ (j < i /\ q >= i /\ q < i + m) \/ (j >= i /\ q < i + m) \/ (j < i + m /\ q >= i + m) \/ j >= i + m
    BY <1>1, <1>4, <2>1
  <2> QED BY <2>2, <2>3, <2>4, <2>5, <2>6, <2>7
<1>9. ASSUME NEW j \in 1 .. N + 1
      PROVE  Fits(g, ptrs3[j], Low(keys3, lo, j), High(N, keys3, hi, j), d)
  <2>0. /\ j \in Int
        /\ j # 1 => j - 1 \in 1 .. N
        /\ j # N + 1 => j \in 1 .. N
    BY <1>4
  <2>1. CASE j < i
    <3>1. j \in 1 .. n + 1 /\ j # n + 1 /\ j # N + 1 /\ (j # 1 => j - 1 < i) /\ j \in 1 .. N
      BY <1>0, <1>1, <1>4, <2>0, <2>1 DEF N
    <3>2. Low(keys3, lo, j) = Low(keys, lo, j) /\ High(N, keys3, hi, j) = High(n, keys, hi, j)
      BY <1>5, <2>0, <2>1, <3>1 DEF Low, High
    <3>3. ptrs3[j] = ptrs[j]
      BY <1>6, <2>1
    <3> QED BY <1>0, <3>1, <3>2, <3>3
  <2>2. CASE j >= i /\ j < i + m + 1
    <3> DEFINE q == j - i + 1
    <3>1. /\ q \in 1 .. m + 1 /\ (q = 1 <=> j = i) /\ (q = m + 1 <=> j = i + m)
          /\ q # 1 => j # 1 /\ j - 1 >= i /\ j - 1 < i + m /\ (j - 1) - i + 1 = q - 1
          /\ q = 1 /\ j # 1 => j - 1 < i /\ i - 1 = j - 1 /\ i # 1
          /\ q # m + 1 => j # N + 1 /\ j < i + m
          /\ q = m + 1 => (j = N + 1 <=> k = n + 1) /\ j >= i + m /\ j - m - i + k = k
      BY <1>0, <1>1, <1>4, <2>0, <2>2 DEF N
    <3>2. Low(keys3, lo, j) = Low(keys2, L, q)
      <4>1. CASE q # 1
        <5>1. keys3[j - 1] = keys2[(j - 1) - i + 1]
          BY <1>5, <2>0, <3>1, <4>1
        <5> QED BY <3>1, <4>1, <5>1 DEF Low
      <4>2. CASE q = 1 /\ j = 1
        BY <3>1, <4>2 DEF Low, L
      <4>3. CASE q = 1 /\ j # 1
        <5>1. keys3[j - 1] = keys[j - 1]
          BY <1>5, <2>0, <3>1, <4>3
        <5> QED BY <3>1, <4>3, <5>1 DEF Low, L
      <4> QED BY <4>1, <4>2, <4>3
    <3>3. High(N, keys3, hi, j) = High(m, keys2, H, q)
      <4>1. CASE q # m + 1
        <5>1. keys3[j] = keys2[j - i + 1]
          BY <1>5, <2>0, <2>2, <3>1, <4>1
        <5> QED BY <3>1, <4>1, <5>1 DEF High
      <4>2. CASE q = m + 1 /\ j = N + 1
        BY <3>1, <4>2 DEF High, H
      <4>3. CASE q = m + 1 /\ j # N + 1
        <5>1. keys3[j] = keys[k]
          BY <1>5, <2>0, <3>1, <4>3
        <5> QED BY <3>1, <4>3, <5>1 DEF High, H
      <4> QED BY <4>1, <4>2, <4>3
    <3>4. ptrs3[j] = ptrs2[q]
      BY <1>6, <2>2
    <3> HIDE DEF q
    <3> QED BY <1>1, <3>1, <3>2, <3>3, <3>4
  <2>3. CASE j >= i + m + 1
    <3> DEFINE q == j - m - i + k
    <3>1. /\ q \in 1 .. n + 1 /\ q # 1 /\ j # 1 /\ (q = n + 1 <=> j = N + 1)
          /\ j - 1 >= i + m /\ j >= i + m /\ (j - 1) - m - i + k = q - 1
      BY <1>0, <1>1, <1>4, <2>0, <2>3 DEF N
    <3>2. keys3[j - 1] = keys[(j - 1) - m - i + k] /\ (j # N + 1 => keys3[j] = keys[q])
      BY <1>5, <2>0, <3>1
    <3>3. ptrs3[j] = ptrs[q]
      BY <1>6, <2>3
    <3> HIDE DEF q
    <3>4. Low(keys3, lo, j) = Low(keys, lo, q) /\ High(N, keys3, hi, j) = High(n, keys, hi, q)
      BY <3>1, <3>2 DEF Low, High
    <3> QED BY <1>0, <3>1, <3>3, <3>4
  <2>4. j < i \/ (j >= i /\ j < i + m + 1) \/ j >= i + m + 1
    BY <1>1, <1>4, <2>0
  <2> QED BY <2>1, <2>2, <2>3, <2>4
<1>10. InnerArray(N, keys3, ptrs3, lo, hi, d, g)
  BY <1>0, <1>4, <1>5, <1>6, <1>7, <1>8, <1>9 DEF InnerArray
<1> QED BY <1>10 DEF N
\* z is the part of s from i to k.
IsPart(z, s, i, k) == Len(z) = k - i + 1 /\ \A j \in 1 .. k - i + 1 : z[j] = s[i + j - 1]

\* The children from i to k, with the keys between them.
LEMMA PartInner ==
    ASSUME NEW g, NEW n, NEW keys, NEW ptrs, NEW lo, NEW hi, NEW d,
           InnerArray(n, keys, ptrs, lo, hi, d, g),
           NEW i \in 1 .. n + 1, NEW k \in i .. n + 1,
           NEW keys2, NEW ptrs2, IsPart(keys2, keys, i, k - 1), IsPart(ptrs2, ptrs, i, k)
    PROVE  InnerArray(k - i, keys2, ptrs2, Low(keys, lo, i), High(n, keys, hi, k), d, g)
<1> DEFINE L == Low(keys, lo, i)
           H == High(n, keys, hi, k)
           m == k - i
<1>0. /\ n \in Nat /\ lo \in Int /\ hi \in Int /\ lo < hi /\ d \in Int /\ d >= 1
      /\ \A j \in 1 .. n : keys[j] \in Int /\ lo < keys[j] /\ keys[j] < hi
      /\ \A j, q \in 1 .. n : j < q => keys[j] < keys[q]
      /\ \A j \in 1 .. n + 1 : Fits(g, ptrs[j], Low(keys, lo, j), High(n, keys, hi, j), d)
  BY DEF InnerArray
<1>1. i \in Nat /\ k \in Nat /\ 1 <= i /\ i <= k /\ k <= n + 1 /\ m \in Nat /\ k \in 1 .. n + 1
  BY <1>0
<1>2. L \in Int /\ H \in Int /\ L < H
  <2>1. L \in Int /\ L < High(n, keys, hi, i) /\ High(n, keys, hi, i) \in Int
    BY Bounds
  <2>2. H \in Int /\ Low(keys, lo, k) < H /\ Low(keys, lo, k) \in Int
    BY <1>1, Bounds
  <2>3. CASE i = k
    BY <2>1, <2>3
  <2>4. CASE i # k
    <3>1. i \in 1 .. n /\ i < k /\ i # n + 1
      BY <1>0, <1>1, <2>4
    <3>2. keys[i] <= Low(keys, lo, k)
      BY <1>1, <3>1, Bounds
    <3>3. High(n, keys, hi, i) = keys[i]
      BY <3>1 DEF High
    <3> QED BY <2>1, <2>2, <3>2, <3>3
  <2> QED BY <2>3, <2>4
<1>3. Len(keys2) = m /\ \A j \in 1 .. m : keys2[j] = keys[i + j - 1]
  <2>1. (k - 1) - i + 1 = m
    BY <1>0, <1>1
  <2> QED BY <2>1 DEF IsPart
<1>4. Len(ptrs2) = m + 1 /\ \A j \in 1 .. m + 1 : ptrs2[j] = ptrs[i + j - 1]
  <2>1. k - i + 1 = m + 1
    BY <1>0, <1>1
  <2> QED BY <2>1 DEF IsPart
<1>5. ASSUME NEW j \in 1 .. m PROVE keys2[j] \in Int /\ L < keys2[j] /\ keys2[j] < H
  <2> DEFINE q == i + j - 1
  <2>1. q \in 1 .. n /\ q >= i /\ q < k /\ q \in Int /\ (k = n + 1 \/ k \in 1 .. n) /\ (i = 1 \/ (i - 1 \in 1 .. n /\ i - 1 < q))
    BY <1>0, <1>1
  <2>2. keys2[j] = keys[q]
    BY <1>3
  <2> HIDE DEF q
  <2>3. keys[q] \in Int /\ lo < keys[q] /\ keys[q] < hi
    BY <1>0, <2>1
  <2>4. L < keys[q]
    BY <1>0, <2>1, <2>3 DEF L, Low
  <2>5. keys[q] < H
    BY <1>0, <2>1, <2>3 DEF H, High
  <2> QED BY <2>2, <2>3, <2>4, <2>5
<1>6. ASSUME NEW j \in 1 .. m, NEW q \in 1 .. m, j < q PROVE keys2[j] < keys2[q]
  <2>1. i + j - 1 \in 1 .. n /\ i + q - 1 \in 1 .. n /\ i + j - 1 < i + q - 1
    BY <1>0, <1>1, <1>6
  <2> QED BY <1>0, <1>3, <2>1
<1>7. ASSUME NEW j \in 1 .. m + 1
      PROVE  Fits(g, ptrs2[j], Low(keys2, L, j), High(m, keys2, H, j), d)
  <2> DEFINE q == i + j - 1
  <2>1. /\ q \in 1 .. n + 1
        /\ j = 1 => q = i
        /\ j # 1 => q # 1 /\ j - 1 \in 1 .. m /\ i + (j - 1) - 1 = q - 1
        /\ j = m + 1 => q = k
        /\ j # m + 1 => q # n + 1 /\ j \in 1 .. m
    BY <1>0, <1>1
  <2>2. ptrs2[j] = ptrs[q]
    BY <1>4
  <2>3. j # m + 1 => keys2[j] = keys[q]
    BY <1>3, <2>1
  <2>4. j # 1 => keys2[j - 1] = keys[q - 1]
    BY <1>3, <2>1
  <2> HIDE DEF q
  <2>5. Low(keys2, L, j) = Low(keys, lo, q)
    BY <2>1, <2>4 DEF L, Low
  <2>6. High(m, keys2, H, j) = High(n, keys, hi, q)
    BY <2>1, <2>3 DEF H, High
  <2> QED BY <1>0, <2>1, <2>2, <2>5, <2>6
<1> HIDE DEF L, H, m
<1>8. InnerArray(m, keys2, ptrs2, L, H, d, g)
  BY <1>0, <1>1, <1>2, <1>3, <1>4, <1>5, <1>6, <1>7 DEF InnerArray
<1> QED BY <1>8 DEF L, H, m

\* z is s, of length n, followed by t, of length m.
IsJoin(z, s, n, t, m) ==
    /\ Len(z) = n + m
    /\ \A j \in 1 .. n + m : /\ j <= n => z[j] = s[j]
                             /\ j > n => z[j] = t[j - n]

\* The children of two neighbours, with the key that separates them.
LEMMA JoinInner ==
    ASSUME NEW g, NEW n, NEW keys, NEW ptrs, NEW lo, NEW mid, NEW d,
           NEW m, NEW keys2, NEW ptrs2, NEW hi,
           InnerArray(n, keys, ptrs, lo, mid, d, g),
           InnerArray(m, keys2, ptrs2, mid, hi, d, g),
           NEW keys3, NEW ptrs3, NEW keys4,
           IsJoin(keys4, keys, n, <<mid>>, 1), IsJoin(keys3, keys4, n + 1, keys2, m),
           IsJoin(ptrs3, ptrs, n + 1, ptrs2, m + 1)
    PROVE  InnerArray(n + 1 + m, keys3, ptrs3, lo, hi, d, g)
<1> DEFINE N == n + 1 + m
<1>0. /\ n \in Nat /\ lo \in Int /\ mid \in Int /\ lo < mid /\ d \in Int /\ d >= 1
      /\ \A j \in 1 .. n : keys[j] \in Int /\ lo < keys[j] /\ keys[j] < mid
      /\ \A j, q \in 1 .. n : j < q => keys[j] < keys[q]
      /\ \A j \in 1 .. n + 1 : Fits(g, ptrs[j], Low(keys, lo, j), High(n, keys, mid, j), d)
  BY DEF InnerArray
<1>1. /\ m \in Nat /\ hi \in Int /\ mid < hi
      /\ \A j \in 1 .. m : keys2[j] \in Int /\ mid < keys2[j] /\ keys2[j] < hi
      /\ \A j, q \in 1 .. m : j < q => keys2[j] < keys2[q]
      /\ \A j \in 1 .. m + 1 : Fits(g, ptrs2[j], Low(keys2, mid, j), High(m, keys2, hi, j), d)
  BY DEF InnerArray
<1>2. N \in Nat /\ n + 1 \in Nat
  BY <1>0, <1>1
<1>3. /\ Len(keys3) = N
      /\ \A j \in 1 .. N : /\ j <= n => keys3[j] = keys[j]
                           /\ j = n + 1 => keys3[j] = mid
                           /\ j > n + 1 => keys3[j] = keys2[j - (n + 1)]
  <2>1. /\ Len(keys3) = N
        /\ \A j \in 1 .. N : /\ j <= n + 1 => keys3[j] = keys4[j]
                             /\ j > n + 1 => keys3[j] = keys2[j - (n + 1)]
    BY DEF IsJoin
  <2>2. \A j \in 1 .. n + 1 : /\ j <= n => keys4[j] = keys[j]
                              /\ j > n => keys4[j] = <<mid>>[j - n]
    BY DEF IsJoin
  <2>3. (n + 1) - n = 1 /\ n + 1 > n /\ n + 1 \in 1 .. n + 1 /\ n + 1 <= n + 1
    BY <1>0
  <2>4. keys4[n + 1] = mid
    BY <2>2, <2>3
  <2>5. \A j \in 1 .. N : (j <= n => j \in 1 .. n + 1 /\ j <= n + 1)
    BY <1>0
  <2> QED BY <2>1, <2>2, <2>3, <2>4, <2>5
<1>4. /\ Len(ptrs3) = N + 1
      /\ \A j \in 1 .. N + 1 : /\ j <= n + 1 => ptrs3[j] = ptrs[j]
                               /\ j > n + 1 => ptrs3[j] = ptrs2[j - (n + 1)]
  <2>1. (n + 1) + (m + 1) = N + 1
    BY <1>0, <1>1
  <2> QED BY <2>1 DEF IsJoin
<1> HIDE DEF N
<1>5. ASSUME NEW j \in 1 .. N
      PROVE  /\ keys3[j] \in Int /\ lo < keys3[j] /\ keys3[j] < hi
             /\ j <= n => j \in 1 .. n /\ keys3[j] = keys[j] /\ keys3[j] < mid
             /\ j = n + 1 => keys3[j] = mid
             /\ j > n + 1 => j - (n + 1) \in 1 .. m /\ keys3[j] = keys2[j - (n + 1)] /\ mid < keys3[j]
  <2>1. (j <= n => j \in 1 .. n) /\ (j > n + 1 => j - (n + 1) \in 1 .. m)
    BY <1>0, <1>1 DEF N
  <2>2. CASE j <= n
    <3>1. keys3[j] = keys[j] /\ keys[j] \in Int /\ lo < keys[j] /\ keys[j] < mid
      BY <1>0, <1>3, <2>1, <2>2
    <3> QED BY <1>0, <1>1, <2>1, <2>2, <3>1
  <2>3. CASE j = n + 1
    BY <1>0, <1>1, <1>3, <2>3
  <2>4. CASE j > n + 1
    <3>1. keys3[j] = keys2[j - (n + 1)] /\ keys2[j - (n + 1)] \in Int /\ mid < keys2[j - (n + 1)] /\ keys2[j - (n + 1)] < hi
      BY <1>1, <1>3, <2>1, <2>4
    <3> QED BY <1>0, <1>1, <2>1, <2>4, <3>1
  <2>5. j <= n \/ j = n + 1 \/ j > n + 1
    BY <1>0
  <2> QED BY <2>2, <2>3, <2>4, <2>5
<1>6. ASSUME NEW j \in 1 .. N, NEW q \in 1 .. N, j < q PROVE keys3[j] < keys3[q]
  <2>1. j \in Int /\ q \in Int /\ j - (n + 1) < q - (n + 1)
    BY <1>0, <1>6
  <2>2. CASE q <= n
    <3>1. j <= n
      BY <1>0, <1>6, <2>1, <2>2
    <3> QED BY <1>0, <1>5, <1>6, <2>2, <3>1
  <2>3. CASE j > n + 1
    <3>1. q > n + 1
      BY <1>0, <1>6, <2>1, <2>3
    <3>2. /\ j - (n + 1) \in 1 .. m /\ keys3[j] = keys2[j - (n + 1)]
          /\ q - (n + 1) \in 1 .. m /\ keys3[q] = keys2[q - (n + 1)]
      BY <1>5, <2>3, <3>1
    <3>3. keys2[j - (n + 1)] < keys2[q - (n + 1)]
      BY <1>1, <2>1, <3>2
    <3> QED BY <3>2, <3>3
  <2>4. CASE j <= n + 1 /\ q > n
    <3>0. \/ j <= n /\ q = n + 1
          \/ j <= n /\ q > n + 1
          \/ j = n + 1 /\ q > n + 1
      BY <1>0, <1>6, <2>1, <2>4
    <3>1. keys3[j] \in Int /\ keys3[q] \in Int
      BY <1>5
    <3>2. j <= n => keys3[j] < mid
      BY <1>5
    <3>3. q > n + 1 => mid < keys3[q]
      BY <1>5
    <3>4. (j = n + 1 => keys3[j] = mid) /\ (q = n + 1 => keys3[q] = mid)
      BY <1>5
    <3> QED BY <1>0, <3>0, <3>1, <3>2, <3>3, <3>4
  <2>5. q <= n \/ j > n + 1 \/ (j <= n + 1 /\ q > n)
    BY <1>0, <2>1
  <2> QED BY <2>2, <2>3, <2>4, <2>5
<1>7. ASSUME NEW j \in 1 .. N + 1
      PROVE  Fits(g, ptrs3[j], Low(keys3, lo, j), High(N, keys3, hi, j), d)
  <2>1. CASE j <= n + 1
    <3>1. /\ j \in 1 .. n + 1 /\ j # N + 1 /\ j \in 1 .. N
          /\ j # 1 => j - 1 \in 1 .. N /\ j - 1 <= n
          /\ j # n + 1 => j <= n
      BY <1>0, <1>1, <2>1 DEF N
    <3>2. Low(keys3, lo, j) = Low(keys, lo, j)
      BY <1>3, <3>1 DEF Low
    <3>3. High(N, keys3, hi, j) = High(n, keys, mid, j)
      BY <1>3, <3>1 DEF High
    <3> QED BY <1>0, <1>4, <2>1, <3>1, <3>2, <3>3
  <2>2. CASE j > n + 1
    <3> DEFINE q == j - (n + 1)
    <3>1. /\ q \in 1 .. m + 1 /\ j # 1 /\ (q = m + 1 <=> j = N + 1) /\ j - 1 \in 1 .. N
          /\ q = 1 => j - 1 = n + 1
          /\ q # 1 => j - 1 > n + 1 /\ (j - 1) - (n + 1) = q - 1
          /\ j # N + 1 => j \in 1 .. N
      BY <1>0, <1>1, <2>2 DEF N
    <3>2. Low(keys3, lo, j) = Low(keys2, mid, q)
      <4>1. CASE q = 1
        BY <1>3, <3>1, <4>1 DEF Low
      <4>2. CASE q # 1
        <5>1. keys3[j - 1] = keys2[(j - 1) - (n + 1)]
          BY <1>3, <3>1, <4>2
        <5> QED BY <3>1, <4>2, <5>1 DEF Low
      <4> QED BY <4>1, <4>2
    <3>3. High(N, keys3, hi, j) = High(m, keys2, hi, q)
      BY <1>3, <2>2, <3>1 DEF High
    <3>4. ptrs3[j] = ptrs2[q]
      BY <1>4, <2>2
    <3> HIDE DEF q
    <3> QED BY <1>1, <3>1, <3>2, <3>3, <3>4
  <2>3. j <= n + 1 \/ j > n + 1
    BY <1>0
  <2> QED BY <2>1, <2>2, <2>3
<1>8. lo < hi
  BY <1>0, <1>1
<1>9. InnerArray(N, keys3, ptrs3, lo, hi, d, g)
  BY <1>0, <1>1, <1>2, <1>3, <1>4, <1>5, <1>6, <1>7, <1>8 DEF InnerArray
<1> QED BY <1>9 DEF N
\* The pairs from i to k are replaced by others.
LEMMA SpliceLeaf ==
    ASSUME NEW n, NEW keys, NEW ptrs, NEW lo, NEW hi, NEW m, NEW keys2, NEW ptrs2,
           LeafArray(n, keys, ptrs, lo, hi), LeafArray(m, keys2, ptrs2, lo, hi),
           NEW i \in 1 .. n + 1, NEW k \in i - 1 .. n,
           \A j \in 1 .. n, q \in 1 .. m : /\ j < i => keys[j] < keys2[q]
                                           /\ j > k => keys2[q] < keys[j],
           NEW keys3, NEW ptrs3,
           IsSplice(keys3, keys, n, keys2, m, i, k), IsSplice(ptrs3, ptrs, n, ptrs2, m, i, k)
    PROVE  LeafArray(n + m + i - 1 - k, keys3, ptrs3, lo, hi)
<1> DEFINE N == n + m + i - 1 - k
<1>0. /\ n \in Nat /\ lo \in Int /\ hi \in Int /\ lo < hi
      /\ \A j \in 1 .. n : keys[j] \in Int /\ lo <= keys[j] /\ keys[j] < hi
      /\ \A j, q \in 1 .. n : j < q => keys[j] < keys[q]
      /\ \A j \in 1 .. n : ptrs[j] \in Value
  BY DEF LeafArray
<1>1. /\ m \in Nat
      /\ \A j \in 1 .. m : keys2[j] \in Int /\ lo <= keys2[j] /\ keys2[j] < hi
      /\ \A j, q \in 1 .. m : j < q => keys2[j] < keys2[q]
      /\ \A j \in 1 .. m : ptrs2[j] \in Value
  BY DEF LeafArray
<1>2. i \in Nat /\ k \in Nat /\ 1 <= i /\ i - 1 <= k /\ k <= n /\ N \in Nat
  BY <1>0, <1>1
<1>3. /\ Len(keys3) = N /\ Len(ptrs3) = N
      /\ \A j \in 1 .. N : /\ j < i => keys3[j] = keys[j] /\ ptrs3[j] = ptrs[j]
                           /\ j >= i /\ j < i + m => keys3[j] = keys2[j - i + 1] /\ ptrs3[j] = ptrs2[j - i + 1]
                           /\ j >= i + m => keys3[j] = keys[j - m - i + 1 + k] /\ ptrs3[j] = ptrs[j - m - i + 1 + k]
  BY DEF IsSplice
<1> HIDE DEF N
<1>4. ASSUME NEW j \in 1 .. N
      PROVE  /\ keys3[j] \in Int /\ lo <= keys3[j] /\ keys3[j] < hi /\ ptrs3[j] \in Value
             /\ j < i => j \in 1 .. n /\ keys3[j] = keys[j]
             /\ j >= i /\ j < i + m => j - i + 1 \in 1 .. m /\ keys3[j] = keys2[j - i + 1]
             /\ j >= i + m => j - m - i + 1 + k \in 1 .. n /\ keys3[j] = keys[j - m - i + 1 + k]
                              /\ j - m - i + 1 + k > k
  <2>1. /\ j \in Int
        /\ j < i => j \in 1 .. n
        /\ j >= i /\ j < i + m => j - i + 1 \in 1 .. m
        /\ j >= i + m => j - m - i + 1 + k \in 1 .. n /\ j - m - i + 1 + k > k
    BY <1>0, <1>1, <1>2 DEF N
  <2>2. CASE j < i
    <3>1. keys3[j] = keys[j] /\ ptrs3[j] = ptrs[j] /\ j \in 1 .. n
      BY <1>3, <2>1, <2>2
    <3> QED BY <1>0, <1>1, <1>2, <2>1, <2>2, <3>1
  <2>3. CASE j >= i /\ j < i + m
    <3>1. keys3[j] = keys2[j - i + 1] /\ ptrs3[j] = ptrs2[j - i + 1] /\ j - i + 1 \in 1 .. m
      BY <1>3, <2>1, <2>3
    <3> QED BY <1>1, <1>2, <2>1, <2>3, <3>1
  <2>4. CASE j >= i + m
    <3> DEFINE q == j - m - i + 1 + k
    <3>1. keys3[j] = keys[q] /\ ptrs3[j] = ptrs[q] /\ q \in 1 .. n
      BY <1>3, <2>1, <2>4
    <3> QED BY <1>0, <1>1, <1>2, <2>1, <2>4, <3>1
  <2>5. j < i \/ (j >= i /\ j < i + m) \/ j >= i + m
    BY <1>1, <1>2
  <2> QED BY <2>2, <2>3, <2>4, <2>5
<1>5. ASSUME NEW j \in 1 .. N, NEW q \in 1 .. N, j < q PROVE keys3[j] < keys3[q]
  <2> DEFINE j2 == j - i + 1
             j3 == j - m - i + 1 + k
             q2 == q - i + 1
             q3 == q - m - i + 1 + k
  <2>1. /\ j \in Int /\ q \in Int /\ j2 < q2 /\ j3 < q3
        /\ q < i => j < i
        /\ q < i + m => j < i + m
        /\ j >= i => q >= i
        /\ j >= i + m => q >= i + m
        /\ i <= k + 1
        /\ j < i /\ q >= i + m => j < q3
    BY <1>1, <1>2, <1>5
  <2>2. /\ j < i => j \in 1 .. n /\ keys3[j] = keys[j]
        /\ j >= i /\ j < i + m => j2 \in 1 .. m /\ keys3[j] = keys2[j2]
        /\ j >= i + m => j3 \in 1 .. n /\ keys3[j] = keys[j3] /\ j3 > k
    BY <1>4
  <2>3. /\ q < i => q \in 1 .. n /\ keys3[q] = keys[q]
        /\ q >= i /\ q < i + m => q2 \in 1 .. m /\ keys3[q] = keys2[q2]
        /\ q >= i + m => q3 \in 1 .. n /\ keys3[q] = keys[q3] /\ q3 > k
    BY <1>4
  <2> HIDE DEF j2, j3, q2, q3
  <2>4. CASE q < i
    BY <1>0, <1>5, <2>1, <2>2, <2>3, <2>4
  <2>5. CASE j < i /\ q >= i /\ q < i + m
    BY <2>2, <2>3, <2>5
  <2>6. CASE j >= i /\ q < i + m
    BY <1>1, <2>1, <2>2, <2>3, <2>6
  <2>7. CASE j < i /\ q >= i + m
    BY <1>0, <2>1, <2>2, <2>3, <2>7
  <2>8. CASE j >= i /\ j < i + m /\ q >= i + m
    BY <2>2, <2>3, <2>8
  <2>9. CASE j >= i + m
    BY <1>0, <2>1, <2>2, <2>3, <2>9
  <2>10. \/ q < i
         \/ j < i /\ q >= i /\ q < i + m
         \/ j >= i /\ q < i + m
         \/ j < i /\ q >= i + m
         \/ j >= i /\ j < i + m /\ q >= i + m
         \/ j >= i + m
    BY <1>1, <1>2, <2>1
  <2> QED BY <2>4, <2>5, <2>6, <2>7, <2>8, <2>9, <2>10
<1>6. LeafArray(N, keys3, ptrs3, lo, hi)
  BY <1>0, <1>2, <1>3, <1>4, <1>5 DEF LeafArray
<1> QED BY <1>6 DEF N

\* The pairs from i to k.
LEMMA PartLeaf ==
    ASSUME NEW n, NEW keys, NEW ptrs, NEW lo, NEW hi, LeafArray(n, keys, ptrs, lo, hi),
           NEW i \in 1 .. n, NEW k \in i .. n, NEW lo2 \in Int, NEW hi2 \in Int,
           lo2 <= keys[i], keys[k] < hi2,
           NEW keys2, NEW ptrs2, IsPart(keys2, keys, i, k), IsPart(ptrs2, ptrs, i, k)
    PROVE  LeafArray(k - i + 1, keys2, ptrs2, lo2, hi2)
<1> DEFINE m == k - i + 1
<1>0. /\ n \in Nat
      /\ \A j \in 1 .. n : keys[j] \in Int
      /\ \A j, q \in 1 .. n : j < q => keys[j] < keys[q]
      /\ \A j \in 1 .. n : ptrs[j] \in Value
  BY DEF LeafArray
<1>1. i \in Nat /\ k \in Nat /\ 1 <= i /\ i <= k /\ k <= n /\ m \in Nat /\ k \in 1 .. n
  BY <1>0
<1>2. /\ Len(keys2) = m /\ Len(ptrs2) = m
      /\ \A j \in 1 .. m : keys2[j] = keys[i + j - 1] /\ ptrs2[j] = ptrs[i + j - 1]
  BY DEF IsPart
<1>3. lo2 < hi2
  <2>1. keys[i] \in Int /\ keys[k] \in Int /\ (i = k \/ keys[i] < keys[k])
    BY <1>0, <1>1
  <2> QED BY <2>1
<1>4. ASSUME NEW j \in 1 .. m
      PROVE  keys2[j] \in Int /\ lo2 <= keys2[j] /\ keys2[j] < hi2 /\ ptrs2[j] \in Value
  <2> DEFINE q == i + j - 1
  <2>1. q \in 1 .. n /\ (q = i \/ i < q) /\ (q = k \/ q < k)
    BY <1>0, <1>1
  <2>2. keys2[j] = keys[q] /\ ptrs2[j] = ptrs[q]
    BY <1>2
  <2> HIDE DEF q
  <2>3. keys[q] \in Int /\ keys[i] \in Int /\ keys[k] \in Int /\ (q = i \/ keys[i] < keys[q]) /\ (q = k \/ keys[q] < keys[k])
    BY <1>0, <1>1, <2>1
  <2>4. lo2 <= keys[q] /\ keys[q] < hi2
    BY <2>3
  <2> QED BY <1>0, <2>1, <2>2, <2>3, <2>4
<1>5. ASSUME NEW j \in 1 .. m, NEW q \in 1 .. m, j < q PROVE keys2[j] < keys2[q]
  <2>1. i + j - 1 \in 1 .. n /\ i + q - 1 \in 1 .. n /\ i + j - 1 < i + q - 1
    BY <1>0, <1>1, <1>5
  <2> QED BY <1>0, <1>2, <2>1
<1> HIDE DEF m
<1>6. LeafArray(m, keys2, ptrs2, lo2, hi2)
  BY <1>1, <1>2, <1>3, <1>4, <1>5 DEF LeafArray
<1> QED BY <1>6 DEF m

\* The pairs of two neighbours.
LEMMA JoinLeaf ==
    ASSUME NEW n, NEW keys, NEW ptrs, NEW lo, NEW mid, NEW m, NEW keys2, NEW ptrs2, NEW hi,
           LeafArray(n, keys, ptrs, lo, mid), LeafArray(m, keys2, ptrs2, mid, hi),
           NEW keys3, NEW ptrs3,
           IsJoin(keys3, keys, n, keys2, m), IsJoin(ptrs3, ptrs, n, ptrs2, m)
    PROVE  LeafArray(n + m, keys3, ptrs3, lo, hi)
<1>0. /\ n \in Nat /\ lo \in Int /\ mid \in Int /\ lo < mid
      /\ \A j \in 1 .. n : keys[j] \in Int /\ lo <= keys[j] /\ keys[j] < mid
      /\ \A j, q \in 1 .. n : j < q => keys[j] < keys[q]
      /\ \A j \in 1 .. n : ptrs[j] \in Value
  BY DEF LeafArray
<1>1. /\ m \in Nat /\ hi \in Int /\ mid < hi
      /\ \A j \in 1 .. m : keys2[j] \in Int /\ mid <= keys2[j] /\ keys2[j] < hi
      /\ \A j, q \in 1 .. m : j < q => keys2[j] < keys2[q]
      /\ \A j \in 1 .. m : ptrs2[j] \in Value
  BY DEF LeafArray
<1> DEFINE N == n + m
<1>2. N \in Nat /\ lo < hi
  BY <1>0, <1>1
<1>3. /\ Len(keys3) = N /\ Len(ptrs3) = N
      /\ \A j \in 1 .. N : /\ j <= n => keys3[j] = keys[j] /\ ptrs3[j] = ptrs[j]
                           /\ j > n => keys3[j] = keys2[j - n] /\ ptrs3[j] = ptrs2[j - n]
  BY DEF IsJoin
<1> HIDE DEF N
<1>4. ASSUME NEW j \in 1 .. N
      PROVE  /\ keys3[j] \in Int /\ lo <= keys3[j] /\ keys3[j] < hi /\ ptrs3[j] \in Value
             /\ j <= n => j \in 1 .. n /\ keys3[j] = keys[j] /\ keys3[j] < mid
             /\ j > n => j - n \in 1 .. m /\ keys3[j] = keys2[j - n] /\ mid <= keys3[j]
  <2>1. (j <= n => j \in 1 .. n) /\ (j > n => j - n \in 1 .. m) /\ (j <= n \/ j > n)
    BY <1>0, <1>1 DEF N
  <2>2. CASE j <= n
    <3>1. keys3[j] = keys[j] /\ ptrs3[j] = ptrs[j] /\ keys[j] \in Int /\ lo <= keys[j] /\ keys[j] < mid /\ ptrs[j] \in Value
      BY <1>0, <1>3, <2>1, <2>2
    <3> QED BY <1>0, <1>1, <2>1, <2>2, <3>1
  <2>3. CASE j > n
    <3> DEFINE q == j - n
    <3>1. keys3[j] = keys2[q] /\ ptrs3[j] = ptrs2[q] /\ keys2[q] \in Int /\ mid <= keys2[q] /\ keys2[q] < hi /\ ptrs2[q] \in Value
      BY <1>1, <1>3, <2>1, <2>3
    <3> QED BY <1>0, <1>1, <2>1, <2>3, <3>1
  <2> QED BY <2>1, <2>2, <2>3
<1>5. ASSUME NEW j \in 1 .. N, NEW q \in 1 .. N, j < q PROVE keys3[j] < keys3[q]
  <2>1. j - n < q - n /\ (q <= n => j <= n) /\ (q <= n \/ q > n) /\ (j <= n \/ j > n) /\ (j > n => q > n)
    BY <1>0, <1>5
  <2>2. CASE q <= n
    BY <1>0, <1>4, <1>5, <2>1, <2>2
  <2>3. CASE j <= n /\ q > n
    <3>1. keys3[j] \in Int /\ keys3[q] \in Int /\ keys3[j] < mid /\ mid <= keys3[q]
      BY <1>4, <2>3
    <3> QED BY <1>0, <3>1
  <2>4. CASE j > n
    <3>1. j - n \in 1 .. m /\ keys3[j] = keys2[j - n] /\ q - n \in 1 .. m /\ keys3[q] = keys2[q - n]
      BY <1>4, <2>1, <2>4
    <3>2. keys2[j - n] < keys2[q - n]
      BY <1>1, <2>1, <3>1
    <3> QED BY <3>1, <3>2
  <2> QED BY <2>1, <2>2, <2>3, <2>4
<1>6. LeafArray(N, keys3, ptrs3, lo, hi)
  BY <1>0, <1>1, <1>2, <1>3, <1>4, <1>5 DEF LeafArray
<1> QED BY <1>6 DEF N
---------------------------------------------------------------------------
(* The operations on sequences, as parts, joins and splices *)

LEMMA InsertIsSplice ==
    ASSUME NEW S, NEW s \in Seq(S), NEW i \in 1 .. Len(s) + 1, NEW e \in S
    PROVE  InsertAt(s, i, e) \in Seq(S) /\ IsSplice(InsertAt(s, i, e), s, Len(s), <<e>>, 1, i, i - 1)
<1> DEFINE z == InsertAt(s, i, e)
           n == Len(s)
<1>1. /\ z \in Seq(S) /\ Len(z) = n + 1
      /\ \A j \in 1 .. n + 1 : z[j] = IF j < i THEN s[j] ELSE IF j = i THEN e ELSE s[j - 1]
  BY InsertAtIs
<1>2. n \in Nat
  BY LenProperties
<1> HIDE DEF z, n
<1>3. n + 1 + i - 1 - (i - 1) = n + 1
  BY <1>2 DEF n
<1>4. ASSUME NEW j \in 1 .. n + 1
      PROVE  /\ j < i => z[j] = s[j]
             /\ j >= i /\ j < i + 1 => z[j] = <<e>>[j - i + 1]
             /\ j >= i + 1 => z[j] = s[j - 1 - i + 1 + (i - 1)]
  <2>1. /\ j >= i /\ j < i + 1 => j = i /\ j - i + 1 = 1 /\ ~(j < i)
        /\ j >= i + 1 => ~(j < i) /\ j # i /\ j - 1 - i + 1 + (i - 1) = j - 1
    BY <1>2 DEF n
  <2> QED BY <1>1, <2>1
<1>5. IsSplice(z, s, n, <<e>>, 1, i, i - 1)
  BY <1>1, <1>3, <1>4 DEF IsSplice
<1> QED BY <1>1, <1>5 DEF z, n

LEMMA RemoveIsSplice ==
    ASSUME NEW S, NEW s \in Seq(S), NEW i \in 1 .. Len(s)
    PROVE  RemoveAt(s, i) \in Seq(S) /\ IsSplice(RemoveAt(s, i), s, Len(s), <<>>, 0, i, i)
<1> DEFINE z == RemoveAt(s, i)
           n == Len(s)
<1>1. /\ z \in Seq(S) /\ Len(z) = n - 1
      /\ \A j \in 1 .. n - 1 : z[j] = IF j < i THEN s[j] ELSE s[j + 1]
  BY RemoveAtIs
<1>2. n \in Nat
  BY LenProperties
<1> HIDE DEF z, n
<1>3. n + 0 + i - 1 - i = n - 1
  BY <1>2 DEF n
<1>4. ASSUME NEW j \in 1 .. n - 1
      PROVE  /\ j < i => z[j] = s[j]
             /\ j >= i /\ j < i + 0 => z[j] = << >>[j - i + 1]
             /\ j >= i + 0 => z[j] = s[j - 0 - i + 1 + i]
  <2>1. /\ ~(j >= i /\ j < i + 0)
        /\ j >= i + 0 => ~(j < i) /\ j - 0 - i + 1 + i = j + 1
    BY <1>2 DEF n
  <2> QED BY <1>1, <2>1
<1>5. IsSplice(z, s, n, <<>>, 0, i, i)
  BY <1>1, <1>3, <1>4 DEF IsSplice
<1> QED BY <1>1, <1>5 DEF z, n

LEMMA ReplaceIsSplice ==
    ASSUME NEW S, NEW s \in Seq(S), NEW i \in 1 .. Len(s), NEW e \in S
    PROVE  ReplaceAt(s, i, e) \in Seq(S) /\ IsSplice(ReplaceAt(s, i, e), s, Len(s), <<e>>, 1, i, i)
<1> DEFINE z == ReplaceAt(s, i, e)
           n == Len(s)
<1>1. /\ z \in Seq(S) /\ Len(z) = n
      /\ \A j \in 1 .. n : z[j] = IF j = i THEN e ELSE s[j]
  BY ReplaceAtIs
<1>2. n \in Nat
  BY LenProperties
<1> HIDE DEF z, n
<1>3. n + 1 + i - 1 - i = n
  BY <1>2 DEF n
<1>4. ASSUME NEW j \in 1 .. n
      PROVE  /\ j < i => z[j] = s[j]
             /\ j >= i /\ j < i + 1 => z[j] = <<e>>[j - i + 1]
             /\ j >= i + 1 => z[j] = s[j - 1 - i + 1 + i]
  <2>1. /\ j < i => j # i
        /\ j >= i /\ j < i + 1 => j = i /\ j - i + 1 = 1
        /\ j >= i + 1 => j # i /\ j - 1 - i + 1 + i = j
    BY <1>2 DEF n
  <2> QED BY <1>1, <2>1
<1>5. IsSplice(z, s, n, <<e>>, 1, i, i)
  BY <1>1, <1>3, <1>4 DEF IsSplice
<1> QED BY <1>1, <1>5 DEF z, n

LEMMA ConcatIsSplice ==
    ASSUME NEW S, NEW s \in Seq(S), NEW t \in Seq(S), NEW i \in 1 .. Len(s) + 1,
           NEW k \in i - 1 .. Len(s)
    PROVE  LET z == SubSeq(s, 1, i - 1) \o t \o SubSeq(s, k + 1, Len(s))
           IN  z \in Seq(S) /\ IsSplice(z, s, Len(s), t, Len(t), i, k)
<1> DEFINE z == SubSeq(s, 1, i - 1) \o t \o SubSeq(s, k + 1, Len(s))
           n == Len(s)
           m == Len(t)
<1>1. /\ z \in Seq(S) /\ Len(z) = i - 1 + m + n - k
      /\ \A j \in 1 .. i - 1 + m + n - k :
            z[j] = IF j < i THEN s[j] ELSE IF j < i + m THEN t[j - i + 1] ELSE s[j - (i - 1) - m + k]
  BY SpliceIs
<1>2. n \in Nat /\ m \in Nat
  BY LenProperties
<1> HIDE DEF z, n, m
<1>3. i - 1 + m + n - k = n + m + i - 1 - k
  BY <1>2 DEF n
<1>4. ASSUME NEW j \in 1 .. n + m + i - 1 - k
      PROVE  /\ j < i => z[j] = s[j]
             /\ j >= i /\ j < i + m => z[j] = t[j - i + 1]
             /\ j >= i + m => z[j] = s[j - m - i + 1 + k]
  <2>1. /\ j >= i => ~(j < i)
        /\ j >= i + m => ~(j < i) /\ ~(j < i + m) /\ j - (i - 1) - m + k = j - m - i + 1 + k
    BY <1>2 DEF n
  <2> QED BY <1>1, <1>3, <2>1
<1>5. IsSplice(z, s, n, t, m, i, k)
  BY <1>1, <1>3, <1>4 DEF IsSplice
<1> QED BY <1>1, <1>5 DEF z, n, m

\* Two neighbours replaced by one, and by two others.
LEMMA OneForTwo ==
    ASSUME NEW S, NEW s \in Seq(S), NEW i \in 1 .. Len(s), i + 1 \in 1 .. Len(s), NEW e \in S,
           NEW q, q = i \/ q = i + 1
    PROVE  LET z == ReplaceAt(RemoveAt(s, q), i, e)
           IN  z \in Seq(S) /\ IsSplice(z, s, Len(s), <<e>>, 1, i, i + 1)
<1> DEFINE y == RemoveAt(s, q)
           z == ReplaceAt(y, i, e)
           n == Len(s)
<1>2. n \in Nat /\ q \in 1 .. n
  <2>1. n \in Nat
    BY LenProperties
  <2> QED BY <2>1
<1>1. /\ y \in Seq(S) /\ Len(y) = n - 1
      /\ \A j \in 1 .. n - 1 : y[j] = IF j < q THEN s[j] ELSE s[j + 1]
  BY <1>2, RemoveAtIs
<1> HIDE DEF y
<1>3. i \in 1 .. Len(y)
  BY <1>1, <1>2
<1>4. /\ z \in Seq(S) /\ Len(z) = Len(y)
      /\ \A j \in 1 .. Len(y) : z[j] = IF j = i THEN e ELSE y[j]
  <2>1. y \in Seq(S)
    BY <1>1
  <2>2. z = [y EXCEPT ![i] = e]
    BY DEF ReplaceAt
  <2>3. [y EXCEPT ![i] = e] \in Seq(S) /\ Len([y EXCEPT ![i] = e]) = Len(y)
    BY <1>3, <2>1, ExceptSeq
  <2> QED BY <1>3, <2>1, <2>2, <2>3
<1> HIDE DEF z, n
<1>5. n + 1 + i - 1 - (i + 1) = n - 1
  BY <1>2 DEF n
<1>6. ASSUME NEW j \in 1 .. n - 1
      PROVE  /\ j < i => z[j] = s[j]
             /\ j >= i /\ j < i + 1 => z[j] = <<e>>[j - i + 1]
             /\ j >= i + 1 => z[j] = s[j - 1 - i + 1 + (i + 1)]
  <2>0. j \in Int /\ i \in Int /\ (q = i \/ q = i + 1)
    BY <1>2 DEF n
  <2>1. /\ j < i => j # i /\ j < q
        /\ j >= i /\ j < i + 1 => j = i /\ j - i + 1 = 1
        /\ j >= i + 1 => j # i /\ ~(j < q) /\ j - 1 - i + 1 + (i + 1) = j + 1
    BY <2>0
  <2> QED BY <1>1, <1>4, <2>1
<1>7. IsSplice(z, s, n, <<e>>, 1, i, i + 1)
  BY <1>1, <1>4, <1>5, <1>6 DEF IsSplice
<1> QED BY <1>4, <1>7 DEF y, z, n

LEMMA TwoForTwo ==
    ASSUME NEW S, NEW s \in Seq(S), NEW i \in 1 .. Len(s), i + 1 \in 1 .. Len(s),
           NEW e \in S, NEW f \in S
    PROVE  LET z == ReplaceAt(ReplaceAt(s, i, e), i + 1, f)
           IN  z \in Seq(S) /\ IsSplice(z, s, Len(s), <<e, f>>, 2, i, i + 1)
<1> DEFINE y == ReplaceAt(s, i, e)
           z == ReplaceAt(y, i + 1, f)
           n == Len(s)
<1>2. n \in Nat
  BY LenProperties
<1>1. y \in Seq(S) /\ Len(y) = n /\ \A j \in 1 .. n : y[j] = IF j = i THEN e ELSE s[j]
  BY ReplaceAtIs
<1> HIDE DEF y
<1>4. z \in Seq(S) /\ Len(z) = n /\ \A j \in 1 .. n : z[j] = IF j = i + 1 THEN f ELSE y[j]
  BY <1>1, ReplaceAtIs
<1> HIDE DEF z, n
<1>5. n + 2 + i - 1 - (i + 1) = n
  BY <1>2 DEF n
<1>6. ASSUME NEW j \in 1 .. n
      PROVE  /\ j < i => z[j] = s[j]
             /\ j >= i /\ j < i + 2 => z[j] = <<e, f>>[j - i + 1]
             /\ j >= i + 2 => z[j] = s[j - 2 - i + 1 + (i + 1)]
  <2>1. /\ j < i => j # i /\ j # i + 1
        /\ j >= i /\ j < i + 2 => (j = i /\ j # i + 1 /\ j - i + 1 = 1) \/ (j = i + 1 /\ j - i + 1 = 2)
        /\ j >= i + 2 => j # i /\ j # i + 1 /\ j - 2 - i + 1 + (i + 1) = j
    BY <1>2 DEF n
  <2> QED BY <1>1, <1>4, <2>1
<1>7. IsSplice(z, s, n, <<e, f>>, 2, i, i + 1)
  BY <1>4, <1>5, <1>6 DEF IsSplice
<1> QED BY <1>4, <1>7 DEF y, z, n

LEMMA SubSeqIsPart ==
    ASSUME NEW S, NEW s \in Seq(S), NEW i \in 1 .. Len(s) + 1, NEW k \in i - 1 .. Len(s)
    PROVE  SubSeq(s, i, k) \in Seq(S) /\ IsPart(SubSeq(s, i, k), s, i, k)
<1>1. /\ SubSeq(s, i, k) \in Seq(S) /\ Len(SubSeq(s, i, k)) = k - i + 1
      /\ \A j \in 1 .. k - i + 1 : SubSeq(s, i, k)[j] = s[i + j - 1]
  BY Part
<1> QED BY <1>1 DEF IsPart

LEMMA ConcatIsJoin ==
    ASSUME NEW S, NEW s \in Seq(S), NEW t \in Seq(S)
    PROVE  s \o t \in Seq(S) /\ IsJoin(s \o t, s, Len(s), t, Len(t))
<1>1. Len(s) \in Nat /\ Len(t) \in Nat
  BY LenProperties
<1>2. /\ s \o t \in Seq(S) /\ Len(s \o t) = Len(s) + Len(t)
      /\ \A j \in 1 .. Len(s) + Len(t) : (s \o t)[j] = IF j <= Len(s) THEN s[j] ELSE t[j - Len(s)]
  BY ConcatProperties
<1>3. \A j \in 1 .. Len(s) + Len(t) : j > Len(s) => ~(j <= Len(s))
  BY <1>1
<1> QED BY <1>2, <1>3 DEF IsJoin
Elems(s) == {s[i] : i \in 1 .. Len(s)}

\* What a splice, a part and a join consist of.
LEMMA SpliceElems ==
    ASSUME NEW z, NEW s, NEW n \in Nat, Len(s) = n, NEW t, NEW m \in Nat, Len(t) = m,
           NEW i \in 1 .. n + 1, NEW k \in i - 1 .. n, IsSplice(z, s, n, t, m, i, k)
    PROVE  /\ Elems(z) \subseteq Elems(t) \cup {s[j] : j \in {q \in 1 .. n : q < i \/ q > k}}
           /\ Elems(t) \subseteq Elems(z)
           /\ \A j \in 1 .. n : j < i \/ j > k => s[j] \in Elems(z)
<1> DEFINE N == n + m + i - 1 - k
<1>1. /\ Len(z) = N
      /\ \A j \in 1 .. N : /\ j < i => z[j] = s[j]
                           /\ j >= i /\ j < i + m => z[j] = t[j - i + 1]
                           /\ j >= i + m => z[j] = s[j - m - i + 1 + k]
  BY DEF IsSplice
<1>2. i \in Nat /\ k \in Nat /\ 1 <= i /\ i - 1 <= k /\ k <= n /\ N \in Nat
  OBVIOUS
<1> HIDE DEF N
<1>3. ASSUME NEW j \in 1 .. N
      PROVE  z[j] \in Elems(t) \cup {s[q] : q \in {q \in 1 .. n : q < i \/ q > k}}
  <2>1. CASE j < i
    <3>1. j \in 1 .. n
      BY <1>2, <2>1
    <3> QED BY <1>1, <2>1, <3>1
  <2>2. CASE j >= i /\ j < i + m
    <3>1. j - i + 1 \in 1 .. m
      BY <1>2, <2>2
    <3>2. z[j] = t[j - i + 1]
      BY <1>1, <2>2
    <3> QED BY <3>1, <3>2 DEF Elems
  <2>3. CASE j >= i + m
    <3> DEFINE q == j - m - i + 1 + k
    <3>1. q \in 1 .. n /\ q > k
      BY <1>2, <2>3 DEF N
    <3>2. z[j] = s[q]
      BY <1>1, <2>3
    <3> HIDE DEF q
    <3> QED BY <3>1, <3>2
  <2>4. j < i \/ (j >= i /\ j < i + m) \/ j >= i + m
    BY <1>2
  <2> QED BY <2>1, <2>2, <2>3, <2>4
<1>4. ASSUME NEW j \in 1 .. m PROVE t[j] \in Elems(z)
  <2> DEFINE q == j + i - 1
  <2>1. q \in 1 .. N /\ q >= i /\ q < i + m /\ q - i + 1 = j
    BY <1>2 DEF N
  <2> HIDE DEF q
  <2>2. z[q] = t[j]
    BY <1>1, <2>1
  <2> QED BY <1>1, <2>1, <2>2 DEF Elems
<1>5. ASSUME NEW j \in 1 .. n, j < i \/ j > k PROVE s[j] \in Elems(z)
  <2>1. CASE j < i
    <3>1. j \in 1 .. N
      BY <1>2, <2>1 DEF N
    <3> QED BY <1>1, <2>1, <3>1 DEF Elems
  <2>2. CASE j > k
    <3> DEFINE q == j + m + i - 1 - k
    <3>1. q \in 1 .. N /\ q >= i + m /\ q - m - i + 1 + k = j
      BY <1>2, <2>2 DEF N
    <3> HIDE DEF q
    <3>2. z[q] = s[j]
      BY <1>1, <3>1
    <3> QED BY <1>1, <3>1, <3>2 DEF Elems
  <2> QED BY <1>5, <2>1, <2>2
<1> QED BY <1>1, <1>3, <1>4, <1>5 DEF Elems

LEMMA PartElems ==
    ASSUME NEW z, NEW s, NEW i \in Nat, NEW k \in Int, IsPart(z, s, i, k)
    PROVE  Elems(z) = {s[j] : j \in i .. k}
<1>1. Len(z) = k - i + 1 /\ \A j \in 1 .. k - i + 1 : z[j] = s[i + j - 1]
  BY DEF IsPart
<1>2. ASSUME NEW j \in 1 .. k - i + 1 PROVE z[j] \in {s[q] : q \in i .. k}
  <2>1. i + j - 1 \in i .. k
    OBVIOUS
  <2> QED BY <1>1, <2>1
<1>3. ASSUME NEW j \in i .. k PROVE s[j] \in Elems(z)
  <2>1. j - i + 1 \in 1 .. k - i + 1 /\ i + (j - i + 1) - 1 = j
    OBVIOUS
  <2>2. z[j - i + 1] = s[j]
    BY <1>1, <2>1
  <2> QED BY <1>1, <2>1, <2>2 DEF Elems
<1> QED BY <1>1, <1>2, <1>3 DEF Elems

LEMMA JoinElems ==
    ASSUME NEW z, NEW s, NEW n \in Nat, Len(s) = n, NEW t, NEW m \in Nat, Len(t) = m,
           IsJoin(z, s, n, t, m)
    PROVE  Elems(z) = Elems(s) \cup Elems(t)
<1>1. /\ Len(z) = n + m
      /\ \A j \in 1 .. n + m : (j <= n => z[j] = s[j]) /\ (j > n => z[j] = t[j - n])
  BY DEF IsJoin
<1>2. ASSUME NEW j \in 1 .. n + m PROVE z[j] \in Elems(s) \cup Elems(t)
  <2>1. (j <= n /\ j \in 1 .. n) \/ (j > n /\ j - n \in 1 .. m)
    OBVIOUS
  <2> QED BY <1>1, <2>1 DEF Elems
<1>3. ASSUME NEW j \in 1 .. n PROVE s[j] \in Elems(z)
  <2>1. j \in 1 .. n + m /\ j <= n
    OBVIOUS
  <2> QED BY <1>1, <2>1 DEF Elems
<1>4. ASSUME NEW j \in 1 .. m PROVE t[j] \in Elems(z)
  <2>1. j + n \in 1 .. n + m /\ j + n > n /\ (j + n) - n = j
    OBVIOUS
  <2>2. z[j + n] = t[j]
    BY <1>1, <2>1
  <2> QED BY <1>1, <2>1, <2>2 DEF Elems
<1> QED BY <1>1, <1>2, <1>3, <1>4 DEF Elems

---------------------------------------------------------------------------
(* Nodes *)

W(r) == IF r.weight THEN 1 ELSE 0

\* r is a node with the bounds and the height that x says.
Sound(r, x, g) ==
    /\ r \in NodeType /\ x \in Info
    /\ x.lo <= r.searchKey /\ r.searchKey < x.hi
    /\ Len(r.ptrs) <= b
    /\ r.leaf => r.weight /\ x.ht = 1 /\ LeafArray(Len(r.keys), r.keys, r.ptrs, x.lo, x.hi)
    /\ ~r.leaf => InnerArray(Len(r.keys), r.keys, r.ptrs, x.lo, x.hi, x.ht - W(r), g)
    /\ ~r.weight => Len(r.ptrs) = 2

Kids(r) == IF r.leaf THEN {} ELSE Elems(r.ptrs)

LEMMA NodeFields ==
    ASSUME NEW r \in NodeType
    PROVE  /\ r.leaf \in BOOLEAN /\ r.weight \in BOOLEAN /\ r.marked \in BOOLEAN
           /\ r.searchKey \in Key /\ r.searchKey \in Int
           /\ r.keys \in Seq(Key) /\ r.ptrs \in Seq(Value \cup Nat)
           /\ Len(r.keys) \in Nat /\ Len(r.ptrs) \in Nat
           /\ \A i \in 1 .. Len(r.keys) : r.keys[i] \in Int /\ r.keys[i] \in Key
<1>1. /\ r.leaf \in BOOLEAN /\ r.weight \in BOOLEAN /\ r.marked \in BOOLEAN
      /\ r.searchKey \in Key /\ r.keys \in Seq(Key) /\ r.ptrs \in Seq(Value \cup Nat)
  BY DEF NodeType
<1>2. Len(r.keys) \in Nat /\ Len(r.ptrs) \in Nat /\ \A i \in 1 .. Len(r.keys) : r.keys[i] \in Key
  BY <1>1, LenProperties, ElementOfSeq
<1> QED BY <1>1, <1>2, KeyAssumption

LEMMA InfoFields ==
    ASSUME NEW x \in Info PROVE x.lo \in Int /\ x.hi \in Int /\ x.ht \in Int
BY DEF Info

LEMMA NewInfo ==
    ASSUME NEW lo \in Int, NEW hi \in Int, NEW ht \in Int
    PROVE  LET x == [lo |-> lo, hi |-> hi, ht |-> ht]
           IN  x \in Info /\ x.lo = lo /\ x.hi = hi /\ x.ht = ht
BY DEF Info

LEMMA NewNode ==
    ASSUME NEW leaf \in BOOLEAN, NEW w \in BOOLEAN, NEW sk \in Key, NEW keys \in Seq(Key),
           NEW ptrs \in Seq(Value \cup Nat)
    PROVE  LET r == MakeNode(leaf, w, sk, keys, ptrs)
           IN  /\ r \in NodeType
               /\ r.leaf = leaf /\ r.marked = FALSE /\ r.weight = w /\ r.searchKey = sk
               /\ r.keys = keys /\ r.ptrs = ptrs
               /\ Kids(r) = IF leaf THEN {} ELSE Elems(ptrs)
BY DEF MakeNode, NodeType, Kids

LEMMA NewInner ==
    ASSUME NEW g, NEW w \in BOOLEAN, NEW sk \in Key, NEW keys \in Seq(Key),
           NEW ptrs \in Seq(Value \cup Nat), NEW x \in Info, NEW n,
           InnerArray(n, keys, ptrs, x.lo, x.hi, x.ht - (IF w THEN 1 ELSE 0), g),
           x.lo <= sk, sk < x.hi, n + 1 <= b, w \/ n = 1
    PROVE  Sound(MakeNode(FALSE, w, sk, keys, ptrs), x, g)
<1> DEFINE r == MakeNode(FALSE, w, sk, keys, ptrs)
<1>1. /\ r \in NodeType
      /\ r.leaf = FALSE /\ r.weight = w /\ r.searchKey = sk /\ r.keys = keys /\ r.ptrs = ptrs
  BY DEF MakeNode, NodeType
<1>2. Len(keys) = n /\ Len(ptrs) = n + 1
  BY DEF InnerArray
<1> HIDE DEF r
<1>3. W(r) = IF w THEN 1 ELSE 0
  BY <1>1 DEF W
<1>4. InnerArray(Len(r.keys), r.keys, r.ptrs, x.lo, x.hi, x.ht - W(r), g)
  BY <1>1, <1>2, <1>3
<1>5. ~r.weight => Len(r.ptrs) = 2
  <2> SUFFICES ASSUME ~r.weight PROVE Len(r.ptrs) = 2
    OBVIOUS
  <2>1. n = 1
    BY <1>1
  <2> QED BY <1>1, <1>2, <2>1
<1>6. Len(r.ptrs) <= b /\ x.lo <= r.searchKey /\ r.searchKey < x.hi /\ ~r.leaf
  BY <1>1, <1>2
<1>7. Sound(r, x, g)
  BY ONLY <1>1, <1>4, <1>5, <1>6, x \in Info DEF Sound
<1> QED BY <1>7 DEF r

LEMMA NewLeaf ==
    ASSUME NEW g, NEW sk \in Key, NEW keys \in Seq(Key),
           NEW ptrs \in Seq(Value \cup Nat), NEW x \in Info, NEW n,
           LeafArray(n, keys, ptrs, x.lo, x.hi), x.ht = 1,
           x.lo <= sk, sk < x.hi, n <= b
    PROVE  Sound(MakeNode(TRUE, TRUE, sk, keys, ptrs), x, g)
<1> DEFINE r == MakeNode(TRUE, TRUE, sk, keys, ptrs)
<1>1. /\ r \in NodeType
      /\ r.leaf = TRUE /\ r.weight = TRUE /\ r.searchKey = sk /\ r.keys = keys /\ r.ptrs = ptrs
  BY DEF MakeNode, NodeType
<1>2. Len(keys) = n /\ Len(ptrs) = n
  BY DEF LeafArray
<1> HIDE DEF r
<1>3. LeafArray(Len(r.keys), r.keys, r.ptrs, x.lo, x.hi)
  BY <1>1, <1>2
<1>4. Len(r.ptrs) <= b /\ x.lo <= r.searchKey /\ r.searchKey < x.hi /\ r.leaf /\ r.weight
  BY <1>1, <1>2
<1>5. Sound(r, x, g)
  BY ONLY <1>1, <1>3, <1>4, x \in Info, x.ht = 1 DEF Sound
<1> QED BY <1>5 DEF r

\* A node and its children.
LEMMA SoundInner ==
    ASSUME NEW g, NEW r, NEW x, Sound(r, x, g), ~r.leaf
    PROVE  /\ InnerArray(Len(r.keys), r.keys, r.ptrs, x.lo, x.hi, x.ht - W(r), g)
           /\ Len(r.keys) \in Nat /\ Len(r.ptrs) = Len(r.keys) + 1
           /\ x.ht \in Int /\ x.ht - W(r) >= 1 /\ x.ht >= 1
           /\ \A i \in 1 .. Len(r.keys) + 1 : r.ptrs[i] \in Kids(r)
           /\ \A c \in Kids(r) : \E i \in 1 .. Len(r.keys) + 1 : c = r.ptrs[i]
<1>1. r \in NodeType /\ x \in Info /\ InnerArray(Len(r.keys), r.keys, r.ptrs, x.lo, x.hi, x.ht - W(r), g)
  BY DEF Sound
<1>2. Len(r.keys) \in Nat /\ Len(r.ptrs) = Len(r.keys) + 1 /\ x.ht - W(r) >= 1
  BY <1>1 DEF InnerArray
<1>3. x.ht \in Int /\ W(r) \in 0 .. 1
  BY <1>1, InfoFields DEF W
<1>4. Kids(r) = {r.ptrs[i] : i \in 1 .. Len(r.keys) + 1}
  BY <1>2 DEF Kids, Elems
<1>5. x.ht >= 1
  BY <1>2, <1>3
<1> QED BY <1>1, <1>2, <1>3, <1>4, <1>5

Rank(x) == x.ht + x.hi - x.lo

LEMMA RankType ==
    ASSUME NEW g, NEW r, NEW x, Sound(r, x, g)
    PROVE  /\ Rank(x) \in Nat /\ x.lo \in Int /\ x.hi \in Int /\ x.ht \in Int
           /\ x.lo < x.hi /\ x.ht >= 1
<1>1. x.lo \in Int /\ x.hi \in Int /\ x.ht \in Int
  BY InfoFields DEF Sound
<1>2. CASE r.leaf
  <2>1. x.lo < x.hi /\ x.ht = 1
    BY <1>2 DEF Sound, LeafArray
  <2> QED BY <1>1, <2>1 DEF Rank
<1>3. CASE ~r.leaf
  <2>1. x.lo < x.hi
    BY <1>3 DEF Sound, InnerArray
  <2>2. x.ht >= 1
    BY <1>3, SoundInner
  <2> QED BY <1>1, <2>1, <2>2 DEF Rank
<1> QED BY <1>2, <1>3

LEMMA Kid ==
    ASSUME NEW g, NEW r, NEW x, Sound(r, x, g), ~r.leaf, NEW i \in 1 .. Len(r.keys) + 1
    PROVE  LET c == g[r.ptrs[i]]
           IN  /\ r.ptrs[i] \in Kids(r) /\ r.ptrs[i] \in 2 .. Len(g)
               /\ c.lo = Low(r.keys, x.lo, i) /\ c.hi = High(Len(r.keys), r.keys, x.hi, i)
               /\ c.ht = x.ht - W(r)
               /\ c.lo \in Int /\ c.hi \in Int /\ c.ht \in Int
               /\ x.lo <= c.lo /\ c.lo < c.hi /\ c.hi <= x.hi
               /\ \A j \in 1 .. Len(r.keys) + 1 : j # i => r.ptrs[j] # r.ptrs[i]
               /\ Rank(c) < Rank(x)
<1> DEFINE n == Len(r.keys)
           c == g[r.ptrs[i]]
           l == Low(r.keys, x.lo, i)
           h == High(n, r.keys, x.hi, i)
<1>1. /\ InnerArray(n, r.keys, r.ptrs, x.lo, x.hi, x.ht - W(r), g)
      /\ n \in Nat /\ Len(r.ptrs) = n + 1 /\ x.ht \in Int /\ r.ptrs[i] \in Kids(r)
  BY SoundInner
<1>2. Fits(g, r.ptrs[i], l, h, x.ht - W(r))
  BY <1>1 DEF InnerArray
<1>3. r.ptrs[i] \in 2 .. Len(g) /\ c.lo = l /\ c.hi = h /\ c.ht = x.ht - W(r)
  BY <1>2 DEF Fits
<1>4. l \in Int /\ h \in Int /\ x.lo <= l /\ l < h /\ h <= x.hi
  BY <1>1, Bounds
<1>5. x.lo \in Int /\ x.hi \in Int /\ W(r) \in {0, 1} /\ (W(r) = 0 <=> ~r.weight)
  BY RankType DEF W
<1>6. ASSUME NEW j \in 1 .. n + 1, j # i PROVE r.ptrs[j] # r.ptrs[i]
  <2>1. j < i \/ i < j
    BY <1>1, <1>6
  <2>2. CASE j < i
    BY <1>1, <2>2, DistinctKids
  <2>3. CASE i < j
    BY <1>1, <2>3, DistinctKids
  <2> QED BY <2>1, <2>2, <2>3
<1>7. W(r) = 0 => x.lo < l \/ h < x.hi
  <2> SUFFICES ASSUME W(r) = 0 PROVE x.lo < l \/ h < x.hi
    OBVIOUS
  <2>0. ~r.weight
    BY <1>5
  <2>1. Len(r.ptrs) = 2
    BY <2>0 DEF Sound
  <2>2. n = 1
    <3>1. n \in Nat /\ Len(r.ptrs) = n + 1
      BY <1>1
    <3> HIDE DEF n
    <3>2. n + 1 = 2
      BY <2>1, <3>1
    <3> QED BY <3>1, <3>2
  <2>3. r.keys[1] \in Int /\ x.lo < r.keys[1] /\ r.keys[1] < x.hi
    BY <1>1, <2>2 DEF InnerArray
  <2>4. CASE i = 1
    <3>1. h = r.keys[1]
      BY <2>2, <2>4 DEF High
    <3> QED BY <2>3, <3>1
  <2>5. CASE i = 2
    <3>1. l = r.keys[1]
      BY <2>2, <2>5 DEF Low
    <3> QED BY <2>3, <3>1
  <2> QED BY <2>2, <2>4, <2>5
<1> HIDE DEF n, c, l, h
<1>8. Rank(c) < Rank(x)
  <2> DEFINE w == W(r)
             H == x.ht
             xl == x.lo
             xh == x.hi
  <2>1. H \in Int /\ xl \in Int /\ xh \in Int /\ w \in {0, 1} /\ l \in Int /\ h \in Int
    BY <1>1, <1>4, <1>5
  <2>2. xl <= l /\ h <= xh /\ (w = 0 => xl < l \/ h < xh)
    BY <1>4, <1>7
  <2>3. Rank(c) = (H - w) + h - l /\ Rank(x) = H + xh - xl
    BY <1>3 DEF Rank
  <2> HIDE DEF w, H, xl, xh
  <2>4. (H - w) + h - l < H + xh - xl
    BY ONLY <2>1, <2>2
  <2> QED BY <2>3, <2>4
<1>9. c.lo \in Int /\ c.hi \in Int /\ c.ht \in Int /\ x.lo <= c.lo /\ c.lo < c.hi /\ c.hi <= x.hi
  BY <1>1, <1>3, <1>4, <1>5
<1> QED BY <1>1, <1>3, <1>6, <1>8, <1>9 DEF n, c, l, h

LEMMA KidsDiffer ==
    ASSUME NEW g, NEW r, NEW x, Sound(r, x, g), ~r.leaf,
           NEW i \in 1 .. Len(r.keys) + 1, NEW j \in 1 .. Len(r.keys) + 1, j # i
    PROVE  r.ptrs[j] # r.ptrs[i]
BY Kid

\* More nodes.
LEMMA SoundExtend ==
    ASSUME NEW g, NEW g2, NEW r, NEW x, Sound(r, x, g), Len(g) \in Nat, Len(g2) \in Nat,
           Len(g) <= Len(g2), \A c \in 2 .. Len(g) : g2[c] = g[c]
    PROVE  Sound(r, x, g2)
<1>1. CASE r.leaf
  BY <1>1 DEF Sound
<1>2. CASE ~r.leaf
  <2> DEFINE n == Len(r.keys)
             d == x.ht - W(r)
  <2>1. InnerArray(n, r.keys, r.ptrs, x.lo, x.hi, d, g)
    BY <1>2 DEF Sound
  <2> HIDE DEF n, d
  <2>2. ASSUME NEW c, NEW lo, NEW hi, Fits(g, c, lo, hi, d) PROVE Fits(g2, c, lo, hi, d)
    <3>1. c \in 2 .. Len(g) /\ c \in 2 .. Len(g2)
      BY <2>2 DEF Fits
    <3> QED BY <2>2, <3>1 DEF Fits
  <2>3. InnerArray(n, r.keys, r.ptrs, x.lo, x.hi, d, g2)
    BY <2>1, <2>2 DEF InnerArray
  <2> QED BY <1>2, <2>3 DEF Sound, n, d
<1> QED BY <1>1, <1>2
---------------------------------------------------------------------------
(* The tree as a graph *)

\* k[n] are the children of n; of the N nodes those of R are removed.  The others
\* are a graph in which each node except the first has one parent.
LinkOK(N, k, R) ==
    /\ R \subseteq 2 .. N
    /\ \A n \in 1 .. N : n \notin R => \A x \in k[n] : x \in 2 .. N /\ x \notin R
    /\ \A n \in 2 .. N : n \notin R => \E q \in 1 .. N : q \notin R /\ n \in k[q]
    /\ \A p, q \in 1 .. N : p \notin R /\ q \notin R => \A x \in k[p] : x \in k[q] => p = q

\* The child c of P goes with the other nodes of D, and what is below them is
\* below new nodes now, of which the first takes the place of c.
Replaced(N, m, k, k2, R, P, c, D) ==
    /\ N \in Nat /\ m \in Nat /\ m >= 1
    /\ P \in 1 .. N /\ P \notin R /\ P \notin D /\ c \in D /\ c \in k[P]
    /\ D \subseteq 2 .. N /\ \A r \in D : r \notin R
    /\ \A r \in D : r = c \/ \E q \in D : r \in k[q]
    /\ \A n \in 1 .. N : n # P => k2[n] = k[n]
    /\ k2[P] = (k[P] \ {c}) \cup {N + 1}
    /\ \A n \in N + 1 .. N + m : \A x \in k2[n] :
          \/ x \in N + 2 .. N + m
          \/ x \notin D /\ \E q \in D : x \in k[q]
    /\ \A q \in D : \A x \in k[q] : x \notin D => \E n \in N + 1 .. N + m : x \in k2[n]
    /\ \A x \in N + 2 .. N + m : x \in k2[N + 1]
    /\ \A p, q \in N + 1 .. N + m : \A x \in k2[p] : x \in k2[q] => p = q

LEMMA GraphStep ==
    ASSUME NEW N, NEW m, NEW k, NEW k2, NEW R, NEW P, NEW c, NEW D,
           LinkOK(N, k, R), Replaced(N, m, k, k2, R, P, c, D)
    PROVE  LinkOK(N + m, k2, R \cup D)
<1>0. N \in Nat /\ m \in Nat /\ m >= 1 /\ P \in 1 .. N /\ P \notin R /\ P \notin D /\ c \in D /\ c \in k[P]
      /\ D \subseteq 2 .. N
  BY DEF Replaced
<1>1. /\ R \subseteq 2 .. N
      /\ \A n \in 1 .. N : n \notin R => \A x \in k[n] : x \in 2 .. N /\ x \notin R
  BY DEF LinkOK
<1>2. \A n \in 2 .. N : n \notin R => \E q \in 1 .. N : q \notin R /\ n \in k[q]
  BY DEF LinkOK
<1>3. \A p, q \in 1 .. N : p \notin R /\ q \notin R => \A x \in k[p] : x \in k[q] => p = q
  BY DEF LinkOK
<1>4. \A r \in D : r \in 1 .. N /\ r \notin R /\ (r = c \/ \E q \in D : r \in k[q])
  <2>1. \A r \in 2 .. N : r \in 1 .. N
    BY <1>0
  <2> QED BY <1>0, <2>1 DEF Replaced
<1>5. /\ \A n \in 1 .. N : n # P => k2[n] = k[n]
      /\ k2[P] = (k[P] \ {c}) \cup {N + 1}
  BY DEF Replaced
<1>6. \A n \in N + 1 .. N + m : \A x \in k2[n] :
          \/ x \in N + 2 .. N + m
          \/ x \notin D /\ \E q \in D : x \in k[q]
  BY DEF Replaced
<1>7. \A q \in D : \A x \in k[q] : x \notin D => \E n \in N + 1 .. N + m : x \in k2[n]
  BY DEF Replaced
<1>8. \A x \in N + 2 .. N + m : x \in k2[N + 1]
  BY DEF Replaced
<1>9. \A p, q \in N + 1 .. N + m : \A x \in k2[p] : x \in k2[q] => p = q
  BY DEF Replaced
<1>10. /\ \A n \in 1 .. N + m : n \in 1 .. N \/ n \in N + 1 .. N + m
       /\ \A n \in 1 .. N : n \in 1 .. N + m
       /\ \A n \in 2 .. N : n \in 2 .. N + m /\ n \in 1 .. N
       /\ \A n \in N + 1 .. N + m : n \notin 1 .. N /\ n \in 2 .. N + m /\ n \in 1 .. N + m /\ n \notin 2 .. N
       /\ \A n \in N + 2 .. N + m : n \in N + 1 .. N + m /\ n # N + 1
       /\ \A n \in N + 1 .. N + m : n = N + 1 \/ n \in N + 2 .. N + m
       /\ N + 1 \in N + 1 .. N + m
       /\ \A n \in 2 .. N + m : n \in 2 .. N \/ n \in N + 1 .. N + m
       /\ \A n \in 2 .. N + m : n \in 1 .. N + m
  BY <1>0
<1>11. ASSUME NEW n \in 1 .. N, n \notin R, n \notin D, NEW x \in k[n], n # P \/ x # c
       PROVE  x \in 2 .. N /\ x \notin R \cup D
  <2>1. x \in 2 .. N /\ x \notin R
    BY <1>1, <1>11
  <2>2. ASSUME x \in D PROVE FALSE
    <3>1. CASE x = c
      BY <1>0, <1>3, <1>11, <3>1
    <3>2. CASE \E q \in D : x \in k[q]
      BY <1>3, <1>4, <1>11, <3>2
    <3> QED BY <1>4, <2>2, <3>1, <3>2
  <2> QED BY <2>1, <2>2
<1>12. ASSUME NEW n \in 1 .. N + m, n \notin R \cup D, NEW x \in k2[n]
       PROVE  x \in 2 .. N + m /\ x \notin R \cup D
  <2>1. CASE n \in 1 .. N /\ n # P
    <3>1. x \in k[n]
      BY <1>5, <2>1
    <3> QED BY <1>10, <1>11, <1>12, <2>1, <3>1
  <2>2. CASE n = P
    <3>1. CASE x = N + 1
      BY <1>0, <1>1, <1>10, <3>1
    <3>2. CASE x \in k[P] /\ x # c
      BY <1>0, <1>10, <1>11, <3>2
    <3> QED BY <1>5, <1>12, <2>2, <3>1, <3>2
  <2>3. CASE n \in N + 1 .. N + m
    <3>1. CASE x \in N + 2 .. N + m
      BY <1>0, <1>1, <1>10, <3>1
    <3>2. CASE x \notin D /\ \E q \in D : x \in k[q]
      <4>1. x \in 2 .. N /\ x \notin R
        BY <1>1, <1>4, <3>2
      <4> QED BY <1>10, <3>2, <4>1
    <3> QED BY <1>6, <2>3, <3>1, <3>2
  <2> QED BY <1>10, <2>1, <2>2, <2>3
<1>13. ASSUME NEW n \in 2 .. N + m, n \notin R \cup D
       PROVE  \E q \in 1 .. N + m : q \notin R \cup D /\ n \in k2[q]
  <2>1. CASE n \in 2 .. N
    <3>1. PICK q \in 1 .. N : q \notin R /\ n \in k[q]
      BY <1>2, <1>13, <2>1
    <3>2. CASE q \in D
      <4>1. PICK y \in N + 1 .. N + m : n \in k2[y]
        BY <1>7, <1>13, <3>1, <3>2
      <4> QED BY <1>0, <1>1, <1>10, <4>1
    <3>3. CASE q \notin D
      <4>1. n \in k2[q]
        BY <1>0, <1>5, <1>13, <3>1
      <4> QED BY <1>10, <3>1, <3>3, <4>1
    <3> QED BY <3>2, <3>3
  <2>2. CASE n = N + 1
    BY <1>0, <1>5, <1>10, <2>2
  <2>3. CASE n \in N + 2 .. N + m
    BY <1>0, <1>1, <1>8, <1>10, <2>3
  <2> QED BY <1>10, <2>1, <2>2, <2>3
<1>14. ASSUME NEW p \in 1 .. N, p \notin R \cup D, NEW q \in N + 1 .. N + m, NEW x \in k2[p], x \in k2[q]
       PROVE  FALSE
  <2>1. x = N + 1 \/ x \in k[p]
    BY <1>5, <1>14
  <2>2. CASE x \in k[p]
    <3>1. x \in 2 .. N
      BY <1>1, <1>14, <2>2
    <3>2. PICK r \in D : x \in k[r]
      BY <1>6, <1>10, <1>14, <3>1
    <3> QED BY <1>3, <1>4, <1>14, <2>2, <3>2
  <2>3. CASE x = N + 1
    <3>1. PICK r \in D : x \in k[r]
      BY <1>6, <1>10, <1>14, <2>3
    <3>2. x \in 2 .. N
      BY <1>1, <1>4, <3>1
    <3> QED BY <1>10, <2>3, <3>2
  <2> QED BY <2>1, <2>2, <2>3
<1>15. ASSUME NEW p \in 1 .. N, p \notin R \cup D, NEW q \in 1 .. N, q \notin R \cup D,
              NEW x \in k2[p], x \in k2[q]
       PROVE  p = q
  <2>1. CASE x = N + 1
    <3>1. ASSUME NEW n \in 1 .. N, n \notin R, x \in k[n] PROVE FALSE
      BY <1>1, <1>10, <2>1, <3>1
    <3> QED BY <1>5, <1>15, <3>1
  <2>2. CASE x # N + 1
    <3>1. x \in k[p] /\ x \in k[q]
      BY <1>5, <1>15, <2>2
    <3> QED BY <1>3, <1>15, <3>1
  <2> QED BY <2>1, <2>2
<1>16. ASSUME NEW p \in 1 .. N + m, NEW q \in 1 .. N + m, p \notin R \cup D, q \notin R \cup D,
              NEW x \in k2[p], x \in k2[q]
       PROVE  p = q
  <2>1. CASE p \in 1 .. N /\ q \in 1 .. N
    BY <1>15, <1>16, <2>1
  <2>2. CASE p \in 1 .. N /\ q \in N + 1 .. N + m
    BY <1>14, <1>16, <2>2
  <2>3. CASE p \in N + 1 .. N + m /\ q \in 1 .. N
    BY <1>14, <1>16, <2>3
  <2>4. CASE p \in N + 1 .. N + m /\ q \in N + 1 .. N + m
    BY <1>9, <1>16, <2>4
  <2> QED BY <1>10, <2>1, <2>2, <2>3, <2>4
<1>17. R \cup D \subseteq 2 .. N + m
  BY <1>0, <1>1, <1>10
<1> HIDE DEF LinkOK
<1> QED BY <1>12, <1>13, <1>16, <1>17 DEF LinkOK
---------------------------------------------------------------------------
(* The heap *)

\* The first node is entry; its child, the root, has weight 1 and is for all keys.
\* What removed nodes say of their children is kept as well: searches read them.
NodesOK(h, g) ==
    /\ h \in Seq(NodeType) /\ g \in Seq(Info) /\ Len(g) = Len(h) /\ Len(h) >= 2
    /\ ~h[1].leaf /\ h[1].weight /\ h[1].keys = <<>> /\ Len(h[1].ptrs) = 1
    /\ h[1].ptrs[1] \in 2 .. Len(h)
    /\ h[h[1].ptrs[1]].weight
    /\ \A key \in Key : g[h[1].ptrs[1]].lo <= key /\ key < g[h[1].ptrs[1]].hi
    /\ \A n \in 2 .. Len(h) : Sound(h[n], g[n], g)

KidsOf(h) == [n \in 1 .. Len(h) |-> Kids(h[n])]

\* Nodes are finalized precisely when they are removed.
MarksOK(h, R) == \A n \in 1 .. Len(h) : ~h[n].leaf => (h[n].marked <=> n \in R)

\* The old nodes after an SCX.
Changed(h, P, ix, D) ==
    [n \in DOMAIN h |->
        IF n = P THEN [h[n] EXCEPT !.ptrs[ix] = Len(h) + 1]
        ELSE IF n \in D THEN [h[n] EXCEPT !.marked = ~h[n].leaf]
        ELSE h[n]]

\* What an SCX leaves alone.
LEMMA ChangedNodes ==
    ASSUME NEW h \in Seq(NodeType), NEW P \in 1 .. Len(h), ~h[P].leaf, NEW ix \in 1 .. Len(h[P].ptrs),
           NEW D, P \notin D
    PROVE  LET y == Changed(h, P, ix, D)
           IN  /\ y \in Seq(NodeType) /\ Len(y) = Len(h)
               /\ \A n \in 1 .. Len(h) :
                     /\ y[n].leaf = h[n].leaf /\ y[n].weight = h[n].weight
                     /\ y[n].searchKey = h[n].searchKey /\ y[n].keys = h[n].keys
                     /\ n # P => y[n].ptrs = h[n].ptrs
                     /\ n \in D => y[n].marked = ~h[n].leaf
                     /\ n \notin D => y[n].marked = h[n].marked
               /\ y[P].ptrs = [h[P].ptrs EXCEPT ![ix] = Len(h) + 1]
<1> DEFINE y == Changed(h, P, ix, D)
           N == Len(h)
<1>1. N \in Nat /\ DOMAIN h = 1 .. N /\ \A n \in 1 .. N : h[n] \in NodeType
  BY LenProperties, ElementOfSeq
<1>2. /\ DOMAIN y = 1 .. N
      /\ \A n \in 1 .. N : y[n] = IF n = P THEN [h[n] EXCEPT !.ptrs[ix] = N + 1]
                                  ELSE IF n \in D THEN [h[n] EXCEPT !.marked = ~h[n].leaf]
                                  ELSE h[n]
  BY <1>1 DEF Changed
<1>3. y = [n \in 1 .. N |-> y[n]]
  BY <1>1, <1>2 DEF Changed
<1> HIDE DEF y, N
<1>4. ASSUME NEW n \in 1 .. N, n = P
      PROVE  /\ y[n] \in NodeType
             /\ y[n].leaf = h[n].leaf /\ y[n].weight = h[n].weight
             /\ y[n].searchKey = h[n].searchKey /\ y[n].keys = h[n].keys /\ y[n].marked = h[n].marked
             /\ y[n].ptrs = [h[n].ptrs EXCEPT ![ix] = N + 1]
  <2> DEFINE r == h[n]
             p2 == [r.ptrs EXCEPT ![ix] = N + 1]
  <2>1. y[n] = [r EXCEPT !.ptrs = p2]
    BY <1>2, <1>4
  <2>2. p2 \in Seq(Value \cup Nat)
    <3>1. r.ptrs \in Seq(Value \cup Nat) /\ ix \in 1 .. Len(r.ptrs) /\ N + 1 \in Value \cup Nat
      BY <1>1, <1>4 DEF NodeType
    <3> QED BY <3>1, ExceptSeq
  <2> HIDE DEF p2
  <2>3. r \in NodeType
    BY <1>1
  <2> HIDE DEF r
  <2>4. /\ y[n] \in NodeType
        /\ y[n].leaf = r.leaf /\ y[n].weight = r.weight
        /\ y[n].searchKey = r.searchKey /\ y[n].keys = r.keys /\ y[n].marked = r.marked
        /\ y[n].ptrs = p2
    BY <2>1, <2>2, <2>3 DEF NodeType
  <2> QED BY <2>4 DEF r, p2
<1>5. ASSUME NEW n \in 1 .. N, n # P, n \in D
      PROVE  /\ y[n] \in NodeType
             /\ y[n].leaf = h[n].leaf /\ y[n].weight = h[n].weight
             /\ y[n].searchKey = h[n].searchKey /\ y[n].keys = h[n].keys /\ y[n].marked = ~h[n].leaf
             /\ y[n].ptrs = h[n].ptrs
  <2> DEFINE r == h[n]
  <2>1. y[n] = [r EXCEPT !.marked = ~r.leaf]
    BY <1>2, <1>5
  <2>3. r \in NodeType
    BY <1>1
  <2> HIDE DEF r
  <2>4. /\ y[n] \in NodeType
        /\ y[n].leaf = r.leaf /\ y[n].weight = r.weight
        /\ y[n].searchKey = r.searchKey /\ y[n].keys = r.keys /\ y[n].marked = ~r.leaf
        /\ y[n].ptrs = r.ptrs
    BY <2>1, <2>3 DEF NodeType
  <2> QED BY <2>4 DEF r
<1>6. ASSUME NEW n \in 1 .. N, n # P, n \notin D PROVE y[n] = h[n] /\ y[n] \in NodeType
  BY <1>1, <1>2, <1>6
<1>7. ASSUME NEW n \in 1 .. N
      PROVE  /\ y[n] \in NodeType
             /\ y[n].leaf = h[n].leaf /\ y[n].weight = h[n].weight
             /\ y[n].searchKey = h[n].searchKey /\ y[n].keys = h[n].keys
             /\ n # P => y[n].ptrs = h[n].ptrs
             /\ n \in D => y[n].marked = ~h[n].leaf
             /\ n \notin D => y[n].marked = h[n].marked
  <2>1. CASE n = P
    BY <1>4, <2>1
  <2>2. CASE n # P /\ n \in D
    BY <1>5, <2>2
  <2>3. CASE n # P /\ n \notin D
    BY <1>6, <2>3
  <2> QED BY <2>1, <2>2, <2>3
<1>8. y[P].ptrs = [h[P].ptrs EXCEPT ![ix] = N + 1]
  BY <1>4 DEF N
<1>9. y \in Seq(NodeType) /\ Len(y) = N
  <2>1. y \in [1 .. N -> NodeType]
    BY <1>3, <1>7
  <2>2. \A s : s \in [1 .. N -> NodeType] => s \in Seq(NodeType) /\ Len(s) = N
    BY <1>1, SeqDef, LenProperties
  <2> QED BY <2>1, <2>2
<1> QED BY <1>7, <1>8, <1>9 DEF y, N
\* The nodes of D, which are below c or are c, the ix-th child of P, are replaced by
\* new, which adopts the children that D leaves behind.
Adopts(h, R, P, c, D, new) ==
    /\ P \notin R /\ P \notin D /\ c \in D /\ D \subseteq 2 .. Len(h) /\ \A r \in D : r \notin R
    /\ \A r \in D : r = c \/ \E q \in D : r \in Kids(h[q])
    /\ \A j \in 1 .. Len(new) : \A x \in Kids(new[j]) :
          \/ x \in Len(h) + 2 .. Len(h) + Len(new)
          \/ x \notin D /\ \E q \in D : x \in Kids(h[q])
    /\ \A q \in D : \A x \in Kids(h[q]) : x \notin D => \E j \in 1 .. Len(new) : x \in Kids(new[j])
    /\ \A j \in 2 .. Len(new) : Len(h) + j \in Kids(new[1])
    /\ \A i, j \in 1 .. Len(new) : \A x \in Kids(new[i]) : x \in Kids(new[j]) => i = j

\* The new nodes are sound, and the first fits where c was.
Built(h, g, P, c, new, ng) ==
    /\ new \in Seq(NodeType) /\ ng \in Seq(Info) /\ Len(ng) = Len(new) /\ Len(new) >= 1
    /\ \A j \in 1 .. Len(new) : Sound(new[j], ng[j], g \o ng) /\ ~new[j].marked
    /\ ng[1].lo = g[c].lo /\ ng[1].hi = g[c].hi
    /\ P # 1 => ng[1].ht = g[c].ht
    /\ P = 1 => new[1].weight

Fine(h, g, R) == NodesOK(h, g) /\ LinkOK(Len(h), KidsOf(h), R) /\ MarksOK(h, R)

LEMMA Extended ==
    ASSUME NEW S, NEW s \in Seq(S), NEW t \in Seq(S)
    PROVE  /\ s \o t \in Seq(S) /\ Len(s) \in Nat /\ Len(t) \in Nat /\ Len(s \o t) = Len(s) + Len(t)
           /\ \A n \in 1 .. Len(s) : (s \o t)[n] = s[n]
           /\ \A j \in 1 .. Len(t) : (s \o t)[Len(s) + j] = t[j]
<1> DEFINE z == s \o t
           n == Len(s)
           m == Len(t)
<1>1. n \in Nat /\ m \in Nat
  BY LenProperties
<1>2. z \in Seq(S) /\ Len(z) = n + m
      /\ \A j \in 1 .. n + m : (j <= n => z[j] = s[j]) /\ (j > n => z[j] = t[j - n])
  BY ConcatIsJoin DEF IsJoin
<1> HIDE DEF z, n, m
<1>3. \A j \in 1 .. n : j \in 1 .. n + m /\ j <= n
  BY <1>1
<1>4. ASSUME NEW j \in 1 .. m PROVE z[n + j] = t[j]
  <2>1. n + j \in 1 .. n + m /\ n + j > n /\ (n + j) - n = j
    BY <1>1
  <2> QED BY <1>2, <2>1
<1> QED BY <1>1, <1>2, <1>3, <1>4 DEF z, n, m

\* h2 is what an SCX makes of h, and g2 of g.
Scxed(h, g, P, ix, D, new, ng, h2, g2) ==
    /\ Len(h2) = Len(h) + Len(new)
    /\ \A n \in 1 .. Len(h) : h2[n] = Changed(h, P, ix, D)[n] /\ g2[n] = g[n]
    /\ \A j \in 1 .. Len(new) : h2[Len(h) + j] = new[j] /\ g2[Len(h) + j] = ng[j]

\* The place of an SCX.
Place(h, P, ix) == P \in 1 .. Len(h) /\ ~h[P].leaf /\ ix \in 1 .. Len(h[P].ptrs)

\* The nodes after an SCX.
LEMMA ScxNodes ==
    ASSUME NEW h, NEW g, NodesOK(h, g), NEW P, NEW ix, Place(h, P, ix),
           NEW D, NEW new, NEW ng, P \notin D, Built(h, g, P, h[P].ptrs[ix], new, ng)
    PROVE  LET h2 == Changed(h, P, ix, D) \o new
           IN  NodesOK(h2, g \o ng) /\ Scxed(h, g, P, ix, D, new, ng, h2, g \o ng)
<1> USE DEF Place
<1> DEFINE y == Changed(h, P, ix, D)
           h2 == y \o new
           g2 == g \o ng
           N == Len(h)
           m == Len(new)
           c == h[P].ptrs[ix]
<1>1. /\ h \in Seq(NodeType) /\ g \in Seq(Info) /\ Len(g) = N /\ N >= 2
      /\ ~h[1].leaf /\ h[1].weight /\ h[1].keys = <<>> /\ Len(h[1].ptrs) = 1
      /\ h[1].ptrs[1] \in 2 .. N /\ h[h[1].ptrs[1]].weight
      /\ \A key \in Key : g[h[1].ptrs[1]].lo <= key /\ key < g[h[1].ptrs[1]].hi
      /\ \A n \in 2 .. N : Sound(h[n], g[n], g)
  BY DEF NodesOK
<1>2. /\ y \in Seq(NodeType) /\ Len(y) = N
      /\ \A n \in 1 .. N :
            /\ y[n].leaf = h[n].leaf /\ y[n].weight = h[n].weight
            /\ y[n].searchKey = h[n].searchKey /\ y[n].keys = h[n].keys
            /\ n # P => y[n].ptrs = h[n].ptrs
      /\ y[P].ptrs = [h[P].ptrs EXCEPT ![ix] = N + 1]
  <2>1. h \in Seq(NodeType)
    BY <1>1
  <2> QED BY <2>1, ChangedNodes
<1>3. /\ new \in Seq(NodeType) /\ ng \in Seq(Info) /\ Len(ng) = m /\ m >= 1
      /\ \A j \in 1 .. m : Sound(new[j], ng[j], g2)
      /\ ng[1].lo = g[c].lo /\ ng[1].hi = g[c].hi
      /\ P # 1 => ng[1].ht = g[c].ht
      /\ P = 1 => new[1].weight
  BY DEF Built
<1>4. /\ N \in Nat /\ m \in Nat
      /\ h2 \in Seq(NodeType) /\ Len(h2) = N + m
      /\ \A n \in 1 .. N : h2[n] = y[n]
      /\ \A j \in 1 .. m : h2[N + j] = new[j]
  <2>1. y \in Seq(NodeType) /\ new \in Seq(NodeType) /\ Len(y) = N
    BY <1>2, <1>3
  <2> HIDE DEF y
  <2>2. /\ y \o new \in Seq(NodeType) /\ Len(y) \in Nat /\ Len(new) \in Nat
        /\ Len(y \o new) = Len(y) + Len(new)
        /\ \A n \in 1 .. Len(y) : (y \o new)[n] = y[n]
        /\ \A j \in 1 .. Len(new) : (y \o new)[Len(y) + j] = new[j]
    <3>1. y \in Seq(NodeType) /\ new \in Seq(NodeType)
      BY <2>1
    <3> QED BY ONLY <3>1, Extended
  <2> HIDE DEF N
  <2> QED BY <2>1, <2>2
<1>5. /\ g2 \in Seq(Info) /\ Len(g2) = N + m
      /\ \A n \in 1 .. N : g2[n] = g[n]
      /\ \A j \in 1 .. m : g2[N + j] = ng[j]
  <2>1. g \in Seq(Info) /\ ng \in Seq(Info) /\ Len(g) = N /\ Len(ng) = m
    BY <1>1, <1>3
  <2>2. /\ g \o ng \in Seq(Info) /\ Len(g \o ng) = Len(g) + Len(ng)
        /\ \A n \in 1 .. Len(g) : (g \o ng)[n] = g[n]
        /\ \A j \in 1 .. Len(ng) : (g \o ng)[Len(g) + j] = ng[j]
    <3>1. g \in Seq(Info) /\ ng \in Seq(Info)
      BY <2>1
    <3> QED BY ONLY <3>1, Extended
  <2> HIDE DEF N, m
  <2> QED BY <2>1, <2>2
<1> HIDE DEF y, h2, g2, N, m, c
<1>6. /\ \A n \in 2 .. N : n \in 1 .. N
      /\ \A n \in 2 .. N + m : n \in 2 .. N \/ n - N \in 1 .. m
      /\ \A n \in Int : N + (n - N) = n
      /\ N + 1 \in 2 .. N + m /\ N <= N + m /\ 1 \in 1 .. m /\ 1 \in 1 .. N /\ N + m >= 2 /\ N + m \in Nat
      /\ \A n \in 2 .. N : n \in 2 .. N + m
  <2>1. N \in Nat /\ m \in Nat /\ N >= 2 /\ m >= 1
    BY <1>1, <1>3, <1>4
  <2> QED BY <2>1
<1>7. ASSUME NEW n \in 2 .. N PROVE Sound(h[n], g[n], g2)
  <2>1. Sound(h[n], g[n], g) /\ Len(g) \in Nat /\ Len(g2) \in Nat /\ Len(g) <= Len(g2) /\ \A q \in 2 .. Len(g) : g2[q] = g[q]
    BY <1>1, <1>4, <1>5, <1>6
  <2> QED BY <2>1, SoundExtend
<1>8. ASSUME NEW n \in 2 .. N, n # P PROVE Sound(h2[n], g2[n], g2)
  <2>1. h2[n] = y[n] /\ g2[n] = g[n] /\ n \in 1 .. N
    BY <1>4, <1>5, <1>6
  <2>2. /\ y[n].leaf = h[n].leaf /\ y[n].weight = h[n].weight
        /\ y[n].searchKey = h[n].searchKey /\ y[n].keys = h[n].keys /\ y[n].ptrs = h[n].ptrs
    BY <1>2, <1>8, <2>1
  <2>3. y[n] \in NodeType /\ W(y[n]) = W(h[n])
    BY <1>2, <2>1, <2>2, ElementOfSeq DEF W
  <2>4. Sound(h[n], g[n], g2)
    BY <1>7
  <2> QED BY <2>1, <2>2, <2>3, <2>4 DEF Sound
<1>9. ASSUME P # 1 PROVE Sound(h2[P], g2[P], g2)
  <2> DEFINE r == h[P]
             s == y[P]
             x == g[P]
             n == Len(r.keys)
             d == x.ht - W(r)
             p2 == [r.ptrs EXCEPT ![ix] = N + 1]
  <2>1. h2[P] = s /\ g2[P] = x /\ P \in 2 .. N /\ P \in 1 .. N
    <3>1. P \in 1 .. N /\ P \in 2 .. N
      BY <1>4, <1>9 DEF N
    <3> QED BY <1>4, <1>5, <3>1
  <2>2. /\ s.leaf = r.leaf /\ s.weight = r.weight
        /\ s.searchKey = r.searchKey /\ s.keys = r.keys /\ s.ptrs = p2
    BY <1>2, <2>1
  <2>3. s \in NodeType /\ W(s) = W(r)
    BY <1>2, <2>1, <2>2, ElementOfSeq DEF W
  <2>4. Sound(r, x, g2) /\ Sound(r, x, g)
    BY <1>1, <1>7, <2>1
  <2>5. InnerArray(n, r.keys, r.ptrs, x.lo, x.hi, d, g2) /\ n \in Nat /\ Len(r.ptrs) = n + 1
    BY <2>4, SoundInner
  <2>6. c = r.ptrs[ix] /\ ix \in 1 .. n + 1
    BY <2>5 DEF c
  <2>7. g[c].lo = Low(r.keys, x.lo, ix) /\ g[c].hi = High(n, r.keys, x.hi, ix) /\ g[c].ht = d
    <3>1. InnerArray(n, r.keys, r.ptrs, x.lo, x.hi, d, g)
      BY <2>4, SoundInner
    <3>2. Fits(g, r.ptrs[ix], Low(r.keys, x.lo, ix), High(n, r.keys, x.hi, ix), d)
      BY <2>6, <3>1 DEF InnerArray
    <3> QED BY <2>6, <3>2 DEF Fits
  <2>8. Fits(g2, N + 1, Low(r.keys, x.lo, ix), High(n, r.keys, x.hi, ix), d)
    <3>1. g2[N + 1] = ng[1]
      BY <1>5, <1>6
    <3> QED BY <1>3, <1>5, <1>6, <1>9, <2>7, <3>1 DEF Fits
  <2>9. r.ptrs \in Seq(Value \cup Nat) /\ N + 1 \in Value \cup Nat
    <3>1. r \in NodeType
      BY <2>4 DEF Sound
    <3> QED BY <1>4, <3>1, NodeFields
  <2>10. Len(p2) = n + 1 /\ \A j \in 1 .. n + 1 : p2[j] = IF j = ix THEN N + 1 ELSE r.ptrs[j]
    <3>1. Len(p2) = Len(r.ptrs) /\ DOMAIN r.ptrs = 1 .. Len(r.ptrs)
      BY <2>5, <2>6, <2>9, ExceptSeq
    <3> QED BY <2>5, <2>6, <3>1
  <2> HIDE DEF r, s, x, n, d, p2
  <2>11. InnerArray(n, r.keys, p2, x.lo, x.hi, d, g2)
    BY <2>5, <2>8, <2>10 DEF InnerArray
  <2>12. ~r.leaf /\ n = Len(r.keys) /\ d = x.ht - W(r)
    BY DEF r, n, d
  <2>13. Sound(s, x, g2)
    BY <2>2, <2>3, <2>4, <2>5, <2>10, <2>11, <2>12 DEF Sound
  <2> QED BY <2>1, <2>13
<1>10. \A n \in 2 .. N + m : Sound(h2[n], g2[n], g2)
  <2> SUFFICES ASSUME NEW n \in 2 .. N + m PROVE Sound(h2[n], g2[n], g2)
    OBVIOUS
  <2>1. CASE n \in 2 .. N /\ n # P
    BY <1>8, <2>1
  <2>2. CASE n \in 2 .. N /\ n = P
    <3>1. P # 1
      BY <2>2
    <3> QED BY <1>9, <2>2, <3>1
  <2>3. CASE n - N \in 1 .. m
    <3>1. h2[N + (n - N)] = new[n - N] /\ g2[N + (n - N)] = ng[n - N] /\ Sound(new[n - N], ng[n - N], g2)
      BY <1>3, <1>4, <1>5, <2>3
    <3>2. N + (n - N) = n
      BY <1>4
    <3> QED BY <3>1, <3>2
  <2> QED BY <1>6, <2>1, <2>2, <2>3
<1>11. /\ ~h2[1].leaf /\ h2[1].weight /\ h2[1].keys = <<>> /\ Len(h2[1].ptrs) = 1
       /\ h2[1].ptrs[1] \in 2 .. N + m /\ h2[h2[1].ptrs[1]].weight
       /\ \A key \in Key : g2[h2[1].ptrs[1]].lo <= key /\ key < g2[h2[1].ptrs[1]].hi
  <2>1. /\ h2[1] = y[1] /\ ~y[1].leaf /\ y[1].weight /\ y[1].keys = <<>>
    BY <1>1, <1>2, <1>4, <1>6
  <2>2. CASE P # 1
    <3> DEFINE root == h[1].ptrs[1]
    <3>1. y[1].ptrs = h[1].ptrs
      BY <1>2, <1>6, <2>2
    <3>2. root \in 2 .. N /\ root \in 1 .. N /\ root \in 2 .. N + m
      BY <1>1, <1>6
    <3>3. h2[root] = y[root] /\ g2[root] = g[root] /\ y[root].weight = h[root].weight
      BY <1>2, <1>4, <1>5, <3>2
    <3> QED BY <1>1, <2>1, <3>1, <3>2, <3>3
  <2>3. CASE P = 1
    <3>1. ix = 1 /\ c = h[1].ptrs[1]
      BY <1>1, <2>3 DEF c
    <3>2. Len(y[1].ptrs) = 1 /\ y[1].ptrs[1] = N + 1
      <4>1. y[1].ptrs = [h[1].ptrs EXCEPT ![1] = N + 1]
        BY <1>2, <2>3, <3>1
      <4>2. h[1].ptrs \in Seq(Value \cup Nat) /\ N + 1 \in Value \cup Nat
        <5>1. h[1] \in NodeType
          BY <1>1, <1>6, ElementOfSeq DEF N
        <5> QED BY <1>4, <5>1, NodeFields
      <4>3. 1 \in 1 .. Len(h[1].ptrs)
        BY <1>1
      <4>4. Len([h[1].ptrs EXCEPT ![1] = N + 1]) = Len(h[1].ptrs) /\ DOMAIN h[1].ptrs = 1 .. Len(h[1].ptrs)
        BY <4>2, <4>3, ExceptSeq
      <4> QED BY <1>1, <4>1, <4>3, <4>4
    <3>3. h2[N + 1] = new[1] /\ g2[N + 1] = ng[1]
      BY <1>4, <1>5, <1>6
    <3> QED BY <1>1, <1>3, <1>6, <2>1, <2>3, <3>1, <3>2, <3>3
  <2> QED BY <2>2, <2>3
<1>12. NodesOK(h2, g2)
  BY <1>4, <1>5, <1>6, <1>10, <1>11 DEF NodesOK
<1>13. Scxed(h, g, P, ix, D, new, ng, h2, g2)
  BY <1>4, <1>5 DEF Scxed, y, N, m
<1> QED BY <1>12, <1>13 DEF y, h2, g2

\* An SCX whose new nodes are built and adopt what they must keeps the tree fine.
LEMMA ScxFine ==
    ASSUME NEW h, NEW g, NEW R, Fine(h, g, R), NEW P, NEW ix, Place(h, P, ix),
           NEW D, NEW new, NEW ng,
           Adopts(h, R, P, h[P].ptrs[ix], D, new), Built(h, g, P, h[P].ptrs[ix], new, ng)
    PROVE  Fine(Changed(h, P, ix, D) \o new, g \o ng, R \cup D)
<1> DEFINE y == Changed(h, P, ix, D)
           h2 == y \o new
           g2 == g \o ng
           N == Len(h)
           m == Len(new)
           c == h[P].ptrs[ix]
           k == KidsOf(h)
           k2 == KidsOf(h2)
<1>0. P \in 1 .. Len(h) /\ ~h[P].leaf /\ ix \in 1 .. Len(h[P].ptrs)
  BY DEF Place
<1>1. NodesOK(h, g) /\ LinkOK(N, k, R) /\ MarksOK(h, R)
  BY DEF Fine
<1>2. /\ h \in Seq(NodeType) /\ N \in Nat /\ N >= 2 /\ \A n \in 2 .. N : Sound(h[n], g[n], g)
      /\ Len(h[1].ptrs) = 1
  <2>1. h \in Seq(NodeType)
    BY <1>1 DEF NodesOK
  <2> QED BY <1>1, <2>1, LenProperties DEF NodesOK
<1>3. P \notin D
  BY DEF Adopts
<1>4. /\ y \in Seq(NodeType) /\ Len(y) = N
      /\ \A n \in 1 .. N :
            /\ y[n].leaf = h[n].leaf
            /\ n # P => y[n].ptrs = h[n].ptrs
            /\ n \in D => y[n].marked = ~h[n].leaf
            /\ n \notin D => y[n].marked = h[n].marked
      /\ y[P].ptrs = [h[P].ptrs EXCEPT ![ix] = N + 1]
  <2>1. h \in Seq(NodeType)
    BY <1>2
  <2> QED BY <1>0, <1>3, <2>1, ChangedNodes
<1>5. /\ NodesOK(h2, g2) /\ Len(h2) = N + m
      /\ \A n \in 1 .. N : h2[n] = y[n]
      /\ \A j \in 1 .. m : h2[N + j] = new[j]
  <2>1. NodesOK(h2, g2) /\ Scxed(h, g, P, ix, D, new, ng, h2, g2)
    BY <1>1, <1>3, ScxNodes
  <2> HIDE DEF y, h2, g2
  <2> QED BY <2>1 DEF Scxed, y
<1>6. m \in Nat /\ m >= 1 /\ \A j \in 1 .. m : ~new[j].marked
  <2>1. new \in Seq(NodeType)
    BY DEF Built
  <2> QED BY <2>1, LenProperties DEF Built
<1>7. \A n \in 1 .. N : k[n] = Kids(h[n])
  BY DEF KidsOf
<1>8. \A n \in 1 .. N + m : k2[n] = Kids(h2[n])
  BY <1>5 DEF KidsOf
<1> HIDE DEF y, h2, g2, N, m, c, k, k2
<1>9. /\ \A n \in 1 .. N : n \in 1 .. N + m
      /\ \A n \in N + 1 .. N + m : n \in 1 .. N + m /\ n - N \in 1 .. m /\ N + (n - N) = n
      /\ \A j \in 1 .. m : N + j \in N + 1 .. N + m
      /\ \A n \in 1 .. N + m : n \in 1 .. N \/ n \in N + 1 .. N + m
      /\ \A n \in N + 2 .. N + m : n - N \in 2 .. m /\ N + (n - N) = n
      /\ 1 \in 1 .. m /\ 1 \in 1 .. N
      /\ P \in 1 .. N
      /\ \A n \in 2 .. N : n \in 1 .. N
      /\ \A p, q \in N + 1 .. N + m : p - N = q - N => p = q
  <2>1. P \in 1 .. N
    BY <1>0 DEF N
  <2> QED BY <1>2, <1>6, <2>1
<1>10. /\ \A n \in 1 .. N : n # P => k2[n] = k[n]
       /\ \A n \in N + 1 .. N + m : k2[n] = Kids(new[n - N])
  <2>1. ASSUME NEW n \in 1 .. N, n # P PROVE k2[n] = k[n]
    <3>1. h2[n] = y[n] /\ y[n].leaf = h[n].leaf /\ y[n].ptrs = h[n].ptrs
      BY <1>4, <1>5, <2>1
    <3> QED BY <1>7, <1>8, <1>9, <3>1 DEF Kids
  <2>2. ASSUME NEW n \in N + 1 .. N + m PROVE k2[n] = Kids(new[n - N])
    <3>1. h2[N + (n - N)] = new[n - N] /\ N + (n - N) = n
      BY <1>5, <1>9
    <3> QED BY <1>8, <1>9, <3>1
  <2> QED BY <2>1, <2>2
<1>11. k2[P] = (k[P] \ {c}) \cup {N + 1} /\ c \in k[P]
  <2> DEFINE r == h[P]
             q == Len(r.ptrs)
             p2 == [r.ptrs EXCEPT ![ix] = N + 1]
  <2>1. r.ptrs \in Seq(Value \cup Nat) /\ N + 1 \in Value \cup Nat /\ q \in Nat
    <3>1. r \in NodeType
      BY <1>2, <1>9, ElementOfSeq DEF N
    <3> QED BY <1>2, <3>1, NodeFields
  <2>2. ix \in 1 .. q
    BY <1>0
  <2>3. Len(p2) = q /\ \A j \in 1 .. q : p2[j] = IF j = ix THEN N + 1 ELSE r.ptrs[j]
    <3>1. Len(p2) = Len(r.ptrs) /\ DOMAIN r.ptrs = 1 .. Len(r.ptrs)
      BY <2>1, <2>2, ExceptSeq
    <3> QED BY <2>2, <3>1
  <2>4. \A j \in 1 .. q : j # ix => r.ptrs[j] # c
    <3>1. CASE P = 1
      <4>1. q = 1
        BY <1>2, <3>1
      <4> QED BY <2>2, <4>1
    <3>2. CASE P # 1
      <4>1. P \in 2 .. N
        BY <1>2, <1>9, <3>2
      <4>2. Sound(r, g[P], g)
        BY <1>2, <4>1
      <4>3. InnerArray(Len(r.keys), r.keys, r.ptrs, g[P].lo, g[P].hi, g[P].ht - W(r), g) /\ q = Len(r.keys) + 1
        BY <1>0, <4>2, SoundInner
      <4>4. ASSUME NEW j \in 1 .. q, j # ix PROVE r.ptrs[j] # r.ptrs[ix]
        <5>1. j < ix \/ ix < j
          BY <2>1, <2>2, <4>4
        <5>2. CASE j < ix
          BY <2>2, <4>3, <5>2, DistinctKids
        <5>3. CASE ix < j
          BY <2>2, <4>3, <5>3, DistinctKids
        <5> QED BY <5>1, <5>2, <5>3
      <4> QED BY <4>4 DEF c
    <3> QED BY <3>1, <3>2
  <2>5. k[P] = {r.ptrs[j] : j \in 1 .. q}
    BY <1>0, <1>7, <1>9 DEF Kids, Elems
  <2>6. k2[P] = {p2[j] : j \in 1 .. q}
    <3>1. h2[P] = y[P] /\ ~y[P].leaf /\ y[P].ptrs = p2
      BY <1>0, <1>4, <1>5, <1>9
    <3>2. k2[P] = Kids(h2[P])
      BY <1>8, <1>9
    <3>3. Len(p2) = q
      BY <2>3
    <3> HIDE DEF p2, q
    <3> QED BY <3>1, <3>2, <3>3 DEF Kids, Elems
  <2>7. c = r.ptrs[ix]
    BY DEF c
  <2> HIDE DEF r, q, p2
  <2>8. c \in k[P]
    BY <2>2, <2>5, <2>7
  <2>9. ASSUME NEW j \in 1 .. q PROVE p2[j] \in (k[P] \ {c}) \cup {N + 1}
    <3>1. CASE j = ix
      BY <2>3, <3>1
    <3>2. CASE j # ix
      BY <2>3, <2>4, <2>5, <3>2
    <3> QED BY <3>1, <3>2
  <2>10. N + 1 \in k2[P]
    BY <2>2, <2>3, <2>6
  <2>11. ASSUME NEW j \in 1 .. q, r.ptrs[j] # c PROVE r.ptrs[j] \in k2[P]
    <3>1. p2[j] = r.ptrs[j]
      BY <2>3, <2>7, <2>11
    <3> QED BY <2>6, <3>1
  <2> QED BY <2>5, <2>6, <2>8, <2>9, <2>10, <2>11
<1>12. /\ P \notin R /\ P \notin D /\ c \in D /\ D \subseteq 2 .. N /\ \A r \in D : r \notin R
       /\ \A r \in D : r = c \/ \E q \in D : r \in Kids(h[q])
       /\ \A j \in 1 .. m : \A x \in Kids(new[j]) :
             \/ x \in N + 2 .. N + m
             \/ x \notin D /\ \E q \in D : x \in Kids(h[q])
       /\ \A q \in D : \A x \in Kids(h[q]) : x \notin D => \E j \in 1 .. m : x \in Kids(new[j])
       /\ \A j \in 2 .. m : N + j \in Kids(new[1])
       /\ \A i, j \in 1 .. m : \A x \in Kids(new[i]) : x \in Kids(new[j]) => i = j
  BY DEF Adopts, N, m, c
<1>13. \A q \in D : k[q] = Kids(h[q])
  BY <1>7, <1>9, <1>12
<1>14. Replaced(N, m, k, k2, R, P, c, D)
  <2>1. \A n \in N + 1 .. N + m : \A x \in k2[n] :
             \/ x \in N + 2 .. N + m
             \/ x \notin D /\ \E q \in D : x \in k[q]
    <3> SUFFICES ASSUME NEW n \in N + 1 .. N + m, NEW x \in k2[n], x \notin N + 2 .. N + m
                 PROVE  x \notin D /\ \E q \in D : x \in k[q]
      OBVIOUS
    <3>1. n - N \in 1 .. m /\ x \in Kids(new[n - N])
      BY <1>9, <1>10
    <3>2. x \notin D /\ \E q \in D : x \in Kids(h[q])
      BY <1>12, <3>1
    <3> QED BY <1>13, <3>2
  <2>2. ASSUME NEW q \in D, NEW x \in k[q], x \notin D PROVE \E n \in N + 1 .. N + m : x \in k2[n]
    <3>1. PICK j \in 1 .. m : x \in Kids(new[j])
      BY <1>12, <1>13, <2>2
    <3>2. N + j \in N + 1 .. N + m /\ (N + j) - N = j
      BY <1>2, <1>6, <1>9
    <3>3. x \in k2[N + j]
      BY <1>10, <3>1, <3>2
    <3> QED BY <3>2, <3>3
  <2>3. ASSUME NEW x \in N + 2 .. N + m PROVE x \in k2[N + 1]
    <3>1. N + (x - N) \in Kids(new[1]) /\ N + (x - N) = x
      BY <1>9, <1>12
    <3>2. N + 1 \in N + 1 .. N + m /\ (N + 1) - N = 1
      BY <1>2, <1>6
    <3> QED BY <1>10, <3>1, <3>2
  <2>4. ASSUME NEW p \in N + 1 .. N + m, NEW q \in N + 1 .. N + m, NEW x \in k2[p], x \in k2[q] PROVE p = q
    <3>1. p - N \in 1 .. m /\ q - N \in 1 .. m /\ x \in Kids(new[p - N]) /\ x \in Kids(new[q - N])
      BY <1>9, <1>10, <2>4
    <3>2. p - N = q - N
      BY <1>12, <3>1
    <3> QED BY <1>9, <3>2
  <2>5. \A r \in D : r = c \/ \E q \in D : r \in k[q]
    BY <1>12, <1>13
  <2> QED BY <1>2, <1>6, <1>9, <1>10, <1>11, <1>12, <2>1, <2>2, <2>3, <2>4, <2>5 DEF Replaced
<1>15. LinkOK(N + m, k2, R \cup D)
  BY <1>1, <1>14, GraphStep
<1>16. MarksOK(h2, R \cup D)
  <2> SUFFICES ASSUME NEW n \in 1 .. N + m, ~h2[n].leaf PROVE h2[n].marked <=> n \in R \cup D
    BY <1>5 DEF MarksOK
  <2>1. CASE n \in 1 .. N
    <3>1. h2[n] = y[n] /\ ~h[n].leaf /\ (n \in D => y[n].marked) /\ (n \notin D => y[n].marked = h[n].marked)
      BY <1>4, <1>5, <2>1
    <3>2. h[n].marked <=> n \in R
      BY <1>1, <2>1, <3>1 DEF MarksOK, N
    <3> QED BY <3>1, <3>2
  <2>2. CASE n \in N + 1 .. N + m
    <3>1. ~h2[n].marked
      BY <1>5, <1>6, <1>9, <2>2
    <3>2. n \notin 2 .. N
      BY <1>2, <2>2
    <3>3. R \subseteq 2 .. N /\ D \subseteq 2 .. N
      BY <1>1, <1>12 DEF LinkOK
    <3> QED BY <3>1, <3>2, <3>3
  <2> QED BY <1>9, <2>1, <2>2
<1>17. Fine(h2, g2, R \cup D)
  BY <1>5, <1>15, <1>16 DEF Fine, k2
<1> QED BY <1>17 DEF h2, g2, y
---------------------------------------------------------------------------
(* Subtrees *)

\* The graph with the children k[n] is ranked by rk.
Ranked(N, k, rk) ==
    /\ N \in Nat
    /\ \A n \in 1 .. N : rk[n] \in Nat /\ \A x \in k[n] : x \in 1 .. N /\ rk[x] < rk[n]

IsBelow(f, N, k) ==
    /\ DOMAIN f = 1 .. N
    /\ \A n \in 1 .. N : f[n] = {n} \cup UNION {f[x] : x \in k[n]}

Closed(S, k) == \A n \in S : \A x \in k[n] : x \in S

\* The member of least rank.
LEMMA LeastRank ==
    ASSUME NEW N, NEW k, NEW rk, Ranked(N, k, rk), NEW T, T \subseteq 1 .. N, T # {}
    PROVE  \E n \in T : \A x \in k[n] : x \in 1 .. N /\ x \notin T
<1> DEFINE U == {rk[n] : n \in T}
<1>1. U \in SUBSET Nat /\ U # {}
  BY DEF Ranked
<1>2. PICK u \in U : \A v \in U : u <= v
  BY <1>1, Least
<1>3. PICK n \in T : u = rk[n]
  BY <1>2
<1>4. ASSUME NEW x \in k[n] PROVE x \in 1 .. N /\ x \notin T
  <2>1. x \in 1 .. N /\ rk[x] < rk[n] /\ rk[x] \in Nat /\ rk[n] \in Nat
    BY <1>3 DEF Ranked
  <2>2. x \in T => rk[n] <= rk[x]
    BY <1>2, <1>3
  <2> QED BY <2>1, <2>2
<1> QED BY <1>4

LEMMA GreatestRank ==
    ASSUME NEW N, NEW k, NEW rk, Ranked(N, k, rk), NEW T, T \subseteq 1 .. N, T # {}
    PROVE  \E n \in T : \A q \in 1 .. N : n \in k[q] => q \notin T
<1> DEFINE U == {rk[n] : n \in T}
<1>1. U \in SUBSET Nat /\ U # {}
  BY DEF Ranked
<1>2. IsFiniteSet(U)
  <2>1. IsFiniteSet(T)
    <3>1. IsFiniteSet(1 .. N)
      BY FS_Interval DEF Ranked
    <3> QED BY <3>1, FS_Subset
  <2>2. [n \in T |-> rk[n]] \in Surjection(T, U)
    BY DEF Surjection
  <2> HIDE DEF U
  <2> QED BY <2>1, <2>2, FS_Surjection
<1> HIDE DEF U
<1>3. Max(U) \in U /\ \A v \in U : v <= Max(U)
  BY <1>1, <1>2, MaxExists
<1>4. PICK n \in T : Max(U) = rk[n]
  BY <1>3 DEF U
<1>5. ASSUME NEW q \in 1 .. N, n \in k[q] PROVE q \notin T
  <2>1. rk[n] < rk[q] /\ rk[n] \in Nat /\ rk[q] \in Nat
    BY <1>4, <1>5 DEF Ranked
  <2>2. q \in T => rk[q] <= rk[n]
    BY <1>3, <1>4 DEF U
  <2> QED BY <2>1, <2>2
<1> QED BY <1>5

LEMMA BelowLeast ==
    ASSUME NEW N, NEW k, NEW rk, Ranked(N, k, rk), NEW f, IsBelow(f, N, k),
           NEW S, Closed(S, k), NEW n \in 1 .. N, n \in S
    PROVE  f[n] \subseteq S
<1> DEFINE T == {i \in 1 .. N : i \in S /\ ~(f[i] \subseteq S)}
<1> SUFFICES ASSUME T # {} PROVE FALSE
  OBVIOUS
<1>1. PICK i \in T : \A x \in k[i] : x \in 1 .. N /\ x \notin T
  <2>1. T \subseteq 1 .. N
    OBVIOUS
  <2> HIDE DEF T
  <2> QED BY <2>1, LeastRank
<1>2. \A x \in k[i] : x \in S
  BY <1>1 DEF Closed
<1>3. \A x \in k[i] : f[x] \subseteq S
  BY <1>1, <1>2
<1>4. f[i] = {i} \cup UNION {f[x] : x \in k[i]}
  BY <1>1 DEF IsBelow
<1> QED BY <1>1, <1>3, <1>4

LEMMA BelowClosed ==
    ASSUME NEW N, NEW k, NEW rk, Ranked(N, k, rk), NEW f, IsBelow(f, N, k), NEW n \in 1 .. N
    PROVE  n \in f[n] /\ f[n] \subseteq 1 .. N /\ Closed(f[n], k)
<1>0. \A i \in 1 .. N : i \in f[i]
  BY DEF IsBelow
<1> DEFINE T == {i \in 1 .. N : ~Closed(f[i], k)}
<1>1. ASSUME T # {} PROVE FALSE
  <2>1. PICK i \in T : \A x \in k[i] : x \in 1 .. N /\ x \notin T
    <3>1. T \subseteq 1 .. N /\ T # {}
      BY <1>1
    <3> HIDE DEF T
    <3> QED BY <3>1, LeastRank
  <2>2. \A x \in k[i] : Closed(f[x], k) /\ x \in f[x]
    BY <1>0, <2>1
  <2>3. f[i] = {i} \cup UNION {f[x] : x \in k[i]}
    BY <2>1 DEF IsBelow
  <2>4. ASSUME NEW y \in f[i], NEW z \in k[y] PROVE z \in f[i]
    <3>1. CASE y = i
      BY <2>2, <2>3, <2>4, <3>1
    <3>2. CASE \E x \in k[i] : y \in f[x]
      <4>1. PICK x \in k[i] : y \in f[x]
        BY <3>2
      <4>2. z \in f[x]
        BY <2>2, <2>4, <4>1 DEF Closed
      <4> QED BY <2>3, <4>1, <4>2
    <3> QED BY <2>3, <2>4, <3>1, <3>2
  <2>5. Closed(f[i], k)
    BY <2>4 DEF Closed
  <2> QED BY <2>1, <2>5
<1>2. Closed(1 .. N, k)
  BY DEF Closed, Ranked
<1>3. f[n] \subseteq 1 .. N
  BY <1>2, BelowLeast
<1> QED BY <1>0, <1>1, <1>3

LEMMA BelowExists ==
    ASSUME NEW N, NEW k, NEW rk, Ranked(N, k, rk)
    PROVE  \E f : f = [n \in 1 .. N |-> {n} \cup UNION {f[x] : x \in k[n]}]
<1> DEFINE B(n) == {m \in 1 .. N : \A S \in SUBSET (1 .. N) : n \in S /\ Closed(S, k) => m \in S}
           f == [n \in 1 .. N |-> B(n)]
<1>0. \A n \in 1 .. N : \A x \in k[n] : x \in 1 .. N
  BY DEF Ranked
<1>1. ASSUME NEW n \in 1 .. N PROVE n \in B(n)
  OBVIOUS
<1>2. ASSUME NEW n \in 1 .. N, NEW y \in B(n), NEW x \in k[y] PROVE x \in B(n)
  BY <1>0, <1>2 DEF Closed
<1>3. ASSUME NEW n \in 1 .. N PROVE f[n] = {n} \cup UNION {f[x] : x \in k[n]}
  <2> DEFINE T == {n} \cup UNION {B(x) : x \in k[n]}
  <2>1. T = {n} \cup UNION {f[x] : x \in k[n]}
    <3>1. \A x \in k[n] : f[x] = B(x)
      BY <1>0
    <3> HIDE DEF f, B
    <3> QED BY <3>1
  <2>2. T \subseteq B(n)
    <3>1. ASSUME NEW x \in k[n], NEW m \in B(x), NEW S \in SUBSET (1 .. N), n \in S, Closed(S, k) PROVE m \in S
      <4>1. x \in S
        BY <3>1 DEF Closed
      <4> QED BY <3>1, <4>1
    <3> QED BY <1>1, <3>1
  <2>3. T \in SUBSET (1 .. N)
    OBVIOUS
  <2>4. Closed(T, k)
    <3> SUFFICES ASSUME NEW y \in T, NEW x \in k[y] PROVE x \in T
      BY DEF Closed
    <3>1. CASE y = n
      <4>1. x \in B(x)
        BY <1>0, <1>1, <3>1
      <4> QED BY <3>1, <4>1
    <3>2. CASE \E z \in k[n] : y \in B(z)
      <4>1. PICK z \in k[n] : y \in B(z)
        BY <3>2
      <4>2. x \in B(z)
        BY <1>0, <1>2, <4>1
      <4> QED BY <4>1, <4>2
    <3> QED BY <3>1, <3>2
  <2>5. B(n) \subseteq T
    <3>1. n \in T
      OBVIOUS
    <3> HIDE DEF T
    <3> QED BY <2>3, <2>4, <3>1
  <2>6. B(n) = T
    BY <2>2, <2>5
  <2>7. f[n] = B(n)
    OBVIOUS
  <2> HIDE DEF B, f, T
  <2> QED BY <2>1, <2>6, <2>7
<1>4. f = [n \in 1 .. N |-> f[n]]
  OBVIOUS
<1> HIDE DEF f
<1>5. f = [n \in 1 .. N |-> {n} \cup UNION {f[x] : x \in k[n]}]
  BY <1>3, <1>4
<1> QED BY <1>5
TreeRank(h, g) ==
    [n \in 1 .. Len(h) |-> IF n = 1 THEN 1 + Rank(g[h[1].ptrs[1]]) ELSE Rank(g[n])]

\* The root is the child of entry.
LEMMA Entry ==
    ASSUME NEW h, NEW g, NodesOK(h, g)
    PROVE  Kids(h[1]) = {h[1].ptrs[1]} /\ h[1].ptrs[1] \in 2 .. Len(h)
BY DEF NodesOK, Kids, Elems

LEMMA HeapType ==
    ASSUME NEW h, NEW g, NodesOK(h, g)
    PROVE  /\ Len(h) \in Nat /\ Len(h) >= 2 /\ Len(g) = Len(h) /\ DOMAIN h = 1 .. Len(h)
           /\ \A n \in 1 .. Len(h) : h[n] \in NodeType
           /\ \A n \in 2 .. Len(h) : Sound(h[n], g[n], g) /\ n \in 1 .. Len(h)
<1>1. h \in Seq(NodeType) /\ Len(h) >= 2 /\ Len(g) = Len(h) /\ \A n \in 2 .. Len(h) : Sound(h[n], g[n], g)
  BY DEF NodesOK
<1>2. Len(h) \in Nat /\ DOMAIN h = 1 .. Len(h) /\ \A n \in 1 .. Len(h) : h[n] \in NodeType
  BY <1>1, LenProperties, ElementOfSeq
<1>3. \A n \in 2 .. Len(h) : n \in 1 .. Len(h)
  BY <1>2
<1> QED BY <1>1, <1>2, <1>3

\* Children have smaller bounds.
LEMMA KidOf ==
    ASSUME NEW h, NEW g, NodesOK(h, g), NEW n \in 2 .. Len(h), NEW c \in Kids(h[n])
    PROVE  /\ ~h[n].leaf /\ c \in 2 .. Len(h) /\ Rank(g[c]) < Rank(g[n])
           /\ g[n].lo <= g[c].lo /\ g[c].hi <= g[n].hi /\ g[c].ht = g[n].ht - W(h[n])
           /\ g[c].lo \in Int /\ g[c].hi \in Int
           /\ \E i \in 1 .. Len(h[n].keys) + 1 : c = h[n].ptrs[i]
<1> DEFINE r == h[n]
           x == g[n]
<1>1. Sound(r, x, g) /\ Len(g) = Len(h)
  BY HeapType
<1>2. ~r.leaf
  BY DEF Kids
<1> HIDE DEF r, x
<1>3. c \in Kids(r)
  BY DEF r
<1>4. PICK i \in 1 .. Len(r.keys) + 1 : c = r.ptrs[i]
  BY <1>1, <1>2, <1>3, SoundInner
<1>5. /\ r.ptrs[i] \in 2 .. Len(g) /\ Rank(g[r.ptrs[i]]) < Rank(x)
      /\ x.lo <= g[r.ptrs[i]].lo /\ g[r.ptrs[i]].hi <= x.hi /\ g[r.ptrs[i]].ht = x.ht - W(r)
      /\ g[r.ptrs[i]].lo \in Int /\ g[r.ptrs[i]].hi \in Int
  BY <1>1, <1>2, Kid
<1> QED BY <1>1, <1>2, <1>4, <1>5 DEF r, x

LEMMA NodesRanked ==
    ASSUME NEW h, NEW g, NodesOK(h, g)
    PROVE  Ranked(Len(h), KidsOf(h), TreeRank(h, g))
<1> DEFINE N == Len(h)
           k == KidsOf(h)
           rk == TreeRank(h, g)
           root == h[1].ptrs[1]
<1>1. N \in Nat /\ N >= 2 /\ root \in 2 .. N /\ Kids(h[1]) = {root} /\ \A n \in 2 .. N : n \in 1 .. N
  BY HeapType, Entry
<1>2. \A n \in 2 .. N : Rank(g[n]) \in Nat
  <2> SUFFICES ASSUME NEW n \in 2 .. N PROVE Rank(g[n]) \in Nat
    OBVIOUS
  <2>1. Sound(h[n], g[n], g)
    BY HeapType
  <2> QED BY <2>1, RankType
<1>3. /\ \A n \in 1 .. N : k[n] = Kids(h[n])
      /\ rk[1] = 1 + Rank(g[root])
      /\ \A n \in 2 .. N : rk[n] = Rank(g[n])
  BY <1>1 DEF KidsOf, TreeRank
<1>4. \A n \in 2 .. N : \A x \in Kids(h[n]) : x \in 2 .. N /\ Rank(g[x]) < Rank(g[n])
  BY KidOf
<1> HIDE DEF N, k, rk, root
<1>5. ASSUME NEW n \in 1 .. N PROVE rk[n] \in Nat /\ \A x \in k[n] : x \in 1 .. N /\ rk[x] < rk[n]
  <2>1. CASE n = 1
    BY <1>1, <1>2, <1>3, <2>1
  <2>2. CASE n # 1
    <3>1. n \in 2 .. N
      BY <1>1, <2>2
    <3>2. rk[n] \in Nat /\ rk[n] = Rank(g[n])
      BY <1>2, <1>3, <3>1
    <3>3. ASSUME NEW x \in k[n] PROVE x \in 1 .. N /\ rk[x] < rk[n]
      BY <1>1, <1>3, <1>4, <3>1, <3>2
    <3> QED BY <3>2, <3>3
  <2> QED BY <2>1, <2>2
<1>6. Ranked(N, k, rk)
  BY <1>1, <1>5 DEF Ranked
<1> QED BY <1>6 DEF N, k, rk

LEMMA ChildrenAreKids ==
    ASSUME NEW g, NodesOK(heap, g)
    PROVE  \A n \in DOMAIN heap : Children(n) = KidsOf(heap)[n] /\ Children(n) = Kids(heap[n])
<1> SUFFICES ASSUME NEW n \in DOMAIN heap
             PROVE  Children(n) = KidsOf(heap)[n] /\ Children(n) = Kids(heap[n])
  OBVIOUS
<1>1. n \in 1 .. Len(heap) /\ heap[n] \in NodeType
  BY HeapType
<1>2. heap[n].ptrs \in Seq(Value \cup Nat)
  BY <1>1, NodeFields
<1>3. DOMAIN heap[n].ptrs = 1 .. Len(heap[n].ptrs)
  BY <1>2, LenProperties
<1> QED BY <1>1, <1>3 DEF Children, KidsOf, Kids, Elems

\* Below is what its definition says.
LEMMA BelowIs ==
    ASSUME NEW g, NodesOK(heap, g)
    PROVE  IsBelow(Below, Len(heap), KidsOf(heap))
<1> DEFINE N == Len(heap)
           k == KidsOf(heap)
<1>1. DOMAIN heap = 1 .. N
  BY HeapType
<1>2. \A n \in 1 .. N : Children(n) = k[n]
  BY <1>1, ChildrenAreKids
<1>3. PICK f : f = [n \in 1 .. N |-> {n} \cup UNION {f[x] : x \in k[n]}]
  BY NodesRanked, BelowExists
<1> HIDE DEF N, k
<1>4. f = [n \in DOMAIN heap |-> {n} \cup UNION {f[c] : c \in Children(n)}]
  BY <1>1, <1>2, <1>3
<1>5. Below = [n \in DOMAIN heap |-> {n} \cup UNION {Below[c] : c \in Children(n)}]
  BY <1>4 DEF Below
<1>6. IsBelow(Below, N, k)
  BY <1>1, <1>2, <1>5 DEF IsBelow
<1> QED BY <1>6 DEF N, k

\* What is in the tree is what has not been removed.
LEMMA LinkedIs ==
    ASSUME NEW g, Fine(heap, g, retired)
    PROVE  Linked = (1 .. Len(heap)) \ retired
<1> DEFINE N == Len(heap)
           k == KidsOf(heap)
           rk == TreeRank(heap, g)
           L == (1 .. N) \ retired
<1>1. Ranked(N, k, rk) /\ IsBelow(Below, N, k) /\ N \in Nat /\ N >= 2
  BY NodesRanked, BelowIs, HeapType DEF Fine
<1>2. LinkOK(N, k, retired)
  BY DEF Fine
<1> HIDE DEF N, k, rk
<1>3. Closed(L, k)
  BY <1>1, <1>2 DEF Closed, LinkOK
<1>4. 1 \in 1 .. N /\ 1 \in L
  BY <1>1, <1>2 DEF LinkOK
<1>5. Below[1] \subseteq L
  <2> HIDE DEF L
  <2> QED BY <1>1, <1>3, <1>4, BelowLeast
<1>6. 1 \in Below[1] /\ Closed(Below[1], k)
  BY <1>1, <1>4, BelowClosed
<1> DEFINE T == L \ Below[1]
<1>7. ASSUME T # {} PROVE FALSE
  <2>1. PICK n \in T : \A q \in 1 .. N : n \in k[q] => q \notin T
    <3>1. T \subseteq 1 .. N /\ T # {}
      BY <1>7
    <3> HIDE DEF T
    <3> QED BY <1>1, <3>1, GreatestRank
  <2>2. n # 1 /\ n \in 2 .. N /\ n \notin retired
    BY <1>1, <1>6, <2>1
  <2>3. PICK q \in 1 .. N : q \notin retired /\ n \in k[q]
    BY <1>2, <2>2 DEF LinkOK
  <2>4. q \in Below[1]
    BY <2>1, <2>3
  <2>5. n \in Below[1]
    BY <1>6, <2>3, <2>4 DEF Closed
  <2> QED BY <2>1, <2>5
<1>8. Below[1] = L
  BY <1>5, <1>7
<1> QED BY <1>8 DEF Linked, entry, N

\* The bounds of what is below a node.
LEMMA BelowBounds ==
    ASSUME NEW g, NodesOK(heap, g), NEW n \in 2 .. Len(heap), NEW m \in Below[n]
    PROVE  m \in 2 .. Len(heap) /\ g[n].lo <= g[m].lo /\ g[m].hi <= g[n].hi
<1> DEFINE N == Len(heap)
           k == KidsOf(heap)
           rk == TreeRank(heap, g)
           S == {i \in 2 .. N : g[n].lo <= g[i].lo /\ g[i].hi <= g[n].hi}
<1>1. Ranked(N, k, rk) /\ IsBelow(Below, N, k) /\ N \in Nat /\ n \in 1 .. N
  BY NodesRanked, BelowIs, HeapType
<1>2. \A i \in 2 .. N : g[i].lo \in Int /\ g[i].hi \in Int
  <2> SUFFICES ASSUME NEW i \in 2 .. N PROVE g[i].lo \in Int /\ g[i].hi \in Int
    OBVIOUS
  <2>1. Sound(heap[i], g[i], g)
    BY HeapType
  <2> QED BY <2>1, RankType
<1>3. n \in S
  BY <1>2
<1>4. Closed(S, k)
  <2> SUFFICES ASSUME NEW i \in S, NEW x \in k[i] PROVE x \in S
    BY DEF Closed
  <2>1. i \in 2 .. N /\ i \in 1 .. N
    BY <1>1
  <2>2. x \in Kids(heap[i])
    BY <2>1 DEF KidsOf
  <2>3. x \in 2 .. N /\ g[i].lo <= g[x].lo /\ g[x].hi <= g[i].hi
    BY <2>1, <2>2, KidOf
  <2>4. g[n].lo <= g[i].lo /\ g[i].hi <= g[n].hi
    OBVIOUS
  <2>5. g[n].lo <= g[x].lo /\ g[x].hi <= g[n].hi
    BY <1>2, <2>1, <2>3, <2>4
  <2> QED BY <2>3, <2>5
<1> HIDE DEF S, N, k, rk
<1>5. Below[n] \subseteq S
  BY <1>1, <1>3, <1>4, BelowLeast
<1> QED BY <1>5 DEF S, N
\* The keys of a node are within its bounds, and sorted.
LEMMA KeysWithin ==
    ASSUME NEW g, NEW r, NEW x, Sound(r, x, g)
    PROVE  /\ x.lo \in Int /\ x.hi \in Int /\ r.searchKey \in Int
           /\ x.lo <= r.searchKey /\ r.searchKey < x.hi
           /\ DOMAIN r.keys = 1 .. Len(r.keys) /\ DOMAIN r.ptrs = 1 .. Len(r.ptrs)
           /\ \A i \in 1 .. Len(r.keys) : r.keys[i] \in Int /\ x.lo <= r.keys[i] /\ r.keys[i] < x.hi
           /\ \A i, j \in 1 .. Len(r.keys) : i < j => r.keys[i] < r.keys[j]
<1>1. r \in NodeType /\ x \in Info /\ x.lo <= r.searchKey /\ r.searchKey < x.hi
  BY DEF Sound
<1>2. r.searchKey \in Int /\ r.keys \in Seq(Key) /\ r.ptrs \in Seq(Value \cup Nat)
  BY <1>1, NodeFields
<1>3. DOMAIN r.keys = 1 .. Len(r.keys) /\ DOMAIN r.ptrs = 1 .. Len(r.ptrs)
  BY <1>2, LenProperties
<1>4. x.lo \in Int /\ x.hi \in Int
  BY <1>1, InfoFields
<1>5. CASE r.leaf
  <2>1. LeafArray(Len(r.keys), r.keys, r.ptrs, x.lo, x.hi)
    BY <1>5 DEF Sound
  <2> QED BY <1>1, <1>2, <1>3, <1>4, <2>1 DEF LeafArray
<1>6. CASE ~r.leaf
  <2>1. InnerArray(Len(r.keys), r.keys, r.ptrs, x.lo, x.hi, x.ht - W(r), g)
    BY <1>6 DEF Sound
  <2>2. /\ \A i \in 1 .. Len(r.keys) : r.keys[i] \in Int /\ x.lo < r.keys[i] /\ r.keys[i] < x.hi
        /\ \A i, j \in 1 .. Len(r.keys) : i < j => r.keys[i] < r.keys[j]
    BY <2>1 DEF InnerArray
  <2>3. \A i \in 1 .. Len(r.keys) : x.lo <= r.keys[i]
    BY <1>4, <2>2
  <2> QED BY <1>1, <1>2, <1>3, <1>4, <2>2, <2>3
<1> QED BY <1>5, <1>6

LEMMA FineOrdered ==
    ASSUME NEW g, Fine(heap, g, retired)
    PROVE  Ordered
<1>0. NodesOK(heap, g)
  BY DEF Fine
<1> DEFINE N == Len(heap)
           KeysIn(m) == {heap[m].searchKey} \cup {heap[m].keys[i] : i \in DOMAIN heap[m].keys}
<1>1. Linked \subseteq 1 .. N
  BY LinkedIs
<1>2. N \in Nat /\ N >= 2 /\ \A n \in 2 .. N : Sound(heap[n], g[n], g)
  BY <1>0, HeapType
<1>3. ASSUME NEW m \in 2 .. N, NEW key \in KeysIn(m)
      PROVE  key \in Int /\ g[m].lo <= key /\ key < g[m].hi
  <2>1. Sound(heap[m], g[m], g)
    BY <1>2
  <2> DEFINE r == heap[m]
             x == g[m]
  <2>2. key = r.searchKey \/ \E i \in DOMAIN r.keys : key = r.keys[i]
    OBVIOUS
  <2> HIDE DEF r, x
  <2>3. Sound(r, x, g)
    BY <2>1 DEF r, x
  <2>4. key \in Int /\ x.lo <= key /\ key < x.hi
    BY <2>2, <2>3, KeysWithin
  <2> QED BY <2>4 DEF x
<1>4. ASSUME NEW n \in Linked
      PROVE  LET ks == heap[n].keys
             IN  /\ \A i, j \in DOMAIN ks : i < j => ks[i] < ks[j]
                 /\ heap[n].leaf \/ \A i \in DOMAIN heap[n].ptrs :
                       \A m \in Below[heap[n].ptrs[i]] : \A key \in KeysIn(m) :
                          (i > 1 => ks[i - 1] <= key) /\ (i <= Len(ks) => key < ks[i])
  <2> HIDE DEF KeysIn
  <2>1. CASE n = 1
    <3>1. heap[1].keys = <<>> /\ Len(heap[1].ptrs) = 1
      BY <1>0 DEF NodesOK
    <3>2. DOMAIN heap[1].ptrs = 1 .. Len(heap[1].ptrs)
      <4>1. heap[1] \in NodeType
        BY <1>0, <1>2, HeapType
      <4>2. heap[1].ptrs \in Seq(Value \cup Nat)
        BY <4>1, NodeFields
      <4> QED BY <4>2, LenProperties
    <3>3. Len(heap[1].keys) = 0 /\ DOMAIN heap[1].keys = {}
      BY <3>1
    <3>4. \A i \in DOMAIN heap[1].ptrs : i = 1
      BY <3>1, <3>2
    <3> QED BY <2>1, <3>3, <3>4
  <2>2. CASE n # 1
    <3> DEFINE r == heap[n]
               x == g[n]
    <3>1. n \in 2 .. N
      BY <1>1, <1>2, <2>2
    <3>2. Sound(r, x, g)
      BY <1>2, <3>1
    <3>3. /\ DOMAIN r.keys = 1 .. Len(r.keys) /\ DOMAIN r.ptrs = 1 .. Len(r.ptrs)
          /\ \A i, j \in 1 .. Len(r.keys) : i < j => r.keys[i] < r.keys[j]
          /\ \A i \in 1 .. Len(r.keys) : r.keys[i] \in Int
      BY <3>2, KeysWithin
    <3>4. ASSUME ~r.leaf, NEW i \in DOMAIN r.ptrs, NEW m \in Below[r.ptrs[i]], NEW key \in KeysIn(m)
          PROVE  (i > 1 => r.keys[i - 1] <= key) /\ (i <= Len(r.keys) => key < r.keys[i])
      <4> DEFINE c == r.ptrs[i]
      <4>1. Len(r.keys) \in Nat /\ Len(r.ptrs) = Len(r.keys) + 1
        BY <3>2, <3>4, SoundInner
      <4>2. i \in 1 .. Len(r.keys) + 1
        BY <3>3, <4>1
      <4>3. c \in 2 .. Len(g) /\ g[c].lo = Low(r.keys, x.lo, i) /\ g[c].hi = High(Len(r.keys), r.keys, x.hi, i)
        BY <3>2, <3>4, <4>2, Kid
      <4>4. c \in 2 .. N
        BY <1>0, <4>3, HeapType
      <4> HIDE DEF c
      <4>5. m \in 2 .. N /\ g[c].lo <= g[m].lo /\ g[m].hi <= g[c].hi
        BY <1>0, <3>4, <4>4, BelowBounds DEF c
      <4>6. key \in Int /\ g[m].lo <= key /\ key < g[m].hi
        BY <1>3, <3>4, <4>5
      <4>7. g[c].lo \in Int /\ g[c].hi \in Int /\ g[m].lo \in Int /\ g[m].hi \in Int
        <5>1. Sound(heap[c], g[c], g) /\ Sound(heap[m], g[m], g)
          BY <1>2, <4>4, <4>5
        <5> QED BY <5>1, RankType
      <4>8. g[c].lo <= key /\ key < g[c].hi
        BY <4>5, <4>6, <4>7
      <4>9. i > 1 => g[c].lo = r.keys[i - 1]
        BY <4>2, <4>3 DEF Low
      <4>10. i <= Len(r.keys) => g[c].hi = r.keys[i]
        <5>1. i <= Len(r.keys) => i # Len(r.keys) + 1
          BY <4>1
        <5> QED BY <4>3, <5>1 DEF High
      <4> QED BY <4>8, <4>9, <4>10
    <3> QED BY <3>3, <3>4
  <2> QED BY <2>1, <2>2
<1> QED BY <1>4 DEF Ordered

LEMMA FineRetired ==
    ASSUME NEW g, Fine(heap, g, retired)
    PROVE  RetiredIsRemoved
<1>1. Linked = (1 .. Len(heap)) \ retired
  BY LinkedIs
<1>2. DOMAIN heap = 1 .. Len(heap) /\ Len(heap) \in Nat
  BY HeapType DEF Fine
<1>3. retired \subseteq 1 .. Len(heap)
  BY <1>2 DEF Fine, LinkOK
<1>4. \A n \in 1 .. Len(heap) : ~heap[n].leaf => (heap[n].marked <=> n \in retired)
  BY DEF Fine, MarksOK
<1> QED BY <1>1, <1>2, <1>3, <1>4 DEF RetiredIsRemoved

\* The depths of the leaves below a node are its height.
LEMMA DepthsAre ==
    ASSUME NEW g, NodesOK(heap, g)
    PROVE  /\ \A n \in 2 .. Len(heap) : Depths[n] = {g[n].ht}
           /\ Depths[1] = {1 + g[heap[1].ptrs[1]].ht}
<1> DEFINE N == Len(heap)
           root == heap[1].ptrs[1]
           F(f, n) == IF heap[n].leaf THEN {W(heap[n])}
                      ELSE UNION {{W(heap[n]) + d : d \in f[c]} : c \in Children(n)}
<1>1. N \in Nat /\ N >= 2 /\ DOMAIN heap = 1 .. N /\ \A n \in 2 .. N : n \in 1 .. N
  BY HeapType
<1>2. \A n \in 1 .. N : Children(n) = Kids(heap[n])
  BY <1>1, ChildrenAreKids
<1>3. ~heap[1].leaf /\ W(heap[1]) = 1 /\ Kids(heap[1]) = {root} /\ root \in 2 .. N
  BY Entry DEF NodesOK, W
<1>4. ASSUME NEW n \in 2 .. N
      PROVE  /\ g[n].ht \in Int /\ W(heap[n]) \in Int
             /\ heap[n].leaf => g[n].ht = W(heap[n])
             /\ ~heap[n].leaf => Kids(heap[n]) # {}
             /\ \A c \in Kids(heap[n]) : c \in 2 .. N /\ g[c].ht = g[n].ht - W(heap[n])
  <2>1. Sound(heap[n], g[n], g)
    BY HeapType
  <2>2. g[n].ht \in Int /\ W(heap[n]) \in Int
    BY <2>1, RankType DEF W
  <2>3. heap[n].leaf => g[n].ht = W(heap[n])
    BY <2>1 DEF Sound, W
  <2>4. ~heap[n].leaf => Kids(heap[n]) # {}
    <3> SUFFICES ASSUME ~heap[n].leaf PROVE Kids(heap[n]) # {}
      OBVIOUS
    <3>1. Len(heap[n].keys) \in Nat /\ \A i \in 1 .. Len(heap[n].keys) + 1 : heap[n].ptrs[i] \in Kids(heap[n])
      BY <2>1, SoundInner
    <3>2. 1 \in 1 .. Len(heap[n].keys) + 1
      BY <3>1
    <3> QED BY <3>1, <3>2
  <2>5. \A c \in Kids(heap[n]) : c \in 2 .. N /\ g[c].ht = g[n].ht - W(heap[n])
    BY KidOf
  <2> QED BY <2>2, <2>3, <2>4, <2>5
<1> HIDE DEF N, root
<1>5. ASSUME NEW f, NEW n \in 2 .. N, \A c \in Kids(heap[n]) : f[c] = {g[c].ht}
      PROVE  F(f, n) = {g[n].ht}
  <2>1. CASE heap[n].leaf
    BY <1>4, <2>1
  <2>2. CASE ~heap[n].leaf
    <3> DEFINE w == W(heap[n])
               ht == g[n].ht
               K == Kids(heap[n])
    <3>1. K # {} /\ w \in Int /\ ht \in Int /\ \A c \in K : f[c] = {ht - w}
      BY <1>4, <1>5, <2>2
    <3>2. Children(n) = K
      BY <1>1, <1>2
    <3> HIDE DEF w, ht, K
    <3>3. \A c \in K : {w + d : d \in f[c]} = {ht}
      BY <3>1
    <3>4. UNION {{w + d : d \in f[c]} : c \in K} = {ht}
      BY <3>1, <3>3
    <3> QED BY <2>2, <3>2, <3>4 DEF w, ht
  <2> QED BY <2>1, <2>2
<1>6. ASSUME NEW f, f[root] = {g[root].ht}
      PROVE  F(f, 1) = {1 + g[root].ht}
  <2>1. Children(1) = {root}
    BY <1>1, <1>2, <1>3
  <2>2. UNION {{1 + d : d \in f[c]} : c \in {root}} = {1 + g[root].ht}
    BY <1>6
  <2> QED BY <1>3, <2>1, <2>2
<1>7. \E f : f = [n \in DOMAIN heap |-> F(f, n)]
  <2> DEFINE f == [n \in 1 .. N |-> IF n = 1 THEN {1 + g[root].ht} ELSE {g[n].ht}]
  <2>1. f[1] = {1 + g[root].ht} /\ \A n \in 2 .. N : f[n] = {g[n].ht}
    BY <1>1
  <2>2. f = [n \in 1 .. N |-> f[n]]
    OBVIOUS
  <2> HIDE DEF f
  <2>3. ASSUME NEW n \in 1 .. N PROVE f[n] = F(f, n)
    <3>1. CASE n = 1
      <4>1. f[root] = {g[root].ht}
        BY <1>3, <2>1
      <4>2. F(f, 1) = {1 + g[root].ht}
        BY <1>6, <4>1
      <4> HIDE DEF F
      <4> QED BY <2>1, <3>1, <4>2
    <3>2. CASE n # 1
      <4>1. n \in 2 .. N
        BY <1>1, <3>2
      <4>2. \A c \in Kids(heap[n]) : f[c] = {g[c].ht}
        <5>1. \A c \in Kids(heap[n]) : c \in 2 .. N
          BY <1>4, <4>1
        <5> QED BY <2>1, <5>1
      <4> HIDE DEF F
      <4>3. F(f, n) = {g[n].ht}
        BY <1>5, <4>1, <4>2
      <4> QED BY <2>1, <4>1, <4>3
    <3> QED BY <3>1, <3>2
  <2> HIDE DEF F
  <2>4. f = [n \in DOMAIN heap |-> F(f, n)]
    BY <1>1, <2>2, <2>3
  <2> QED BY <2>4
<1>8. Depths = [n \in DOMAIN heap |-> F(Depths, n)]
  BY <1>7 DEF Depths, W
<1> DEFINE T == {n \in 2 .. N : Depths[n] # {g[n].ht}}
<1>9. ASSUME T # {} PROVE FALSE
  <2>1. PICK n \in T : \A x \in KidsOf(heap)[n] : x \in 1 .. N /\ x \notin T
    <3>1. T \subseteq 1 .. N /\ T # {} /\ Ranked(N, KidsOf(heap), TreeRank(heap, g))
      BY <1>1, <1>9, NodesRanked DEF N
    <3> HIDE DEF T
    <3> QED BY <3>1, LeastRank
  <2>2. n \in 2 .. N /\ n \in 1 .. N /\ KidsOf(heap)[n] = Kids(heap[n])
    BY <1>1, <2>1 DEF KidsOf, N
  <2>3. \A c \in Kids(heap[n]) : Depths[c] = {g[c].ht}
    BY <1>4, <2>1, <2>2
  <2>4. F(Depths, n) = {g[n].ht}
    BY <1>5, <2>2, <2>3
  <2> HIDE DEF F
  <2>5. Depths[n] = F(Depths, n)
    BY <1>1, <1>8, <2>2
  <2> QED BY <2>1, <2>4, <2>5
<1>10. \A n \in 2 .. N : Depths[n] = {g[n].ht}
  BY <1>9
<1>11. Depths[1] = {1 + g[root].ht}
  <2>1. F(Depths, 1) = {1 + g[root].ht}
    BY <1>3, <1>6, <1>10
  <2> HIDE DEF F
  <2>2. Depths[1] = F(Depths, 1)
    BY <1>1, <1>8
  <2> QED BY <2>1, <2>2
<1> QED BY <1>10, <1>11 DEF N, root

LEMMA FineBalanced ==
    ASSUME NEW g, Fine(heap, g, retired)
    PROVE  Balanced
<1>1. Depths[1] = {1 + g[heap[1].ptrs[1]].ht}
  BY DepthsAre DEF Fine
<1> QED BY <1>1, FS_Singleton DEF Balanced, entry
---------------------------------------------------------------------------
(* What the updates build *)

LEMMA TwoKids ==
    ASSUME NEW g, NEW lo \in Int, NEW sep \in Int, NEW hi \in Int, lo < sep, sep < hi,
           NEW d \in Int, d >= 1, NEW x, NEW y, Fits(g, x, lo, sep, d), Fits(g, y, sep, hi, d)
    PROVE  InnerArray(1, <<sep>>, <<x, y>>, lo, hi, d, g)
<1> DEFINE K == <<sep>>
           P == <<x, y>>
<1>1. Len(K) = 1 /\ K[1] = sep /\ Len(P) = 2 /\ P[1] = x /\ P[2] = y
  OBVIOUS
<1> HIDE DEF K, P
<1>2. Low(K, lo, 1) = lo /\ High(1, K, hi, 1) = sep /\ Low(K, lo, 2) = sep /\ High(1, K, hi, 2) = hi
  BY <1>1 DEF Low, High
<1>3. \A i \in 1 .. 1 + 1 : i = 1 \/ i = 2
  OBVIOUS
<1>4. \A i \in 1 .. 1 + 1 : Fits(g, P[i], Low(K, lo, i), High(1, K, hi, i), d)
  BY <1>1, <1>2, <1>3
<1>5. /\ \A i \in 1 .. 1 : K[i] \in Int /\ lo < K[i] /\ K[i] < hi
      /\ \A i, j \in 1 .. 1 : i < j => K[i] < K[j]
      /\ lo < hi /\ Len(P) = 1 + 1 /\ 1 \in Nat
  BY <1>1
<1>6. InnerArray(1, K, P, lo, hi, d, g)
  BY <1>1, <1>4, <1>5 DEF InnerArray
<1> QED BY <1>6 DEF K, P

LEMMA OneKid ==
    ASSUME NEW g, NEW lo \in Int, NEW hi \in Int, lo < hi, NEW d \in Int, d >= 1, NEW x, Fits(g, x, lo, hi, d)
    PROVE  InnerArray(0, <<>>, <<x>>, lo, hi, d, g)
<1> DEFINE K == <<>>
           P == <<x>>
<1>1. Len(K) = 0 /\ Len(P) = 1 /\ P[1] = x
  OBVIOUS
<1> HIDE DEF K, P
<1>2. Low(K, lo, 1) = lo /\ High(0, K, hi, 1) = hi
  BY DEF Low, High
<1>3. \A i \in 1 .. 0 + 1 : Fits(g, P[i], Low(K, lo, i), High(0, K, hi, i), d)
  BY <1>1, <1>2
<1>4. InnerArray(0, K, P, lo, hi, d, g)
  BY <1>1, <1>3 DEF InnerArray
<1> QED BY <1>4 DEF K, P

\* A sequence of values of a node, and their places.
LEMMA KeyAt ==
    ASSUME NEW keys \in Seq(Key), NEW i \in 1 .. Len(keys)
    PROVE  keys[i] \in Key
BY ElementOfSeq

Bounded(lo, hi, ht) == [lo |-> lo, hi |-> hi, ht |-> ht]

\* What the two halves of a node's pointers and keys are to be.
HalvesOK(z, lo, hi, ht, g) ==
    /\ z.separator \in Key /\ z.separator \in Int /\ lo < z.separator /\ z.separator < hi
    /\ Sound(z.left, Bounded(lo, z.separator, ht), g) /\ ~z.left.marked
    /\ Sound(z.right, Bounded(z.separator, hi, ht), g) /\ ~z.right.marked

\* The elements of s from i to k.
Slice(s, i, k) == {s[j] : j \in i .. k}

\* The halves of an internal node.
Parted(keys, ptrs, n, lo, hi, d, g, size) ==
    LET z == Halves(FALSE, keys, ptrs, size)
    IN  /\ HalvesOK(z, lo, hi, d + 1, g)
        /\ Kids(z.left) = Slice(ptrs, 1, size)
        /\ Kids(z.right) = Slice(ptrs, size + 1, n + 1)

LEMMA HalvesInner ==
    ASSUME NEW g, NEW keys \in Seq(Key), NEW ptrs \in Seq(Value \cup Nat), NEW n, NEW lo, NEW hi, NEW d,
           InnerArray(n, keys, ptrs, lo, hi, d, g), NEW size \in Nat, size >= 2, size <= n - 1,
           size <= b, n + 1 - size <= b
    PROVE  Parted(keys, ptrs, n, lo, hi, d, g, size)
<1> DEFINE K1 == SubSeq(keys, 1, size - 1)
           K2 == SubSeq(keys, size + 1, Len(keys))
           P1 == SubSeq(ptrs, 1, size)
           P2 == SubSeq(ptrs, size + 1, Len(ptrs))
           sep == keys[size]
           L == MakeNode(FALSE, TRUE, K1[1], K1, P1)
           R == MakeNode(FALSE, TRUE, K2[1], K2, P2)
           z == Halves(FALSE, keys, ptrs, size)
<1>1. /\ n \in Nat /\ Len(keys) = n /\ Len(ptrs) = n + 1 /\ d \in Int /\ d >= 1 /\ lo \in Int /\ hi \in Int
      /\ \A j \in 1 .. n : keys[j] \in Int /\ lo < keys[j] /\ keys[j] < hi
      /\ \A i, j \in 1 .. n : i < j => keys[i] < keys[j]
  BY DEF InnerArray
<1>2. /\ size \in 1 .. n /\ size + 1 \in 1 .. n /\ 1 \in 1 .. n + 1 /\ size \in 1 .. n + 1 /\ size + 1 \in 1 .. n + 1
      /\ n + 1 \in size + 1 .. n + 1 /\ size - 1 \in 1 - 1 .. n /\ n \in (size + 1) - 1 .. n
      /\ size \in 1 - 1 .. n + 1 /\ n + 1 \in (size + 1) - 1 .. n + 1 /\ 1 \in 1 .. n + 2 /\ size + 1 \in 1 .. n + 2
      /\ (n + 1) - 1 = n /\ 1 \in 1 .. n /\ 1 < size /\ size < size + 1
  BY <1>1
<1>3. z.separator = sep /\ z.left = L /\ z.right = R
  BY DEF Halves
<1>4. K1 \in Seq(Key) /\ IsPart(K1, keys, 1, size - 1)
  BY <1>1, <1>2, SubSeqIsPart
<1>5. K2 \in Seq(Key) /\ IsPart(K2, keys, size + 1, n)
  BY <1>1, <1>2, SubSeqIsPart
<1>6. P1 \in Seq(Value \cup Nat) /\ IsPart(P1, ptrs, 1, size)
  <2>1. 1 \in 1 .. Len(ptrs) + 1 /\ size \in 1 - 1 .. Len(ptrs)
    BY <1>1, <1>2
  <2> QED BY <2>1, SubSeqIsPart
<1>7. P2 \in Seq(Value \cup Nat) /\ IsPart(P2, ptrs, size + 1, n + 1)
  <2>1. size + 1 \in 1 .. Len(ptrs) + 1 /\ Len(ptrs) \in (size + 1) - 1 .. Len(ptrs) /\ Len(ptrs) = n + 1
    BY <1>1, <1>2
  <2>2. P2 \in Seq(Value \cup Nat) /\ IsPart(P2, ptrs, size + 1, Len(ptrs))
    BY <2>1, SubSeqIsPart
  <2> QED BY <2>1, <2>2
<1>8. sep \in Key /\ sep \in Int /\ lo < sep /\ sep < hi
  BY <1>1, <1>2, KeyAt
<1> HIDE DEF K1, K2, P1, P2
<1>9. InnerArray(size - 1, K1, P1, lo, sep, d, g)
  <2>1. Low(keys, lo, 1) = lo /\ High(n, keys, hi, size) = sep
    BY <1>1, <1>2 DEF Low, High
  <2>2. InnerArray(size - 1, K1, P1, Low(keys, lo, 1), High(n, keys, hi, size), d, g)
    BY <1>2, <1>4, <1>6, PartInner
  <2> QED BY <2>1, <2>2
<1>10. InnerArray(n - size, K2, P2, sep, hi, d, g)
  <2>1. Low(keys, lo, size + 1) = sep /\ High(n, keys, hi, n + 1) = hi
    BY <1>1, <1>2 DEF Low, High
  <2>2. IsPart(K2, keys, size + 1, (n + 1) - 1)
    BY <1>2, <1>5
  <2>3. InnerArray((n + 1) - (size + 1), K2, P2, Low(keys, lo, size + 1), High(n, keys, hi, n + 1), d, g)
    BY <1>2, <1>7, <2>2, PartInner
  <2>4. (n + 1) - (size + 1) = n - size
    BY <1>1
  <2> QED BY <2>1, <2>3, <2>4
<1>11. K1[1] \in Key /\ lo <= K1[1] /\ K1[1] < sep
  <2>1. Len(K1) = size - 1 /\ 1 \in 1 .. size - 1
    BY <1>9 DEF InnerArray
  <2>2. K1[1] \in Int /\ lo < K1[1] /\ K1[1] < sep
    BY <1>9, <2>1 DEF InnerArray
  <2> QED BY <1>1, <1>4, <2>1, <2>2, KeyAt
<1>12. K2[1] \in Key /\ sep <= K2[1] /\ K2[1] < hi
  <2>1. Len(K2) = n - size /\ 1 \in 1 .. n - size
    BY <1>1, <1>10 DEF InnerArray
  <2>2. K2[1] \in Int /\ sep < K2[1] /\ K2[1] < hi
    BY <1>10, <2>1 DEF InnerArray
  <2> QED BY <1>5, <1>8, <2>1, <2>2, KeyAt
<1> DEFINE x == Bounded(lo, sep, d + 1)
           y == Bounded(sep, hi, d + 1)
<1>13. x \in Info /\ x.lo = lo /\ x.hi = sep /\ x.ht = d + 1 /\ y \in Info /\ y.lo = sep /\ y.hi = hi /\ y.ht = d + 1
  BY <1>1, <1>8 DEF Bounded, Info
<1> HIDE DEF x, y, sep
<1>14. Sound(L, x, g)
  <2>1. x.ht - (IF TRUE THEN 1 ELSE 0) = d /\ (size - 1) + 1 <= b
    BY <1>1, <1>13
  <2> QED BY <1>4, <1>6, <1>9, <1>11, <1>13, <2>1, NewInner
<1>15. Sound(R, y, g)
  <2>1. y.ht - (IF TRUE THEN 1 ELSE 0) = d /\ (n - size) + 1 <= b
    BY <1>1, <1>13 DEF b
  <2> QED BY <1>5, <1>7, <1>10, <1>12, <1>13, <2>1, NewInner
<1>16. /\ ~L.marked /\ ~L.leaf /\ L.ptrs = P1
       /\ ~R.marked /\ ~R.leaf /\ R.ptrs = P2
  BY DEF MakeNode
<1>17. Elems(P1) = Slice(ptrs, 1, size) /\ Elems(P2) = Slice(ptrs, size + 1, n + 1)
  <2>1. 1 \in Nat /\ size \in Int /\ size + 1 \in Nat /\ n + 1 \in Int
    BY <1>1
  <2> QED BY <1>6, <1>7, <2>1, PartElems DEF Slice
<1> HIDE DEF L, R, z
<1>18. Kids(z.left) = Elems(P1) /\ Kids(z.right) = Elems(P2)
  BY <1>3, <1>16 DEF Kids
<1>19. HalvesOK(z, lo, hi, d + 1, g)
  BY <1>3, <1>8, <1>14, <1>15, <1>16 DEF HalvesOK, x, y, sep
<1> QED BY <1>17, <1>18, <1>19 DEF z, Parted

LEMMA HalvesLeaf ==
    ASSUME NEW g, NEW keys \in Seq(Key), NEW ptrs \in Seq(Value \cup Nat), NEW n, NEW lo, NEW hi,
           LeafArray(n, keys, ptrs, lo, hi), NEW size \in Nat, size >= 1, size <= n - 1,
           size <= b, n - size <= b
    PROVE  LET z == Halves(TRUE, keys, ptrs, size)
           IN  HalvesOK(z, lo, hi, 1, g) /\ Kids(z.left) = {} /\ Kids(z.right) = {}
<1> DEFINE K1 == SubSeq(keys, 1, size)
           K2 == SubSeq(keys, size + 1, Len(keys))
           P1 == SubSeq(ptrs, 1, size)
           P2 == SubSeq(ptrs, size + 1, Len(ptrs))
           sep == K2[1]
           L == MakeNode(TRUE, TRUE, K1[1], K1, P1)
           R == MakeNode(TRUE, TRUE, K2[1], K2, P2)
           z == Halves(TRUE, keys, ptrs, size)
<1>1. /\ n \in Nat /\ Len(keys) = n /\ Len(ptrs) = n /\ lo \in Int /\ hi \in Int
      /\ \A j \in 1 .. n : keys[j] \in Int /\ lo <= keys[j] /\ keys[j] < hi
      /\ \A i, j \in 1 .. n : i < j => keys[i] < keys[j]
  BY DEF LeafArray
<1>2. /\ size \in 1 .. n /\ size + 1 \in 1 .. n /\ 1 \in 1 .. n + 1 /\ size + 1 \in 1 .. n + 1
      /\ size \in 1 - 1 .. n /\ n \in (size + 1) - 1 .. n /\ n \in size + 1 .. n
      /\ 1 \in 1 .. n /\ size < size + 1 /\ 1 < size + 1 /\ size - 1 + 1 = size /\ n \in 1 .. n
      /\ (size = 1 \/ 1 < size) /\ (n = size + 1 \/ size + 1 < n)
  BY <1>1
<1>3. z.separator = sep /\ z.left = L /\ z.right = R
  BY DEF Halves
<1>4. K1 \in Seq(Key) /\ IsPart(K1, keys, 1, size)
  BY <1>1, <1>2, SubSeqIsPart
<1>5. K2 \in Seq(Key) /\ IsPart(K2, keys, size + 1, n)
  BY <1>1, <1>2, SubSeqIsPart
<1>6. P1 \in Seq(Value \cup Nat) /\ IsPart(P1, ptrs, 1, size)
  <2>1. 1 \in 1 .. Len(ptrs) + 1 /\ size \in 1 - 1 .. Len(ptrs)
    BY <1>1, <1>2
  <2> QED BY <2>1, SubSeqIsPart
<1>7. P2 \in Seq(Value \cup Nat) /\ IsPart(P2, ptrs, size + 1, n)
  <2>1. size + 1 \in 1 .. Len(ptrs) + 1 /\ Len(ptrs) \in (size + 1) - 1 .. Len(ptrs) /\ Len(ptrs) = n
    BY <1>1, <1>2
  <2>2. P2 \in Seq(Value \cup Nat) /\ IsPart(P2, ptrs, size + 1, Len(ptrs))
    BY <2>1, SubSeqIsPart
  <2> QED BY <2>1, <2>2
<1> HIDE DEF K1, K2, P1, P2
<1>8. K1[1] = keys[1] /\ K2[1] = keys[size + 1]
  <2>1. 1 \in 1 .. size - 1 + 1 /\ 1 + 1 - 1 = 1 /\ 1 \in 1 .. n - (size + 1) + 1 /\ (size + 1) + 1 - 1 = size + 1
    BY <1>1
  <2> QED BY <1>4, <1>5, <2>1 DEF IsPart
<1>9. /\ sep \in Key /\ sep \in Int /\ lo < sep /\ sep < hi /\ sep = keys[size + 1]
      /\ keys[1] \in Key /\ keys[1] \in Int /\ lo <= keys[1] /\ keys[1] < sep /\ keys[size] \in Int /\ keys[size] < sep
      /\ keys[n] < hi
  <2>1. keys[size + 1] \in Key /\ keys[1] \in Key
    BY <1>1, <1>2, KeyAt
  <2>2. /\ keys[1] \in Int /\ lo <= keys[1] /\ keys[1] < keys[size + 1]
        /\ keys[size + 1] \in Int /\ keys[size + 1] < hi /\ keys[n] < hi
        /\ keys[size] \in Int /\ keys[size] < keys[size + 1]
    BY <1>1, <1>2
  <2>3. lo < keys[size + 1]
    BY <1>1, <2>2
  <2> QED BY <1>8, <2>1, <2>2, <2>3
<1> HIDE DEF sep
<1>10. LeafArray(size, K1, P1, lo, sep)
  <2>1. LeafArray(size - 1 + 1, K1, P1, lo, sep)
    BY <1>1, <1>2, <1>4, <1>6, <1>9, PartLeaf
  <2> QED BY <1>2, <2>1
<1>11. LeafArray(n - size, K2, P2, sep, hi)
  <2>1. LeafArray(n - (size + 1) + 1, K2, P2, sep, hi)
    <3>1. sep <= keys[size + 1]
      BY <1>9
    <3> QED BY <1>1, <1>2, <1>5, <1>7, <1>9, <3>1, PartLeaf
  <2>2. n - (size + 1) + 1 = n - size
    BY <1>1
  <2> QED BY <2>1, <2>2
<1> DEFINE x == Bounded(lo, sep, 1)
           y == Bounded(sep, hi, 1)
<1>13. x \in Info /\ x.lo = lo /\ x.hi = sep /\ x.ht = 1 /\ y \in Info /\ y.lo = sep /\ y.hi = hi /\ y.ht = 1
  BY <1>1, <1>9 DEF Bounded, Info
<1> HIDE DEF x, y
<1>14. Sound(L, x, g)
  BY <1>4, <1>6, <1>8, <1>9, <1>10, <1>13, NewLeaf
<1>15. Sound(R, y, g)
  <2>1. K2[1] \in Key /\ y.lo <= K2[1] /\ K2[1] < y.hi
    BY <1>8, <1>9, <1>13
  <2>2. LeafArray(n - size, K2, P2, y.lo, y.hi) /\ y.ht = 1 /\ y \in Info /\ K2 \in Seq(Key) /\ P2 \in Seq(Value \cup Nat) /\ n - size <= b
    BY <1>5, <1>7, <1>11, <1>13
  <2> QED BY <2>1, <2>2, NewLeaf
<1>16. ~L.marked /\ L.leaf /\ ~R.marked /\ R.leaf
  BY DEF MakeNode
<1> HIDE DEF L, R, z
<1>18. Kids(z.left) = {} /\ Kids(z.right) = {}
  BY <1>3, <1>16 DEF Kids
<1>19. HalvesOK(z, lo, hi, 1, g)
  BY <1>3, <1>9, <1>14, <1>15, <1>16 DEF HalvesOK, x, y
<1> QED BY <1>18, <1>19 DEF z
---------------------------------------------------------------------------
(* One, two or three new nodes *)

\* g2 says the same of the nodes of g.
Ext(g, g2) == /\ Len(g) \in Nat /\ Len(g2) \in Nat /\ Len(g) <= Len(g2)
              /\ \A c \in 2 .. Len(g) : g2[c] = g[c]

LEMMA InnerExtend ==
    ASSUME NEW g, NEW g2, Ext(g, g2), NEW n, NEW keys, NEW ptrs, NEW lo, NEW hi, NEW d,
           InnerArray(n, keys, ptrs, lo, hi, d, g)
    PROVE  InnerArray(n, keys, ptrs, lo, hi, d, g2)
<1>1. ASSUME NEW c, NEW low, NEW high, Fits(g, c, low, high, d) PROVE Fits(g2, c, low, high, d)
  <2>1. c \in 2 .. Len(g) /\ c \in 2 .. Len(g2)
    BY <1>1 DEF Fits, Ext
  <2> QED BY <1>1, <2>1 DEF Fits, Ext
<1> QED BY <1>1 DEF InnerArray

LEMMA SoundExt ==
    ASSUME NEW g, NEW g2, Ext(g, g2), NEW r, NEW x, Sound(r, x, g)
    PROVE  Sound(r, x, g2)
BY SoundExtend DEF Ext

LEMMA Extends ==
    ASSUME NEW g \in Seq(Info), NEW ng \in Seq(Info)
    PROVE  /\ Ext(g, g \o ng)
           /\ \A j \in 2 .. Len(ng) : Fits(g \o ng, Len(g) + j, ng[j].lo, ng[j].hi, ng[j].ht)
<1> DEFINE g2 == g \o ng
           n == Len(g)
           m == Len(ng)
<1>1. /\ n \in Nat /\ m \in Nat /\ Len(g2) = n + m
      /\ \A j \in 1 .. n : g2[j] = g[j]
      /\ \A j \in 1 .. m : g2[n + j] = ng[j]
  BY Extended
<1> HIDE DEF g2, n, m
<1>2. Ext(g, g2)
  <2>1. \A c \in 2 .. n : c \in 1 .. n
    BY <1>1
  <2>2. \A c \in 2 .. n : g2[c] = g[c]
    BY <1>1, <2>1
  <2> QED BY <1>1, <2>2 DEF Ext, n
<1>3. ASSUME NEW j \in 2 .. m PROVE Fits(g2, n + j, ng[j].lo, ng[j].hi, ng[j].ht)
  <2>1. j \in 1 .. m /\ n + j \in 2 .. n + m
    BY <1>1
  <2> QED BY <1>1, <2>1 DEF Fits
<1> QED BY <1>2, <1>3 DEF g2, n, m

\* The node n, of which x is to hold, fits where c is now, below P.
Takes(g, P, c, n, x) ==
    /\ ~n.marked /\ x.lo = g[c].lo /\ x.hi = g[c].hi
    /\ P # 1 => x.ht = g[c].ht
    /\ P = 1 => n.weight

LEMMA BuiltOne ==
    ASSUME NEW h, NEW g \in Seq(Info), NEW P, NEW c, NEW n, NEW x, Sound(n, x, g), Takes(g, P, c, n, x)
    PROVE  Built(h, g, P, c, <<n>>, <<x>>)
<1> DEFINE new == <<n>>
           ng == <<x>>
<1>1. n \in NodeType /\ x \in Info
  BY DEF Sound
<1>2. new \in Seq(NodeType) /\ ng \in Seq(Info) /\ Len(new) = 1 /\ Len(ng) = 1 /\ new[1] = n /\ ng[1] = x
  BY <1>1
<1>3. Ext(g, g \o ng)
  BY <1>2, Extends
<1>4. Sound(n, x, g \o ng)
  BY <1>3, SoundExt
<1> HIDE DEF new, ng
<1>5. \A j \in 1 .. Len(new) : j = 1
  BY <1>2
<1> QED BY <1>2, <1>4, <1>5 DEF Built, Takes, new, ng

LEMMA BuiltTwo ==
    ASSUME NEW h, NEW g \in Seq(Info), NEW P, NEW c, NEW n, NEW x, NEW m, NEW y,
           Sound(n, x, g \o <<x, y>>), Takes(g, P, c, n, x), Sound(m, y, g), ~m.marked
    PROVE  Built(h, g, P, c, <<n, m>>, <<x, y>>)
<1> DEFINE new == <<n, m>>
           ng == <<x, y>>
<1>1. n \in NodeType /\ x \in Info /\ m \in NodeType /\ y \in Info
  BY DEF Sound
<1>2. new \in Seq(NodeType) /\ ng \in Seq(Info) /\ Len(new) = 2 /\ Len(ng) = 2 /\ new[1] = n /\ ng[1] = x
      /\ new[2] = m /\ ng[2] = y
  BY <1>1
<1>3. Ext(g, g \o ng)
  BY <1>2, Extends
<1>4. Sound(m, y, g \o ng)
  BY <1>3, SoundExt
<1> HIDE DEF new, ng
<1>5. \A j \in 1 .. Len(new) : j = 1 \/ j = 2
  BY <1>2
<1>6. Sound(n, x, g \o ng)
  BY DEF ng
<1>7. \A j \in 1 .. Len(new) : Sound(new[j], ng[j], g \o ng) /\ ~new[j].marked
  BY <1>2, <1>4, <1>5, <1>6 DEF Takes
<1>8. Built(h, g, P, c, new, ng)
  BY <1>2, <1>7 DEF Built, Takes
<1> QED BY <1>8 DEF new, ng

LEMMA BuiltThree ==
    ASSUME NEW h, NEW g \in Seq(Info), NEW P, NEW c, NEW n, NEW x, NEW m, NEW y, NEW r, NEW z,
           Sound(n, x, g \o <<x, y, z>>), Takes(g, P, c, n, x), Sound(m, y, g), ~m.marked,
           Sound(r, z, g), ~r.marked
    PROVE  Built(h, g, P, c, <<n, m, r>>, <<x, y, z>>)
<1> DEFINE new == <<n, m, r>>
           ng == <<x, y, z>>
<1>1. n \in NodeType /\ x \in Info /\ m \in NodeType /\ y \in Info /\ r \in NodeType /\ z \in Info
  BY DEF Sound
<1>2. new \in Seq(NodeType) /\ ng \in Seq(Info) /\ Len(new) = 3 /\ Len(ng) = 3 /\ new[1] = n /\ ng[1] = x
      /\ new[2] = m /\ ng[2] = y /\ new[3] = r /\ ng[3] = z
  BY <1>1
<1>3. Ext(g, g \o ng)
  BY <1>2, Extends
<1>4. Sound(m, y, g \o ng) /\ Sound(r, z, g \o ng)
  BY <1>3, SoundExt
<1> HIDE DEF new, ng
<1>5. \A j \in 1 .. Len(new) : j = 1 \/ j = 2 \/ j = 3
  BY <1>2
<1>6. Sound(n, x, g \o ng)
  BY DEF ng
<1>7. \A j \in 1 .. Len(new) : Sound(new[j], ng[j], g \o ng) /\ ~new[j].marked
  BY <1>2, <1>4, <1>5, <1>6 DEF Takes
<1>8. Built(h, g, P, c, new, ng)
  BY <1>2, <1>7 DEF Built, Takes
<1> QED BY <1>8 DEF new, ng
---------------------------------------------------------------------------
(* What an SCX removes *)

\* A child of a node of the tree.
LEMMA LiveKid ==
    ASSUME NEW h, NEW g, NEW R, Fine(h, g, R), NEW P, NEW ix, Place(h, P, ix), P \notin R
    PROVE  LET c == h[P].ptrs[ix]
           IN  /\ c \in Kids(h[P]) /\ c \in 2 .. Len(h) /\ c \notin R /\ Sound(h[c], g[c], g)
               /\ TreeRank(h, g)[c] \in Nat /\ TreeRank(h, g)[P] \in Nat
               /\ TreeRank(h, g)[c] < TreeRank(h, g)[P]
<1> DEFINE c == h[P].ptrs[ix]
           k == KidsOf(h)
<1>1. NodesOK(h, g) /\ LinkOK(Len(h), k, R)
  BY DEF Fine
<1>2. P \in 1 .. Len(h) /\ ~h[P].leaf /\ ix \in 1 .. Len(h[P].ptrs)
  BY DEF Place
<1>3. c \in Kids(h[P]) /\ k[P] = Kids(h[P])
  BY <1>2 DEF Kids, Elems, KidsOf
<1>4. Ranked(Len(h), k, TreeRank(h, g))
  BY <1>1, NodesRanked
<1> HIDE DEF c, k
<1>5. c \in 2 .. Len(h) /\ c \notin R
  BY <1>1, <1>2, <1>3 DEF LinkOK
<1>6. c \in 1 .. Len(h) /\ Sound(h[c], g[c], g)
  BY <1>1, <1>5, HeapType
<1>7. /\ TreeRank(h, g)[c] \in Nat /\ TreeRank(h, g)[P] \in Nat
      /\ TreeRank(h, g)[c] < TreeRank(h, g)[P]
  BY <1>2, <1>3, <1>4, <1>6 DEF Ranked
<1> QED BY <1>3, <1>5, <1>6, <1>7 DEF c

\* A node of the tree has one parent.
LEMMA OneParent ==
    ASSUME NEW h, NEW g, NEW R, Fine(h, g, R), NEW p \in 1 .. Len(h), NEW q \in 1 .. Len(h),
           p \notin R, q \notin R, NEW x \in Kids(h[p]), x \in Kids(h[q])
    PROVE  p = q
<1>1. LinkOK(Len(h), KidsOf(h), R)
  BY DEF Fine
<1>2. KidsOf(h)[p] = Kids(h[p]) /\ KidsOf(h)[q] = Kids(h[q])
  BY DEF KidsOf
<1> QED BY <1>1, <1>2 DEF LinkOK

---------------------------------------------------------------------------
(* Looking for a key *)

LEMMA LeastIs ==
    ASSUME NEW S, S \in SUBSET Nat, S # {}
    PROVE  Min(S) \in S /\ \A y \in S : Min(S) <= y
BY Least DEF Min

\* The first place that satisfies a test, or the one after the last.
LEMMA FirstIs ==
    ASSUME NEW n \in Nat, NEW T, T \subseteq 1 .. n
    PROVE  LET ix == Min(T \cup {n + 1})
           IN  /\ ix \in 1 .. n + 1
               /\ \A j \in 1 .. n : j < ix => j \notin T
               /\ ix <= n => ix \in T
<1> DEFINE S == T \cup {n + 1}
           ix == Min(S)
<1>1. S \in SUBSET Nat /\ S # {}
  OBVIOUS
<1>2. ix \in S /\ \A y \in S : ix <= y
  BY <1>1, LeastIs
<1> HIDE DEF ix
<1>3. ix \in 1 .. n + 1 /\ (ix <= n => ix \in T)
  BY <1>2
<1>4. \A j \in 1 .. n : j < ix => j \notin T
  BY <1>2, <1>3
<1> QED BY <1>3, <1>4 DEF ix

LEMMA KeyIndex ==
    ASSUME NEW r \in NodeType, NEW lo, NEW hi, LeafArray(Len(r.keys), r.keys, r.ptrs, lo, hi),
           NEW key \in Int
    PROVE  LET ix == getKeyIndex(r, key)
           IN  /\ ix \in 1 .. Len(r.keys) + 1
               /\ \A j \in 1 .. Len(r.keys) : j < ix => r.keys[j] < key
               /\ \A j \in 1 .. Len(r.keys) : j > ix => key < r.keys[j]
               /\ HasKey(r, key) => ix \in 1 .. Len(r.keys) /\ r.keys[ix] = key
               /\ ~HasKey(r, key) => \A j \in 1 .. Len(r.keys) : j >= ix => key < r.keys[j]
<1> DEFINE n == Len(r.keys)
           T == {i \in DOMAIN r.keys : r.keys[i] >= key}
           ix == getKeyIndex(r, key)
<1>1. n \in Nat /\ DOMAIN r.keys = 1 .. n
  BY NodeFields
<1>2. \A j \in 1 .. n : r.keys[j] \in Int
  BY NodeFields
<1>3. \A i, j \in 1 .. n : i < j => r.keys[i] < r.keys[j]
  BY DEF LeafArray
<1>4. T \subseteq 1 .. n /\ \A j \in 1 .. n : j \in T <=> r.keys[j] >= key
  BY <1>1
<1>5. ix = Min(T \cup {n + 1})
  BY DEF getKeyIndex
<1>6. HasKey(r, key) <=> \E i \in 1 .. n : r.keys[i] = key
  BY <1>1 DEF HasKey
<1> HIDE DEF n, T, ix
<1>7. /\ ix \in 1 .. n + 1
      /\ \A j \in 1 .. n : j < ix => j \notin T
      /\ ix <= n => ix \in T
  BY <1>1, <1>4, <1>5, FirstIs
<1>8. \A j \in 1 .. n : j < ix => r.keys[j] < key
  BY <1>2, <1>4, <1>7
<1>9. \A j \in 1 .. n : j > ix => key < r.keys[j]
  <2> SUFFICES ASSUME NEW j \in 1 .. n, j > ix PROVE key < r.keys[j]
    OBVIOUS
  <2>1. ix \in 1 .. n /\ ix < j /\ ix <= n
    BY <1>1, <1>7
  <2>2. r.keys[ix] >= key /\ r.keys[ix] < r.keys[j] /\ r.keys[ix] \in Int /\ r.keys[j] \in Int
    BY <1>2, <1>3, <1>4, <1>7, <2>1
  <2> QED BY <2>2
<1>10. ASSUME HasKey(r, key) PROVE ix \in 1 .. n /\ r.keys[ix] = key
  <2>1. PICK i \in 1 .. n : r.keys[i] = key
    BY <1>6, <1>10
  <2>2. ~(i < ix) /\ ~(i > ix)
    BY <1>8, <1>9, <2>1
  <2>3. i = ix
    BY <1>7, <1>1, <2>2
  <2> QED BY <2>1, <2>3
<1>11. ASSUME ~HasKey(r, key), NEW j \in 1 .. n, j >= ix PROVE key < r.keys[j]
  <2>1. CASE j = ix
    <3>1. r.keys[ix] >= key /\ r.keys[ix] # key
      BY <1>1, <1>4, <1>6, <1>7, <1>11, <2>1
    <3> QED BY <1>2, <2>1, <3>1
  <2>2. CASE j > ix
    BY <1>9, <2>2
  <2> QED BY <1>7, <1>1, <1>11, <2>1, <2>2
<1> QED BY <1>7, <1>8, <1>9, <1>10, <1>11 DEF n, ix

\* The child that is followed has the key within its bounds.
LEMMA ChildIndex ==
    ASSUME NEW r \in NodeType, NEW lo, NEW hi, NEW d, NEW g,
           InnerArray(Len(r.keys), r.keys, r.ptrs, lo, hi, d, g), NEW key \in Int
    PROVE  LET ix == getChildIndex(r, key)
           IN  /\ ix \in 1 .. Len(r.keys) + 1
               /\ lo <= key => Low(r.keys, lo, ix) <= key
               /\ key < hi => key < High(Len(r.keys), r.keys, hi, ix)
<1> DEFINE n == Len(r.keys)
           T == {i \in DOMAIN r.keys : key < r.keys[i]}
           ix == getChildIndex(r, key)
<1>1. n \in Nat /\ DOMAIN r.keys = 1 .. n
  BY NodeFields
<1>2. \A j \in 1 .. n : r.keys[j] \in Int
  BY NodeFields
<1>4. T \subseteq 1 .. n /\ \A j \in 1 .. n : j \in T <=> key < r.keys[j]
  BY <1>1
<1>5. ix = Min(T \cup {n + 1})
  BY DEF getChildIndex
<1> HIDE DEF n, T, ix
<1>7. /\ ix \in 1 .. n + 1
      /\ \A j \in 1 .. n : j < ix => j \notin T
      /\ ix <= n => ix \in T
  BY <1>1, <1>4, <1>5, FirstIs
<1>8. ASSUME lo <= key PROVE Low(r.keys, lo, ix) <= key
  <2>1. CASE ix = 1
    BY <1>8, <2>1 DEF Low
  <2>2. CASE ix # 1
    <3>1. ix - 1 \in 1 .. n /\ ix - 1 < ix
      BY <1>1, <1>7, <2>2
    <3>2. r.keys[ix - 1] <= key
      BY <1>2, <1>4, <1>7, <3>1
    <3> QED BY <2>2, <3>2 DEF Low
  <2> QED BY <2>1, <2>2
<1>9. ASSUME key < hi PROVE key < High(n, r.keys, hi, ix)
  <2>1. CASE ix = n + 1
    BY <1>9, <2>1 DEF High
  <2>2. CASE ix # n + 1
    <3>1. ix \in 1 .. n /\ ix <= n
      BY <1>1, <1>7, <2>2
    <3> QED BY <1>4, <1>7, <2>2, <3>1 DEF High
  <2> QED BY <2>1, <2>2
<1> QED BY <1>7, <1>8, <1>9 DEF n, ix
---------------------------------------------------------------------------
(* The updates at a leaf *)

\* The leaf r, with what holds of it.
IsLeaf(r, x, g) == Sound(r, x, g) /\ r.leaf

LEMMA LeafFields ==
    ASSUME NEW r, NEW x, NEW g, IsLeaf(r, x, g)
    PROVE  /\ r \in NodeType /\ x \in Info /\ r.weight /\ x.ht = 1 /\ Len(r.keys) \in Nat
           /\ Len(r.keys) <= b /\ r.keys \in Seq(Key) /\ r.ptrs \in Seq(Value \cup Nat)
           /\ Len(r.ptrs) = Len(r.keys) /\ r.searchKey \in Key
           /\ x.lo \in Int /\ x.hi \in Int /\ x.lo < x.hi
           /\ x.lo <= r.searchKey /\ r.searchKey < x.hi
           /\ LeafArray(Len(r.keys), r.keys, r.ptrs, x.lo, x.hi)
<1>1. r \in NodeType /\ x \in Info /\ r.weight /\ x.ht = 1
      /\ LeafArray(Len(r.keys), r.keys, r.ptrs, x.lo, x.hi) /\ Len(r.ptrs) <= b
      /\ x.lo <= r.searchKey /\ r.searchKey < x.hi
  BY DEF IsLeaf, Sound
<1>2. Len(r.keys) \in Nat /\ Len(r.ptrs) = Len(r.keys) /\ x.lo \in Int /\ x.hi \in Int /\ x.lo < x.hi
  BY <1>1 DEF LeafArray
<1>3. r.keys \in Seq(Key) /\ r.ptrs \in Seq(Value \cup Nat) /\ r.searchKey \in Key
  BY <1>1, NodeFields
<1> QED BY <1>1, <1>2, <1>3

LEMMA OnePair ==
    ASSUME NEW lo \in Int, NEW hi \in Int, NEW key \in Int, lo <= key, key < hi, NEW v \in Value
    PROVE  LeafArray(1, <<key>>, <<v>>, lo, hi)
BY DEF LeafArray

LEMMA NoPair ==
    ASSUME NEW lo \in Int, NEW hi \in Int, lo < hi
    PROVE  LeafArray(0, <<>>, <<>>, lo, hi)
BY DEF LeafArray

\* A value is replaced.
LEMMA ReplacedLeaf ==
    ASSUME NEW r, NEW x, NEW g, IsLeaf(r, x, g), NEW key \in Key, HasKey(r, key), NEW v \in Value
    PROVE  LET n == MakeNode(TRUE, TRUE, r.searchKey, r.keys,
                             ReplaceAt(r.ptrs, getKeyIndex(r, key), v))
           IN  IsLeaf(n, x, g) /\ ~n.marked
<1> DEFINE N == Len(r.keys)
           ix == getKeyIndex(r, key)
           Q == ReplaceAt(r.ptrs, ix, v)
           n == MakeNode(TRUE, TRUE, r.searchKey, r.keys, Q)
<1>1. /\ r \in NodeType /\ x \in Info /\ r.weight /\ x.ht = 1 /\ N \in Nat
      /\ N <= b /\ r.keys \in Seq(Key) /\ r.ptrs \in Seq(Value \cup Nat)
      /\ Len(r.ptrs) = N /\ r.searchKey \in Key
      /\ x.lo <= r.searchKey /\ r.searchKey < x.hi
      /\ LeafArray(N, r.keys, r.ptrs, x.lo, x.hi)
  BY LeafFields
<1>2. key \in Int
  BY KeyAssumption
<1>3. ix \in 1 .. N
  BY <1>1, <1>2, KeyIndex
<1> HIDE DEF N, ix
<1>4. Q \in Seq(Value \cup Nat) /\ IsSplice(Q, r.ptrs, N, <<v>>, 1, ix, ix)
  <2>1. ix \in 1 .. Len(r.ptrs) /\ v \in Value \cup Nat
    BY <1>1, <1>3
  <2> QED BY <1>1, <2>1, ReplaceIsSplice
<1> HIDE DEF Q
<1>5. LeafArray(N, r.keys, Q, x.lo, x.hi)
  <2>1. N + 1 + ix - 1 - ix = N
    BY <1>1, <1>3
  <2>2. Len(Q) = N
    BY <1>4, <2>1 DEF IsSplice
  <2>3. ASSUME NEW j \in 1 .. N PROVE Q[j] \in Value
    <3>1. \/ j < ix
          \/ j >= ix /\ j < ix + 1 /\ j - ix + 1 = 1
          \/ j >= ix + 1 /\ j - 1 - ix + 1 + ix \in 1 .. N
      BY <1>1, <1>3
    <3>2. \A i \in 1 .. N : r.ptrs[i] \in Value
      BY <1>1 DEF LeafArray
    <3>3. \/ Q[j] = r.ptrs[j]
          \/ Q[j] = <<v>>[1]
          \/ j - 1 - ix + 1 + ix \in 1 .. N /\ Q[j] = r.ptrs[j - 1 - ix + 1 + ix]
      BY <1>4, <2>1, <3>1 DEF IsSplice
    <3> QED BY <3>2, <3>3
  <2> QED BY <1>1, <2>2, <2>3 DEF LeafArray
<1>6. Sound(n, x, g)
  BY <1>1, <1>4, <1>5, NewLeaf
<1>7. n.leaf /\ ~n.marked
  BY DEF MakeNode
<1> QED BY <1>6, <1>7 DEF IsLeaf, Q, ix

\* A pair is inserted.
LEMMA InsertedArray ==
    ASSUME NEW r, NEW x, NEW g, IsLeaf(r, x, g), NEW key \in Key, ~HasKey(r, key), NEW v \in Value,
           x.lo <= key, key < x.hi
    PROVE  LET K == InsertAt(r.keys, getKeyIndex(r, key), key)
               Q == InsertAt(r.ptrs, getKeyIndex(r, key), v)
           IN  /\ K \in Seq(Key) /\ Q \in Seq(Value \cup Nat)
               /\ LeafArray(Len(r.keys) + 1, K, Q, x.lo, x.hi)
<1> DEFINE N == Len(r.keys)
           ix == getKeyIndex(r, key)
           K == InsertAt(r.keys, ix, key)
           Q == InsertAt(r.ptrs, ix, v)
           X == <<key>>
           Y == <<v>>
<1>1. /\ r \in NodeType /\ N \in Nat
      /\ r.keys \in Seq(Key) /\ r.ptrs \in Seq(Value \cup Nat)
      /\ Len(r.ptrs) = N /\ x.lo \in Int /\ x.hi \in Int
      /\ LeafArray(N, r.keys, r.ptrs, x.lo, x.hi)
  BY LeafFields
<1>2. key \in Int
  BY KeyAssumption
<1>3. /\ ix \in 1 .. N + 1
      /\ \A j \in 1 .. N : j < ix => r.keys[j] < key
      /\ \A j \in 1 .. N : j >= ix => key < r.keys[j]
  BY <1>1, <1>2, KeyIndex
<1> HIDE DEF N, ix
<1>4. ix \in 1 .. Len(r.keys) + 1 /\ ix \in 1 .. Len(r.ptrs) + 1 /\ v \in Value \cup Nat /\ Len(r.keys) = N
  BY <1>1, <1>3 DEF N
<1>5. K \in Seq(Key) /\ IsSplice(K, r.keys, N, X, 1, ix, ix - 1)
  BY <1>1, <1>4, InsertIsSplice
<1>6. Q \in Seq(Value \cup Nat) /\ IsSplice(Q, r.ptrs, N, Y, 1, ix, ix - 1)
  BY <1>1, <1>4, InsertIsSplice
<1>7. LeafArray(1, X, Y, x.lo, x.hi)
  BY <1>1, <1>2, OnePair
<1>8. \A q \in 1 .. 1 : X[q] = key
  OBVIOUS
<1> HIDE DEF K, Q, X, Y
<1>9. \A j \in 1 .. N, q \in 1 .. 1 : /\ j < ix => r.keys[j] < X[q]
                                      /\ j > ix - 1 => X[q] < r.keys[j]
  <2>1. \A j \in 1 .. N : j > ix - 1 => j >= ix
    BY <1>1, <1>3
  <2> QED BY <1>3, <1>8, <2>1
<1>10. ix - 1 \in ix - 1 .. N
  BY <1>1, <1>3
<1>11. LeafArray(N + 1 + ix - 1 - (ix - 1), K, Q, x.lo, x.hi)
  BY <1>1, <1>3, <1>5, <1>6, <1>7, <1>9, <1>10, SpliceLeaf
<1>12. N + 1 + ix - 1 - (ix - 1) = N + 1
  BY <1>1, <1>3
<1> QED BY <1>5, <1>6, <1>11, <1>12 DEF K, Q, N, ix

LEMMA InsertedLeaf ==
    ASSUME NEW r, NEW x, NEW g, IsLeaf(r, x, g), NEW key \in Key, ~HasKey(r, key), NEW v \in Value,
           x.lo <= key, key < x.hi, Len(r.keys) < b
    PROVE  LET n == MakeNode(TRUE, r.weight, r.searchKey, InsertAt(r.keys, getKeyIndex(r, key), key),
                             InsertAt(r.ptrs, getKeyIndex(r, key), v))
           IN  IsLeaf(n, x, g) /\ ~n.marked
<1> DEFINE K == InsertAt(r.keys, getKeyIndex(r, key), key)
           Q == InsertAt(r.ptrs, getKeyIndex(r, key), v)
           n == MakeNode(TRUE, TRUE, r.searchKey, K, Q)
<1>1. K \in Seq(Key) /\ Q \in Seq(Value \cup Nat) /\ LeafArray(Len(r.keys) + 1, K, Q, x.lo, x.hi)
  BY InsertedArray
<1> HIDE DEF K, Q
<1>2. /\ r.weight = TRUE /\ x \in Info /\ x.ht = 1 /\ r.searchKey \in Key /\ Len(r.keys) \in Nat
      /\ x.lo <= r.searchKey /\ r.searchKey < x.hi
  BY LeafFields, NodeFields
<1>3. Len(r.keys) + 1 <= b
  BY <1>2, DegreeAssumption DEF b
<1>4. Sound(n, x, g)
  BY <1>1, <1>2, <1>3, NewLeaf
<1>5. n.leaf /\ ~n.marked
  BY DEF MakeNode
<1> QED BY <1>2, <1>4, <1>5 DEF IsLeaf, K, Q

\* A pair is removed.
LEMMA ErasedLeaf ==
    ASSUME NEW r, NEW x, NEW g, IsLeaf(r, x, g), NEW key \in Key, HasKey(r, key)
    PROVE  LET n == MakeNode(TRUE, TRUE, r.keys[1], RemoveAt(r.keys, getKeyIndex(r, key)),
                             RemoveAt(r.ptrs, getKeyIndex(r, key)))
           IN  IsLeaf(n, x, g) /\ ~n.marked
<1> DEFINE N == Len(r.keys)
           ix == getKeyIndex(r, key)
           K == RemoveAt(r.keys, ix)
           Q == RemoveAt(r.ptrs, ix)
           n == MakeNode(TRUE, TRUE, r.keys[1], K, Q)
<1>1. /\ r \in NodeType /\ N \in Nat /\ N <= b /\ x \in Info /\ x.ht = 1
      /\ r.keys \in Seq(Key) /\ r.ptrs \in Seq(Value \cup Nat)
      /\ Len(r.ptrs) = N /\ x.lo \in Int /\ x.hi \in Int /\ x.lo < x.hi
      /\ LeafArray(N, r.keys, r.ptrs, x.lo, x.hi)
  BY LeafFields
<1>2. key \in Int
  BY KeyAssumption
<1>3. ix \in 1 .. N
  BY <1>1, <1>2, KeyIndex
<1> HIDE DEF ix
<1>4. r.keys[1] \in Key /\ x.lo <= r.keys[1] /\ r.keys[1] < x.hi
  <2>1. 1 \in 1 .. N
    BY <1>1, <1>3
  <2> QED BY <1>1, <2>1, KeyAt DEF LeafArray
<1> HIDE DEF N
<1>5. K \in Seq(Key) /\ IsSplice(K, r.keys, N, <<>>, 0, ix, ix)
  BY <1>1, <1>3, RemoveIsSplice DEF N
<1>6. Q \in Seq(Value \cup Nat) /\ IsSplice(Q, r.ptrs, N, <<>>, 0, ix, ix)
  <2>1. ix \in 1 .. Len(r.ptrs)
    BY <1>1, <1>3
  <2> QED BY <1>1, <2>1, RemoveIsSplice
<1> HIDE DEF K, Q
<1>7. LeafArray(0, <<>>, <<>>, x.lo, x.hi)
  BY <1>1, NoPair
<1>8. /\ \A j \in 1 .. N, q \in 1 .. 0 : /\ j < ix => r.keys[j] < <<>>[q]
                                         /\ j > ix => <<>>[q] < r.keys[j]
      /\ ix \in 1 .. N + 1 /\ ix \in ix - 1 .. N
  BY <1>1, <1>3
<1>9. LeafArray(N + 0 + ix - 1 - ix, K, Q, x.lo, x.hi)
  BY <1>1, <1>5, <1>6, <1>7, <1>8, SpliceLeaf
<1>10. N + 0 + ix - 1 - ix = N - 1 /\ N - 1 <= b
  BY <1>1, <1>3, DegreeAssumption DEF b
<1>11. LeafArray(N - 1, K, Q, x.lo, x.hi)
  BY <1>9, <1>10
<1>12. Sound(n, x, g)
  BY <1>1, <1>4, <1>5, <1>6, <1>10, <1>11, NewLeaf
<1>13. n.leaf /\ ~n.marked
  BY DEF MakeNode
<1> QED BY <1>12, <1>13 DEF IsLeaf, K, Q, ix
---------------------------------------------------------------------------
(* Internal nodes are replaced *)

\* The nodes of D, below P, may go, and c is where they are reached.
Goes(h, R, P, c, D) ==
    /\ P \notin R /\ P \notin D /\ c \in D /\ D \subseteq 2 .. Len(h) /\ \A r \in D : r \notin R
    /\ \A r \in D : r = c \/ \E q \in D : r \in Kids(h[q])

\* What is below the nodes of D then needs another parent.
Freed(h, D) == {x \in UNION {Kids(h[q]) : q \in D} : x \notin D}

LEMMA FreedOld ==
    ASSUME NEW h, NEW g, NEW R, Fine(h, g, R), NEW P, NEW c, NEW D, Goes(h, R, P, c, D)
    PROVE  Len(h) \in Nat /\ Freed(h, D) \subseteq 2 .. Len(h)
<1>1. NodesOK(h, g)
  BY DEF Fine
<1>2. Len(h) \in Nat
  BY <1>1, HeapType
<1>3. \A q \in D : q \in 2 .. Len(h)
  BY DEF Goes
<1>4. \A q \in D : \A x \in Kids(h[q]) : x \in 2 .. Len(h)
  BY <1>1, <1>3, KidOf
<1> QED BY <1>2, <1>4 DEF Freed

LEMMA AdoptsOne ==
    ASSUME NEW h, NEW g, NEW R, Fine(h, g, R), NEW P, NEW c, NEW D, Goes(h, R, P, c, D), NEW n,
           Kids(n) = Freed(h, D)
    PROVE  Adopts(h, R, P, c, D, <<n>>)
<1> DEFINE new == <<n>>
<1>1. Len(new) = 1 /\ new[1] = n
  OBVIOUS
<1> HIDE DEF new
<1>2. (\A j \in 1 .. Len(new) : j = 1) /\ 1 \in 1 .. Len(new) /\ (\A j \in 2 .. Len(new) : FALSE)
  BY <1>1
<1>3. \A x : x \in Freed(h, D) <=> x \notin D /\ \E q \in D : x \in Kids(h[q])
  BY DEF Freed
<1>4. Adopts(h, R, P, c, D, new)
  BY <1>1, <1>2, <1>3 DEF Adopts, Goes
<1> QED BY <1>4 DEF new

LEMMA AdoptsTwo ==
    ASSUME NEW h, NEW g, NEW R, Fine(h, g, R), NEW P, NEW c, NEW D, Goes(h, R, P, c, D), NEW n, NEW m,
           Kids(n) \cup Kids(m) = Freed(h, D) \cup {Len(h) + 2}, Len(h) + 2 \in Kids(n),
           Kids(n) \cap Kids(m) = {}
    PROVE  Adopts(h, R, P, c, D, <<n, m>>)
<1> DEFINE new == <<n, m>>
<1>1. Len(new) = 2 /\ new[1] = n /\ new[2] = m
  OBVIOUS
<1>2. Len(h) \in Nat
  BY FreedOld
<1> HIDE DEF new
<1>3. /\ \A j \in 1 .. Len(new) : j = 1 \/ j = 2
      /\ 1 \in 1 .. Len(new) /\ 2 \in 1 .. Len(new)
      /\ \A j \in 2 .. Len(new) : j = 2
      /\ Len(h) + 2 \in Len(h) + 2 .. Len(h) + Len(new)
  BY <1>1, <1>2
<1>4. \A x : x \in Freed(h, D) <=> x \notin D /\ \E q \in D : x \in Kids(h[q])
  BY DEF Freed
<1>5. \A j \in 1 .. Len(new) : \A x \in Kids(new[j]) : x = Len(h) + 2 \/ x \in Freed(h, D)
  BY <1>1, <1>3
<1>6. \A x \in Freed(h, D) : \E j \in 1 .. Len(new) : x \in Kids(new[j])
  BY <1>1, <1>3
<1>7. \A i, j \in 1 .. Len(new) : \A x \in Kids(new[i]) : x \in Kids(new[j]) => i = j
  BY <1>1, <1>3
<1>8. \A j \in 2 .. Len(new) : Len(h) + j \in Kids(new[1])
  BY <1>1, <1>3
<1>9. Adopts(h, R, P, c, D, new)
  BY <1>3, <1>4, <1>5, <1>6, <1>7, <1>8 DEF Adopts, Goes
<1> QED BY <1>9 DEF new

LEMMA AdoptsThree ==
    ASSUME NEW h, NEW g, NEW R, Fine(h, g, R), NEW P, NEW c, NEW D, Goes(h, R, P, c, D),
           NEW n, NEW m, NEW r,
           Kids(n) \cup Kids(m) \cup Kids(r) = Freed(h, D) \cup {Len(h) + 2, Len(h) + 3},
           Len(h) + 2 \in Kids(n), Len(h) + 3 \in Kids(n),
           Kids(n) \cap Kids(m) = {}, Kids(n) \cap Kids(r) = {}, Kids(m) \cap Kids(r) = {}
    PROVE  Adopts(h, R, P, c, D, <<n, m, r>>)
<1> DEFINE new == <<n, m, r>>
<1>1. Len(new) = 3 /\ new[1] = n /\ new[2] = m /\ new[3] = r
  OBVIOUS
<1>2. Len(h) \in Nat
  BY FreedOld
<1> HIDE DEF new
<1>3. /\ \A j \in 1 .. Len(new) : j = 1 \/ j = 2 \/ j = 3
      /\ 1 \in 1 .. Len(new) /\ 2 \in 1 .. Len(new) /\ 3 \in 1 .. Len(new)
      /\ \A j \in 2 .. Len(new) : j = 2 \/ j = 3
      /\ Len(h) + 2 \in Len(h) + 2 .. Len(h) + Len(new)
      /\ Len(h) + 3 \in Len(h) + 2 .. Len(h) + Len(new)
  BY <1>1, <1>2
<1>4. \A x : x \in Freed(h, D) <=> x \notin D /\ \E q \in D : x \in Kids(h[q])
  BY DEF Freed
<1>5. \A j \in 1 .. Len(new) : \A x \in Kids(new[j]) :
         x = Len(h) + 2 \/ x = Len(h) + 3 \/ x \in Freed(h, D)
  BY <1>1, <1>3
<1>6. \A x \in Freed(h, D) : \E j \in 1 .. Len(new) : x \in Kids(new[j])
  BY <1>1, <1>3
<1>7. \A i, j \in 1 .. Len(new) : \A x \in Kids(new[i]) : x \in Kids(new[j]) => i = j
  BY <1>1, <1>3
<1>8. \A j \in 2 .. Len(new) : Len(h) + j \in Kids(new[1])
  BY <1>1, <1>3
<1>9. Adopts(h, R, P, c, D, new)
  BY <1>3, <1>4, <1>5, <1>6, <1>7, <1>8 DEF Adopts, Goes
<1> QED BY <1>9 DEF new

\* The keys and pointers of a child of weight 0 in the place of the child.
SplicedOK(m, r, x, i, s, g) ==
    /\ m.keys \in Seq(Key) /\ m.ptrs \in Seq(Value \cup Nat)
    /\ InnerArray(Len(r.keys) + 1, m.keys, m.ptrs, x.lo, x.hi, x.ht - 1, g)
    /\ Elems(m.ptrs) = (Kids(r) \ {r.ptrs[i]}) \cup Kids(s)

LEMMA SplicedNode ==
    ASSUME NEW g, NEW r, NEW x, Sound(r, x, g), ~r.leaf, r.weight, NEW i \in 1 .. Len(r.ptrs),
           NEW s, Sound(s, g[r.ptrs[i]], g), ~s.weight
    PROVE  SplicedOK(Spliced(r, s, i), r, x, i, s, g)
<1> DEFINE c == r.ptrs[i]
           n == Len(r.keys)
           d == x.ht - 1
           K == SubSeq(r.keys, 1, i - 1) \o s.keys \o SubSeq(r.keys, i, n)
           Q == SubSeq(r.ptrs, 1, i - 1) \o s.ptrs \o SubSeq(r.ptrs, i + 1, Len(r.ptrs))
           lo == Low(r.keys, x.lo, i)
           hi == High(n, r.keys, x.hi, i)
<1>1. /\ InnerArray(n, r.keys, r.ptrs, x.lo, x.hi, d, g)
      /\ n \in Nat /\ Len(r.ptrs) = n + 1 /\ d \in Int
  <2>1. W(r) = 1
    BY DEF W
  <2> QED BY <2>1, SoundInner
<1>2. /\ r.keys \in Seq(Key) /\ r.ptrs \in Seq(Value \cup Nat)
      /\ s.keys \in Seq(Key) /\ s.ptrs \in Seq(Value \cup Nat)
  BY NodeFields DEF Sound
<1>3. i \in 1 .. n + 1 /\ i - 1 \in i - 1 .. n /\ i \in i - 1 .. n + 1 /\ i \in 1 .. (n + 1) + 1
      /\ (i - 1) + 1 = i /\ i \in i .. n + 1
  BY <1>1
<1>4. g[c].lo = lo /\ g[c].hi = hi /\ g[c].ht = d
  <2>1. W(r) = 1
    BY DEF W
  <2> QED BY <1>3, <2>1, Kid
<1>5. InnerArray(1, s.keys, s.ptrs, lo, hi, d, g) /\ Len(s.keys) = 1 /\ Len(s.ptrs) = 2 /\ ~s.leaf
  <2>1. ~s.leaf /\ Len(s.ptrs) = 2
    BY DEF Sound
  <2>2. InnerArray(Len(s.keys), s.keys, s.ptrs, g[c].lo, g[c].hi, g[c].ht - W(s), g)
        /\ Len(s.keys) \in Nat /\ Len(s.ptrs) = Len(s.keys) + 1
    BY <2>1, SoundInner
  <2>3. Len(s.keys) = 1 /\ g[c].ht - W(s) = d
    <3>1. W(s) = 0
      BY DEF W
    <3>2. g[c].ht - W(s) = d - 0 /\ d - 0 = d
      BY <1>1, <1>4, <3>1
    <3>3. g[c].ht - W(s) = d
      BY <3>2
    <3>4. Len(s.keys) = 1
      <4> DEFINE u == Len(s.keys)
      <4>1. u \in Nat /\ 2 = u + 1
        BY <2>1, <2>2
      <4> HIDE DEF u
      <4>2. u = 1
        BY ONLY <4>1
      <4> QED BY <4>2 DEF u
    <3> QED BY <3>3, <3>4
  <2> QED BY <1>4, <2>1, <2>2, <2>3
<1>6. K \in Seq(Key) /\ IsSplice(K, r.keys, n, s.keys, 1, i, i - 1)
  <2>1. K = SubSeq(r.keys, 1, i - 1) \o s.keys \o SubSeq(r.keys, (i - 1) + 1, Len(r.keys))
    BY <1>3
  <2> QED BY <1>2, <1>3, <1>5, <2>1, ConcatIsSplice
<1>7. Q \in Seq(Value \cup Nat) /\ IsSplice(Q, r.ptrs, n + 1, s.ptrs, 2, i, i)
  <2>1. i \in 1 .. Len(r.ptrs) + 1 /\ i \in i - 1 .. Len(r.ptrs)
    BY <1>1, <1>3
  <2>2. Q \in Seq(Value \cup Nat) /\ IsSplice(Q, r.ptrs, Len(r.ptrs), s.ptrs, Len(s.ptrs), i, i)
    <3> DEFINE S == Value \cup Nat
    <3>1. r.ptrs \in Seq(S) /\ s.ptrs \in Seq(S)
      BY <1>2
    <3> HIDE DEF S
    <3>2. Q \in Seq(S) /\ IsSplice(Q, r.ptrs, Len(r.ptrs), s.ptrs, Len(s.ptrs), i, i)
      BY ONLY <2>1, <3>1, ConcatIsSplice
    <3> QED BY <3>2 DEF S
  <2> QED BY <1>1, <1>5, <2>2
<1>8. Spliced(r, s, i).keys = K /\ Spliced(r, s, i).ptrs = Q
  BY DEF Spliced
<1>9. Kids(r) = Elems(r.ptrs) /\ Kids(s) = Elems(s.ptrs)
  BY <1>5 DEF Kids
<1> HIDE DEF K, Q, n, d, lo, hi
<1>10. InnerArray(n + 1 + i - i, K, Q, x.lo, x.hi, d, g)
  <2>1. 1 + 1 = 2
    OBVIOUS
  <2>2. IsSplice(Q, r.ptrs, n + 1, s.ptrs, 1 + 1, i, i)
    BY <1>7, <2>1
  <2>3. InnerArray(1, s.keys, s.ptrs, Low(r.keys, x.lo, i), High(n, r.keys, x.hi, i), d, g)
    BY <1>5 DEF lo, hi
  <2> QED BY <1>1, <1>3, <1>6, <2>2, <2>3, SpliceInner
<1>11. n + 1 + i - i = n + 1
  BY <1>1, <1>3
<1>12. Elems(Q) = (Elems(r.ptrs) \ {c}) \cup Elems(s.ptrs)
  <2>1. /\ Elems(Q) \subseteq Elems(s.ptrs) \cup {r.ptrs[j] : j \in {q \in 1 .. n + 1 : q < i \/ q > i}}
        /\ Elems(s.ptrs) \subseteq Elems(Q)
        /\ \A j \in 1 .. n + 1 : j < i \/ j > i => r.ptrs[j] \in Elems(Q)
    <3>1. n + 1 \in Nat /\ 2 \in Nat /\ i \in 1 .. (n + 1) + 1 /\ i \in i - 1 .. n + 1
      BY <1>1, <1>3
    <3> QED BY <1>1, <1>5, <1>7, <3>1, SpliceElems
  <2>2. \A j \in 1 .. n + 1 : (j < i \/ j > i) <=> r.ptrs[j] # c
    <3>1. \A j \in 1 .. n + 1 : j # i => r.ptrs[j] # r.ptrs[i]
      BY <1>3, Kid DEF n
    <3> QED BY <1>3, <3>1
  <2>3. Elems(r.ptrs) = {r.ptrs[j] : j \in 1 .. n + 1}
    BY <1>1 DEF Elems
  <2> HIDE DEF c
  <2>4. Elems(Q) \subseteq (Elems(r.ptrs) \ {c}) \cup Elems(s.ptrs)
    BY <2>1, <2>2, <2>3
  <2>5. Elems(r.ptrs) \ {c} \subseteq Elems(Q)
    BY <2>1, <2>2, <2>3
  <2> QED BY <2>1, <2>4, <2>5
<1> QED BY <1>6, <1>7, <1>8, <1>9, <1>10, <1>11, <1>12 DEF SplicedOK, n, d

\* Keys and pointers that make a node of weight 1, or two.
Content(leaf, keys, ptrs, lo, hi, ht, g) ==
    /\ leaf \in BOOLEAN /\ keys \in Seq(Key) /\ ptrs \in Seq(Value \cup Nat)
    /\ lo \in Int /\ hi \in Int /\ ht \in Int
    /\ leaf => ht = 1 /\ LeafArray(Len(ptrs), keys, ptrs, lo, hi)
    /\ ~leaf => InnerArray(Len(ptrs) - 1, keys, ptrs, lo, hi, ht - 1, g)

\* A node of weight 1 with these children.
ParentOK(n, x, g, S) == Sound(n, x, g) /\ ~n.marked /\ n.weight /\ Kids(n) = S

LEMMA OneNode ==
    ASSUME NEW leaf, NEW keys, NEW ptrs, NEW lo, NEW hi, NEW ht, NEW g,
           Content(leaf, keys, ptrs, lo, hi, ht, g), Len(ptrs) <= b,
           NEW sk \in Key, lo <= sk, sk < hi
    PROVE  ParentOK(MakeNode(leaf, TRUE, sk, keys, ptrs), Bounded(lo, hi, ht), g,
                    IF leaf THEN {} ELSE Elems(ptrs))
<1> DEFINE n == MakeNode(leaf, TRUE, sk, keys, ptrs)
           x == Bounded(lo, hi, ht)
<1>1. keys \in Seq(Key) /\ ptrs \in Seq(Value \cup Nat) /\ lo \in Int /\ hi \in Int /\ ht \in Int
  BY DEF Content
<1>2. x \in Info /\ x.lo = lo /\ x.hi = hi /\ x.ht = ht
  BY <1>1, NewInfo DEF Bounded
<1>3. ~n.marked /\ n.weight /\ n.leaf = leaf /\ n.ptrs = ptrs
  BY DEF MakeNode
<1>4. Kids(n) = IF leaf THEN {} ELSE Elems(ptrs)
  BY <1>3 DEF Kids
<1>5. Len(ptrs) \in Nat
  BY <1>1, LenProperties
<1> HIDE DEF x
<1>6. CASE leaf = TRUE
  <2>1. ht = 1 /\ LeafArray(Len(ptrs), keys, ptrs, x.lo, x.hi)
    BY <1>2, <1>6 DEF Content
  <2>2. Sound(MakeNode(TRUE, TRUE, sk, keys, ptrs), x, g)
    BY <1>1, <1>2, <2>1, NewLeaf
  <2> QED BY <1>3, <1>4, <1>6, <2>2 DEF x, ParentOK
<1>7. CASE leaf = FALSE
  <2>1. InnerArray(Len(ptrs) - 1, keys, ptrs, x.lo, x.hi, x.ht - (IF TRUE THEN 1 ELSE 0), g)
    BY <1>2, <1>7 DEF Content
  <2>2. (Len(ptrs) - 1) + 1 <= b
    BY <1>5 DEF b
  <2>3. Sound(MakeNode(FALSE, TRUE, sk, keys, ptrs), x, g)
    BY <1>1, <1>2, <2>1, <2>2, NewInner
  <2> QED BY <1>3, <1>4, <1>7, <2>3 DEF x, ParentOK
<1> QED BY <1>6, <1>7 DEF Content

LEMMA TwoNodes ==
    ASSUME NEW leaf, NEW keys, NEW ptrs, NEW lo, NEW hi, NEW ht, NEW g,
           Content(leaf, keys, ptrs, lo, hi, ht, g), Len(ptrs) >= 4, Len(ptrs) <= 2 * b
    PROVE  LET z == Halves(leaf, keys, ptrs, Len(ptrs) \div 2)
           IN  /\ HalvesOK(z, lo, hi, ht, g)
               /\ Kids(z.left) \cup Kids(z.right) = IF leaf THEN {} ELSE Elems(ptrs)
               /\ Kids(z.left) \cap Kids(z.right) = {}
<1> DEFINE L == Len(ptrs)
           size == L \div 2
           z == Halves(leaf, keys, ptrs, size)
<1>1. keys \in Seq(Key) /\ ptrs \in Seq(Value \cup Nat) /\ ht \in Int
  BY DEF Content
<1>2. L \in Nat
  BY <1>1, LenProperties
<1>3. /\ size \in Nat /\ size >= 2 /\ size >= 1 /\ size <= L - 1 /\ size <= (L - 1) - 1 /\ size <= b /\ L - size <= b
      /\ (L - 1) + 1 - size <= b /\ (L - 1) + 1 = L
  BY <1>2, DegreeAssumption DEF b
<1> HIDE DEF L, size
<1>4. CASE leaf = TRUE
  <2>1. ht = 1 /\ LeafArray(L, keys, ptrs, lo, hi)
    BY <1>4 DEF Content, L
  <2> DEFINE y == Halves(TRUE, keys, ptrs, size)
  <2>2. HalvesOK(y, lo, hi, 1, g) /\ Kids(y.left) = {} /\ Kids(y.right) = {}
    BY <1>1, <1>3, <2>1, HalvesLeaf
  <2>3. z = y
    BY <1>4
  <2> HIDE DEF y, z
  <2>4. HalvesOK(z, lo, hi, ht, g) /\ Kids(z.left) = {} /\ Kids(z.right) = {}
    BY <2>1, <2>2, <2>3
  <2> QED BY <1>4, <2>4 DEF z, size, L
<1>5. CASE leaf = FALSE
  <2>1. InnerArray(L - 1, keys, ptrs, lo, hi, ht - 1, g)
    BY <1>5 DEF Content, L
  <2> DEFINE y == Halves(FALSE, keys, ptrs, size)
             A == Slice(ptrs, 1, size)
             B == Slice(ptrs, size + 1, (L - 1) + 1)
  <2>2. HalvesOK(y, lo, hi, (ht - 1) + 1, g) /\ Kids(y.left) = A /\ Kids(y.right) = B
    <3> DEFINE n == L - 1
               d == ht - 1
    <3>1. InnerArray(n, keys, ptrs, lo, hi, d, g) /\ size \in Nat /\ size >= 2 /\ size <= n - 1 /\ size <= b /\ n + 1 - size <= b
      BY <1>3, <2>1
    <3>3. keys \in Seq(Key) /\ ptrs \in Seq(Value \cup Nat)
      BY <1>1
    <3> HIDE DEF n, d
    <3>2. Parted(keys, ptrs, n, lo, hi, d, g, size)
      BY ONLY <3>1, <3>3, HalvesInner
    <3> QED BY <3>2 DEF n, d, Parted
  <2>3. z = y /\ (ht - 1) + 1 = ht
    <3>1. z = y
      BY ONLY <1>5, Zenon
    <3>2. (ht - 1) + 1 = ht
      BY <1>1
    <3> QED BY <3>1, <3>2
  <2>4. A \cap B = {}
    <3> SUFFICES ASSUME NEW i \in 1 .. size, NEW j \in size + 1 .. (L - 1) + 1 PROVE ptrs[i] # ptrs[j]
      BY DEF Slice
    <3>1. i \in 1 .. (L - 1) + 1 /\ j \in 1 .. (L - 1) + 1 /\ i < j
      BY <1>2, <1>3
    <3> QED BY <2>1, <3>1, DistinctKids
  <2>5. A \cup B = Elems(ptrs)
    <3>1. Elems(ptrs) = {ptrs[j] : j \in 1 .. L}
      BY DEF Elems, L
    <3>2. \A j : j \in 1 .. L <=> j \in 1 .. size \/ j \in size + 1 .. (L - 1) + 1
      BY <1>2, <1>3
    <3> QED BY <3>1, <3>2 DEF Slice
  <2> HIDE DEF y, z, A, B
  <2>6. HalvesOK(z, lo, hi, ht, g) /\ Kids(z.left) = A /\ Kids(z.right) = B
    BY <2>2, <2>3
  <2> QED BY <1>5, <2>4, <2>5, <2>6 DEF z, size, L
<1> QED BY <1>4, <1>5 DEF Content

\* The children i and i + 1 of r in one.
JoinOf(r, i, s1, s2) ==
    [leaf |-> s1.leaf,
     keys |-> s1.keys \o (IF s1.leaf THEN <<>> ELSE <<r.keys[i]>>) \o s2.keys,
     ptrs |-> s1.ptrs \o s2.ptrs]

\* What has the place of the two children.
Joins(m, r, x, i, s1, s2, g) ==
    /\ Content(m.leaf, m.keys, m.ptrs, Low(r.keys, x.lo, i), High(Len(r.keys), r.keys, x.hi, i + 1),
               x.ht - W(r), g)
    /\ Len(m.ptrs) = Len(s1.ptrs) + Len(s2.ptrs)
    /\ (IF m.leaf THEN {} ELSE Elems(m.ptrs)) = Kids(s1) \cup Kids(s2)

LEMMA JoinLeaves ==
    ASSUME NEW g, NEW s, NEW y, NEW t, NEW z, IsLeaf(s, y, g), IsLeaf(t, z, g), y.hi = z.lo
    PROVE  Content(TRUE, s.keys \o t.keys, s.ptrs \o t.ptrs, y.lo, z.hi, 1, g)
<1> DEFINE n == Len(s.keys)
           m == Len(t.keys)
           K == s.keys \o t.keys
           Q == s.ptrs \o t.ptrs
<1>1. /\ n \in Nat /\ s.keys \in Seq(Key) /\ s.ptrs \in Seq(Value \cup Nat) /\ Len(s.ptrs) = n
      /\ LeafArray(n, s.keys, s.ptrs, y.lo, y.hi) /\ y.lo \in Int
  BY LeafFields
<1>2. /\ m \in Nat /\ t.keys \in Seq(Key) /\ t.ptrs \in Seq(Value \cup Nat) /\ Len(t.ptrs) = m
      /\ LeafArray(m, t.keys, t.ptrs, y.hi, z.hi) /\ z.hi \in Int
  BY LeafFields
<1>3. K \in Seq(Key) /\ IsJoin(K, s.keys, n, t.keys, m)
  BY <1>1, <1>2, ConcatIsJoin
<1>4. Q \in Seq(Value \cup Nat) /\ IsJoin(Q, s.ptrs, n, t.ptrs, m)
  <2>1. Q \in Seq(Value \cup Nat) /\ IsJoin(Q, s.ptrs, Len(s.ptrs), t.ptrs, Len(t.ptrs))
    BY <1>1, <1>2, ConcatIsJoin
  <2> QED BY <1>1, <1>2, <2>1
<1> HIDE DEF K, Q, n, m
<1>5. LeafArray(n + m, K, Q, y.lo, z.hi)
  BY <1>1, <1>2, <1>3, <1>4, JoinLeaf
<1>6. Len(Q) = n + m
  BY <1>5 DEF LeafArray
<1> QED BY <1>1, <1>2, <1>3, <1>4, <1>5, <1>6 DEF Content, K, Q

LEMMA JoinInners ==
    ASSUME NEW g, NEW s, NEW y, NEW t, NEW z, NEW mid \in Key, Sound(s, y, g), Sound(t, z, g),
           ~s.leaf, ~t.leaf, s.weight, t.weight, y.hi = mid, z.lo = mid, y.ht = z.ht
    PROVE  Content(FALSE, s.keys \o <<mid>> \o t.keys, s.ptrs \o t.ptrs, y.lo, z.hi, y.ht, g)
<1> DEFINE n == Len(s.keys)
           m == Len(t.keys)
           X == <<mid>>
           J == s.keys \o X
           K == J \o t.keys
           Q == s.ptrs \o t.ptrs
           d == y.ht - 1
<1>1. InnerArray(n, s.keys, s.ptrs, y.lo, mid, d, g) /\ n \in Nat /\ Len(s.ptrs) = n + 1 /\ y.ht \in Int
  <2>1. W(s) = 1
    BY DEF W
  <2> QED BY <2>1, SoundInner
<1>2. InnerArray(m, t.keys, t.ptrs, mid, z.hi, d, g) /\ m \in Nat /\ Len(t.ptrs) = m + 1
  <2>1. W(t) = 1
    BY DEF W
  <2> QED BY <2>1, SoundInner
<1>3. /\ s.keys \in Seq(Key) /\ s.ptrs \in Seq(Value \cup Nat)
      /\ t.keys \in Seq(Key) /\ t.ptrs \in Seq(Value \cup Nat)
  BY NodeFields DEF Sound
<1>4. X \in Seq(Key) /\ Len(X) = 1
  OBVIOUS
<1> HIDE DEF X
<1>5. J \in Seq(Key) /\ IsJoin(J, s.keys, n, X, 1)
  BY <1>3, <1>4, ConcatIsJoin
<1>6. Len(J) = n + 1
  BY <1>5 DEF IsJoin
<1> HIDE DEF J
<1>7. K \in Seq(Key) /\ IsJoin(K, J, n + 1, t.keys, m)
  <2>1. K \in Seq(Key) /\ IsJoin(K, J, Len(J), t.keys, Len(t.keys))
    BY <1>3, <1>5, ConcatIsJoin
  <2> QED BY <1>6, <2>1
<1>8. Q \in Seq(Value \cup Nat) /\ IsJoin(Q, s.ptrs, n + 1, t.ptrs, m + 1)
  <2>1. Q \in Seq(Value \cup Nat) /\ IsJoin(Q, s.ptrs, Len(s.ptrs), t.ptrs, Len(t.ptrs))
    BY <1>3, ConcatIsJoin
  <2> QED BY <1>1, <1>2, <2>1
<1> HIDE DEF K, Q, n, m, d
<1>9. InnerArray(n + 1 + m, K, Q, y.lo, z.hi, d, g)
  BY <1>1, <1>2, <1>5, <1>7, <1>8, JoinInner DEF X
<1>10. Len(Q) = (n + 1 + m) + 1 /\ y.lo \in Int /\ z.hi \in Int
  BY <1>9 DEF InnerArray
<1>11. Len(Q) - 1 = n + 1 + m
  BY <1>1, <1>2, <1>10
<1>12. InnerArray(Len(Q) - 1, K, Q, y.lo, z.hi, y.ht - 1, g)
  BY <1>9, <1>11 DEF d
<1> QED BY <1>1, <1>7, <1>8, <1>10, <1>12 DEF Content, K, Q, J, X

\* Two neighbours of weight 1 are both leaves or neither is, and can be joined.
LEMMA JoinedNode ==
    ASSUME NEW g, NEW r, NEW x, Sound(r, x, g), ~r.leaf, NEW i \in 1 .. Len(r.keys),
           NEW s1, Sound(s1, g[r.ptrs[i]], g), s1.weight,
           NEW s2, Sound(s2, g[r.ptrs[i + 1]], g), s2.weight
    PROVE  Joins(JoinOf(r, i, s1, s2), r, x, i, s1, s2, g)
<1> DEFINE n == Len(r.keys)
           d == x.ht - W(r)
           y == g[r.ptrs[i]]
           z == g[r.ptrs[i + 1]]
           mid == r.keys[i]
           m == JoinOf(r, i, s1, s2)
           lo == Low(r.keys, x.lo, i)
           hi == High(n, r.keys, x.hi, i + 1)
<1>1. n \in Nat /\ d \in Int
  <2>1. x.ht \in Int /\ n \in Nat
    BY SoundInner
  <2> QED BY <2>1 DEF W
<1>2. i \in 1 .. n + 1 /\ i + 1 \in 1 .. n + 1 /\ i # n + 1 /\ i + 1 # 1 /\ (i + 1) - 1 = i
  BY <1>1
<1>3. y.lo = lo /\ y.hi = High(n, r.keys, x.hi, i) /\ y.ht = d
  BY <1>2, Kid
<1>4. z.lo = Low(r.keys, x.lo, i + 1) /\ z.hi = hi /\ z.ht = d
  BY <1>2, Kid
<1>5. y.hi = mid /\ z.lo = mid
  BY <1>2, <1>3, <1>4 DEF Low, High
<1>6. mid \in Key
  BY KeyAt, NodeFields DEF Sound
<1>7. r.leaf \in BOOLEAN /\ s1.leaf \in BOOLEAN /\ s2.leaf \in BOOLEAN
  BY NodeFields DEF Sound
<1>8. s1.leaf <=> s2.leaf
  <2>1. \A s, u : Sound(s, u, g) /\ s.leaf => u.ht = 1
    BY DEF Sound
  <2>2. \A s, u : Sound(s, u, g) /\ ~s.leaf /\ s.weight => u.ht - 1 >= 1 /\ u.ht \in Int
    <3> SUFFICES ASSUME NEW s, NEW u, Sound(s, u, g), ~s.leaf, s.weight PROVE u.ht - 1 >= 1 /\ u.ht \in Int
      OBVIOUS
    <3>1. W(s) = 1
      BY DEF W
    <3> QED BY <3>1, SoundInner
  <2>3. ~(d = 1 /\ d - 1 >= 1)
    OBVIOUS
  <2> HIDE DEF d, y, z
  <2>4. s1.leaf => d = 1
    BY <1>3, <2>1 DEF y
  <2>5. s2.leaf => d = 1
    BY <1>4, <2>1 DEF z
  <2>6. ~s1.leaf => d - 1 >= 1
    BY <1>3, <2>2 DEF y
  <2>7. ~s2.leaf => d - 1 >= 1
    BY <1>4, <2>2 DEF z
  <2> QED BY <1>7, <2>3, <2>4, <2>5, <2>6, <2>7
<1>9. /\ m.leaf = s1.leaf /\ m.ptrs = s1.ptrs \o s2.ptrs
      /\ m.keys = s1.keys \o (IF s1.leaf THEN <<>> ELSE <<mid>>) \o s2.keys
  BY DEF JoinOf
<1> HIDE DEF m
<1>10. Content(m.leaf, m.keys, m.ptrs, lo, hi, d, g)
  <2>1. CASE s1.leaf
    <3>1. IsLeaf(s1, y, g) /\ IsLeaf(s2, z, g) /\ d = 1
      BY <1>3, <1>8, <2>1 DEF IsLeaf, Sound
    <3>2. Content(TRUE, s1.keys \o s2.keys, s1.ptrs \o s2.ptrs, y.lo, z.hi, 1, g)
      BY <1>5, <3>1, JoinLeaves
    <3>3. s1.keys \in Seq(Key) /\ m.keys = s1.keys \o <<>> \o s2.keys
      BY <1>9, <2>1, NodeFields DEF Sound
    <3>4. s1.keys \o <<>> = s1.keys
      BY <3>3, ConcatEmptySeq
    <3>5. m.leaf = TRUE
      BY <1>7, <1>9, <2>1
    <3> QED BY <1>3, <1>4, <1>9, <3>1, <3>2, <3>3, <3>4, <3>5
  <2>2. CASE ~s1.leaf
    <3>1. Content(FALSE, s1.keys \o <<mid>> \o s2.keys, s1.ptrs \o s2.ptrs, y.lo, z.hi, y.ht, g)
      BY <1>3, <1>4, <1>5, <1>6, <1>8, <2>2, JoinInners
    <3>2. m.leaf = FALSE
      BY <1>7, <1>9, <2>2
    <3>3. m.keys = s1.keys \o <<mid>> \o s2.keys
      BY <1>9, <2>2
    <3> HIDE DEF d, lo, hi, y, z, mid
    <3> QED BY <1>3, <1>4, <1>9, <3>1, <3>2, <3>3
  <2> QED BY <1>7, <2>1, <2>2
<1>11. /\ s1.ptrs \in Seq(Value \cup Nat) /\ s2.ptrs \in Seq(Value \cup Nat)
       /\ Len(s1.ptrs) \in Nat /\ Len(s2.ptrs) \in Nat
  BY NodeFields DEF Sound
<1>12. IsJoin(m.ptrs, s1.ptrs, Len(s1.ptrs), s2.ptrs, Len(s2.ptrs))
  BY <1>9, <1>11, ConcatIsJoin
<1>13. Len(m.ptrs) = Len(s1.ptrs) + Len(s2.ptrs)
  BY <1>12 DEF IsJoin
<1>14. Elems(m.ptrs) = Elems(s1.ptrs) \cup Elems(s2.ptrs)
  BY <1>11, <1>12, JoinElems
<1>15. (IF m.leaf THEN {} ELSE Elems(m.ptrs)) = Kids(s1) \cup Kids(s2)
  BY <1>7, <1>8, <1>9, <1>14 DEF Kids
<1> HIDE DEF d, lo, hi
<1>16. Joins(m, r, x, i, s1, s2, g)
  BY <1>10, <1>13, <1>15 DEF Joins, d, lo, hi
<1> QED BY <1>16 DEF m
---------------------------------------------------------------------------
(* The updates at internal nodes *)

\* p is the child ip of P, a node of the tree, and l the child il of p.
Spot(h, R, P, ip, p, il, l) ==
    /\ Place(h, P, ip) /\ P \notin R /\ p = h[P].ptrs[ip]
    /\ Place(h, p, il) /\ l = h[p].ptrs[il]

LEMMA KidRank ==
    ASSUME NEW h, NEW g, NodesOK(h, g), NEW q \in 1 .. Len(h), NEW x \in Kids(h[q])
    PROVE  /\ x \in 1 .. Len(h) /\ TreeRank(h, g)[x] \in Nat /\ TreeRank(h, g)[q] \in Nat
           /\ TreeRank(h, g)[x] < TreeRank(h, g)[q]
<1>1. Ranked(Len(h), KidsOf(h), TreeRank(h, g))
  BY NodesRanked
<1>2. KidsOf(h)[q] = Kids(h[q])
  BY DEF KidsOf
<1> QED BY <1>1, <1>2 DEF Ranked

\* The nodes of a spot.
SpotOK(h, g, R, P, p, l) ==
    /\ g \in Seq(Info) /\ Len(g) = Len(h) /\ Len(h) \in Nat
    /\ P \in 1 .. Len(h) /\ p \in 2 .. Len(h) /\ p \notin R /\ l \in 2 .. Len(h) /\ l \notin R
    /\ Sound(h[p], g[p], g) /\ Sound(h[l], g[l], g) /\ ~h[p].leaf
    /\ p \in Kids(h[P]) /\ l \in Kids(h[p]) /\ P # p /\ P # l /\ p # l
    /\ \A x \in Kids(h[p]) : x # p /\ x # P
    /\ \A x \in Kids(h[l]) : x # l /\ x # p /\ x # P

LEMMA SpotNodes ==
    ASSUME NEW h, NEW g, NEW R, Fine(h, g, R), NEW P, NEW ip, NEW p, NEW il, NEW l,
           Spot(h, R, P, ip, p, il, l)
    PROVE  SpotOK(h, g, R, P, p, l)
<1>1. NodesOK(h, g)
  BY DEF Fine
<1>2. g \in Seq(Info) /\ Len(g) = Len(h) /\ Len(h) \in Nat
  BY <1>1, HeapType DEF NodesOK
<1>3. P \in 1 .. Len(h) /\ ~h[p].leaf
  BY DEF Spot, Place
<1>4. p \in 2 .. Len(h) /\ p \notin R /\ p \in Kids(h[P]) /\ Sound(h[p], g[p], g)
  <2>1. Place(h, P, ip) /\ P \notin R /\ p = h[P].ptrs[ip]
    BY DEF Spot
  <2> QED BY <2>1, LiveKid
<1>5. l \in 2 .. Len(h) /\ l \notin R /\ l \in Kids(h[p]) /\ Sound(h[l], g[l], g)
  <2>1. Place(h, p, il) /\ l = h[p].ptrs[il]
    BY DEF Spot
  <2> QED BY <1>4, <2>1, LiveKid
<1>6. p \in 1 .. Len(h) /\ l \in 1 .. Len(h)
  BY <1>2, <1>4, <1>5
<1> DEFINE rk == TreeRank(h, g)
<1>7. rk[p] \in Nat /\ rk[P] \in Nat /\ rk[p] < rk[P]
  BY <1>1, <1>3, <1>4, KidRank
<1>8. rk[l] \in Nat /\ rk[l] < rk[p]
  BY <1>1, <1>5, <1>6, KidRank
<1>9. \A x \in Kids(h[p]) : rk[x] \in Nat /\ rk[x] < rk[p]
  BY <1>1, <1>6, KidRank
<1>10. \A x \in Kids(h[l]) : rk[x] \in Nat /\ rk[x] < rk[l]
  BY <1>1, <1>6, KidRank
<1> HIDE DEF rk
<1>11. P # p /\ P # l /\ p # l
  BY <1>7, <1>8
<1>12. \A x \in Kids(h[p]) : x # p /\ x # P
  BY <1>7, <1>9
<1>13. \A x \in Kids(h[l]) : x # l /\ x # p /\ x # P
  BY <1>7, <1>8, <1>10
<1> QED BY <1>2, <1>3, <1>4, <1>5, <1>11, <1>12, <1>13 DEF SpotOK

\* The nodes of D may go, and those of F have no other parent.
Leaves(h, R, P, c, D, F) == Goes(h, R, P, c, D) /\ Freed(h, D) = F

LEMMA GoTwo ==
    ASSUME NEW h, NEW g, NEW R, Fine(h, g, R), NEW P, NEW ip, NEW p, NEW il, NEW l,
           Spot(h, R, P, ip, p, il, l)
    PROVE  Leaves(h, R, P, p, {p, l}, (Kids(h[p]) \ {l}) \cup Kids(h[l]))
<1>1. /\ p \in 2 .. Len(h) /\ p \notin R /\ l \in 2 .. Len(h) /\ l \notin R
      /\ l \in Kids(h[p]) /\ P # p /\ P # l /\ p # l
      /\ \A x \in Kids(h[p]) : x # p
      /\ \A x \in Kids(h[l]) : x # l /\ x # p
  <2>1. SpotOK(h, g, R, P, p, l)
    BY SpotNodes
  <2> QED BY <2>1 DEF SpotOK
<1>2. P \notin R
  BY DEF Spot
<1>3. Goes(h, R, P, p, {p, l})
  BY <1>1, <1>2 DEF Goes
<1>4. \A x : x \in Freed(h, {p, l}) <=> x # p /\ x # l /\ (x \in Kids(h[p]) \/ x \in Kids(h[l]))
  BY DEF Freed
<1>5. Freed(h, {p, l}) = (Kids(h[p]) \ {l}) \cup Kids(h[l])
  BY <1>1, <1>4
<1> QED BY <1>3, <1>5 DEF Leaves

\* The same with another child of p.
LEMMA GoThree ==
    ASSUME NEW h, NEW g, NEW R, Fine(h, g, R), NEW P, NEW ip, NEW p, NEW il, NEW l,
           Spot(h, R, P, ip, p, il, l), NEW is, NEW s, Spot(h, R, P, ip, p, is, s), s # l
    PROVE  /\ Leaves(h, R, P, p, {p} \cup {l, s},
                     (Kids(h[p]) \ {l, s}) \cup Kids(h[l]) \cup Kids(h[s]))
           /\ Kids(h[p]) \cap (Kids(h[l]) \cup Kids(h[s])) = {}
<1>1. /\ p \in 2 .. Len(h) /\ p \notin R /\ l \in 2 .. Len(h) /\ l \notin R
      /\ l \in Kids(h[p]) /\ P # p /\ P # l /\ p # l
      /\ \A x \in Kids(h[p]) : x # p
      /\ \A x \in Kids(h[l]) : x # l /\ x # p
  <2>1. SpotOK(h, g, R, P, p, l)
    BY SpotNodes
  <2> QED BY <2>1 DEF SpotOK
<1>2. /\ s \in 2 .. Len(h) /\ s \notin R
      /\ s \in Kids(h[p]) /\ P # s /\ p # s
      /\ \A x \in Kids(h[s]) : x # s /\ x # p
  <2>1. SpotOK(h, g, R, P, p, s)
    BY SpotNodes
  <2> QED BY <2>1 DEF SpotOK
<1>3. P \notin R
  BY DEF Spot
<1>4. \A q \in 2 .. Len(h) : q \in 1 .. Len(h)
  <2>1. Len(h) \in Nat
    BY HeapType DEF Fine
  <2> QED BY <2>1
<1>5. Kids(h[p]) \cap (Kids(h[l]) \cup Kids(h[s])) = {}
  <2>1. \A x : ~(x \in Kids(h[p]) /\ x \in Kids(h[l]))
    BY <1>1, <1>4, OneParent
  <2>2. \A x : ~(x \in Kids(h[p]) /\ x \in Kids(h[s]))
    BY <1>1, <1>2, <1>4, OneParent
  <2> QED BY <2>1, <2>2
<1>6. Goes(h, R, P, p, {p} \cup {l, s})
  BY <1>1, <1>2, <1>3 DEF Goes
<1>7. \A x : x \in Freed(h, {p} \cup {l, s}) <=>
             x # p /\ x # l /\ x # s /\ (x \in Kids(h[p]) \/ x \in Kids(h[l]) \/ x \in Kids(h[s]))
  BY DEF Freed
<1>8. \A x : x \in Freed(h, {p} \cup {l, s}) <=>
             \/ x \in Kids(h[p]) /\ x # l /\ x # s
             \/ x \in Kids(h[l])
             \/ x \in Kids(h[s])
  BY <1>1, <1>2, <1>5, <1>7
<1>9. Freed(h, {p} \cup {l, s}) = (Kids(h[p]) \ {l, s}) \cup Kids(h[l]) \cup Kids(h[s])
  BY <1>8
<1> QED BY <1>5, <1>6, <1>9 DEF Leaves

\* The parent of two new nodes, of weight 1 or 0.
TopOK(n, w, X, g, N) ==
    /\ Sound(n, X, g) /\ ~n.marked /\ n.weight = w /\ Kids(n) = {N + 2, N + 3}

TopHeight(w, ht) == IF w THEN ht + 1 ELSE ht

LEMMA NewTop ==
    ASSUME NEW g \in Seq(Info), NEW z, NEW lo \in Int, NEW hi \in Int, NEW ht \in Int, ht >= 1,
           HalvesOK(z, lo, hi, ht, g), NEW w \in BOOLEAN
    PROVE  LET X == Bounded(lo, hi, TopHeight(w, ht))
               Y == Bounded(lo, z.separator, ht)
               Z == Bounded(z.separator, hi, ht)
           IN  TopOK(MakeNode(FALSE, w, z.separator, <<z.separator>>, <<Len(g) + 2, Len(g) + 3>>),
                     w, X, g \o <<X, Y, Z>>, Len(g))
<1> DEFINE sep == z.separator
           H == TopHeight(w, ht)
           X == Bounded(lo, hi, H)
           Y == Bounded(lo, sep, ht)
           Z == Bounded(sep, hi, ht)
           ng == <<X, Y, Z>>
           g2 == g \o ng
           N == Len(g)
           K == <<sep>>
           Q == <<N + 2, N + 3>>
           n == MakeNode(FALSE, w, sep, K, Q)
<1>1. sep \in Key /\ sep \in Int /\ lo < sep /\ sep < hi
  BY DEF HalvesOK
<1>2. H \in Int /\ N \in Nat /\ H - (IF w THEN 1 ELSE 0) = ht
  BY LenProperties DEF TopHeight
<1> HIDE DEF H
<1>3. /\ X \in Info /\ X.lo = lo /\ X.hi = hi /\ X.ht = H
      /\ Y \in Info /\ Y.lo = lo /\ Y.hi = sep /\ Y.ht = ht
      /\ Z \in Info /\ Z.lo = sep /\ Z.hi = hi /\ Z.ht = ht
  BY <1>1, <1>2, NewInfo DEF Bounded
<1> HIDE DEF X, Y, Z, sep, N
<1>4. ng \in Seq(Info) /\ Len(ng) = 3 /\ ng[2] = Y /\ ng[3] = Z
  BY <1>3
<1> HIDE DEF ng
<1>5. Fits(g2, N + 2, lo, sep, ht) /\ Fits(g2, N + 3, sep, hi, ht)
  <2>1. \A j \in 2 .. Len(ng) : Fits(g2, N + j, ng[j].lo, ng[j].hi, ng[j].ht)
    BY <1>4, Extends DEF N
  <2>2. 2 \in 2 .. Len(ng) /\ 3 \in 2 .. Len(ng)
    BY <1>4
  <2> QED BY <1>3, <1>4, <2>1, <2>2
<1> HIDE DEF g2
<1>6. InnerArray(1, K, Q, lo, hi, ht, g2)
  BY <1>1, <1>5, TwoKids
<1>7. K \in Seq(Key) /\ Q \in Seq(Value \cup Nat) /\ Elems(Q) = {N + 2, N + 3}
  <2>1. N + 2 \in Value \cup Nat /\ N + 3 \in Value \cup Nat
    BY <1>2
  <2>2. Elems(Q) = {N + 2, N + 3}
    <3>1. Len(Q) = 2 /\ Q[1] = N + 2 /\ Q[2] = N + 3
      OBVIOUS
    <3> HIDE DEF Q
    <3>2. \A j : j \in 1 .. Len(Q) <=> j = 1 \/ j = 2
      BY <3>1
    <3> QED BY <3>1, <3>2 DEF Elems
  <2> QED BY <1>1, <2>1, <2>2
<1> HIDE DEF K, Q
<1>8. Sound(n, X, g2)
  <2>1. X.lo <= sep /\ sep < X.hi /\ 1 + 1 <= b /\ (w \/ 1 = 1)
    BY <1>1, <1>3, DegreeAssumption DEF b
  <2>2. InnerArray(1, K, Q, X.lo, X.hi, X.ht - (IF w THEN 1 ELSE 0), g2)
    BY <1>2, <1>3, <1>6
  <2> QED BY <1>1, <1>3, <1>7, <2>1, <2>2, NewInner
<1>9. ~n.marked /\ n.weight = w /\ n.leaf = FALSE /\ n.ptrs = Q
  BY DEF MakeNode
<1>10. Kids(n) = {N + 2, N + 3}
  BY <1>7, <1>9 DEF Kids
<1>11. TopOK(n, w, X, g2, N)
  BY <1>8, <1>9, <1>10 DEF TopOK
<1> QED BY <1>11 DEF K, Q, N, g2, ng, X, Y, Z, H, sep

\* g2 says of the nodes of g what g says.
Keeps(g, g2) == Len(g) <= Len(g2) /\ \A c \in 1 .. Len(g) : g2[c] = g[c]

\* The nodes of D, reached from P through p, may go.
Leads(h, R, P, ix, p, D) == Place(h, P, ix) /\ p = h[P].ptrs[ix] /\ Goes(h, R, P, p, D)

NewNodes(new) == new \in Seq(NodeType) /\ Len(new) >= 1 /\ \A j \in 1 .. Len(new) : ~new[j].marked

SameRange(x, y) == x.lo = y.lo /\ x.hi = y.hi

\* After the SCX the tree is one again, and the first new node has the bounds of
\* the node that it replaces.
Preserves(h, g, R, P, ix, D, new) ==
    /\ Leads(h, R, P, ix, h[P].ptrs[ix], D) /\ NewNodes(new)
    /\ Adopts(h, R, P, h[P].ptrs[ix], D, new)
    /\ \E g2 : /\ Fine(Changed(h, P, ix, D) \o new, g2, R \cup D) /\ Keeps(g, g2)
              /\ SameRange(g[h[P].ptrs[ix]], g2[Len(h) + 1])

LEMMA Preserved ==
    ASSUME NEW h, NEW g \in Seq(Info), NEW R, NEW P, NEW ix, NEW p, NEW D, NEW new, NEW ng \in Seq(Info),
           Len(g) = Len(h), Leads(h, R, P, ix, p, D), Adopts(h, R, P, p, D, new),
           Built(h, g, P, p, new, ng),
           Fine(Changed(h, P, ix, D) \o new, g \o ng, R \cup D)
    PROVE  Preserves(h, g, R, P, ix, D, new)
<1>1. Keeps(g, g \o ng)
  <2>1. /\ Len(g) \in Nat /\ Len(ng) \in Nat /\ Len(g \o ng) = Len(g) + Len(ng)
        /\ \A c \in 1 .. Len(g) : (g \o ng)[c] = g[c]
    BY Extended
  <2> QED BY <2>1 DEF Keeps
<1>2. Leads(h, R, P, ix, h[P].ptrs[ix], D)
  BY DEF Leads
<1>3. NewNodes(new)
  BY DEF Built, NewNodes
<1>4. Adopts(h, R, P, h[P].ptrs[ix], D, new)
  BY DEF Leads
<1>5. SameRange(g[h[P].ptrs[ix]], (g \o ng)[Len(h) + 1])
  <2>1. Len(ng) >= 1 /\ Len(ng) \in Nat /\ ng[1].lo = g[p].lo /\ ng[1].hi = g[p].hi /\ p = h[P].ptrs[ix]
    BY LenProperties DEF Built, Leads
  <2>2. (g \o ng)[Len(g) + 1] = ng[1]
    BY <2>1, Extended
  <2> QED BY <2>1, <2>2 DEF SameRange
<1> QED BY <1>1, <1>2, <1>3, <1>4, <1>5 DEF Preserves

\* What has gone is replaced by one, two or three new nodes.
KidsOne(h, D, n) == Kids(n) = Freed(h, D)

KidsTwo(h, D, n, m) ==
    /\ Kids(n) \cup Kids(m) = Freed(h, D) \cup {Len(h) + 2}
    /\ Len(h) + 2 \in Kids(n) /\ Kids(n) \cap Kids(m) = {}

KidsThree(h, D, n, m, r) ==
    /\ Kids(n) \cup Kids(m) \cup Kids(r) = Freed(h, D) \cup {Len(h) + 2, Len(h) + 3}
    /\ Len(h) + 2 \in Kids(n) /\ Len(h) + 3 \in Kids(n)
    /\ Kids(n) \cap Kids(m) = {} /\ Kids(n) \cap Kids(r) = {} /\ Kids(m) \cap Kids(r) = {}

LEMMA OneFine ==
    ASSUME NEW h, NEW g, NEW R, Fine(h, g, R), NEW P, NEW ix, NEW p, NEW D, Leads(h, R, P, ix, p, D),
           NEW n, NEW X, Sound(n, X, g), Takes(g, P, p, n, X), KidsOne(h, D, n)
    PROVE  Preserves(h, g, R, P, ix, D, <<n>>)
<1> DEFINE ng == <<X>>
<1>1. Place(h, P, ix) /\ p = h[P].ptrs[ix] /\ Goes(h, R, P, p, D) /\ g \in Seq(Info)
      /\ Len(g) = Len(h)
  BY DEF Leads, Fine, NodesOK
<1>2. Built(h, g, P, p, <<n>>, ng)
  BY <1>1, BuiltOne
<1>3. Adopts(h, R, P, p, D, <<n>>)
  BY <1>1, AdoptsOne DEF KidsOne
<1>4. Fine(Changed(h, P, ix, D) \o <<n>>, g \o ng, R \cup D)
  BY <1>1, <1>2, <1>3, ScxFine
<1>5. ng \in Seq(Info)
  BY DEF Sound
<1> HIDE DEF ng
<1> QED BY <1>1, <1>2, <1>3, <1>4, <1>5, Preserved

LEMMA TwoFine ==
    ASSUME NEW h, NEW g, NEW R, Fine(h, g, R), NEW P, NEW ix, NEW p, NEW D, Leads(h, R, P, ix, p, D),
           NEW n, NEW X, NEW m, NEW Y, Sound(n, X, g \o <<X, Y>>), Takes(g, P, p, n, X),
           Sound(m, Y, g), ~m.marked, KidsTwo(h, D, n, m)
    PROVE  Preserves(h, g, R, P, ix, D, <<n, m>>)
<1> DEFINE ng == <<X, Y>>
<1>1. Place(h, P, ix) /\ p = h[P].ptrs[ix] /\ Goes(h, R, P, p, D) /\ g \in Seq(Info)
      /\ Len(g) = Len(h)
  BY DEF Leads, Fine, NodesOK
<1>2. Built(h, g, P, p, <<n, m>>, ng)
  BY <1>1, BuiltTwo
<1>3. Adopts(h, R, P, p, D, <<n, m>>)
  BY <1>1, AdoptsTwo DEF KidsTwo
<1>4. Fine(Changed(h, P, ix, D) \o <<n, m>>, g \o ng, R \cup D)
  BY <1>1, <1>2, <1>3, ScxFine
<1>5. ng \in Seq(Info)
  BY DEF Sound
<1> HIDE DEF ng
<1> QED BY <1>1, <1>2, <1>3, <1>4, <1>5, Preserved

LEMMA ThreeFine ==
    ASSUME NEW h, NEW g, NEW R, Fine(h, g, R), NEW P, NEW ix, NEW p, NEW D, Leads(h, R, P, ix, p, D),
           NEW n, NEW X, NEW m, NEW Y, NEW r, NEW Z, Sound(n, X, g \o <<X, Y, Z>>), Takes(g, P, p, n, X),
           Sound(m, Y, g), ~m.marked, Sound(r, Z, g), ~r.marked, KidsThree(h, D, n, m, r)
    PROVE  Preserves(h, g, R, P, ix, D, <<n, m, r>>)
<1> DEFINE ng == <<X, Y, Z>>
<1>1. Place(h, P, ix) /\ p = h[P].ptrs[ix] /\ Goes(h, R, P, p, D) /\ g \in Seq(Info)
      /\ Len(g) = Len(h)
  BY DEF Leads, Fine, NodesOK
<1>2. Built(h, g, P, p, <<n, m, r>>, ng)
  BY <1>1, BuiltThree
<1>3. Adopts(h, R, P, p, D, <<n, m, r>>)
  BY <1>1, AdoptsThree DEF KidsThree
<1>4. Fine(Changed(h, P, ix, D) \o <<n, m, r>>, g \o ng, R \cup D)
  BY <1>1, <1>2, <1>3, ScxFine
<1>5. ng \in Seq(Info)
  BY DEF Sound
<1> HIDE DEF ng
<1> QED BY <1>1, <1>2, <1>3, <1>4, <1>5, Preserved

\* The new nodes.
ValueNode(r, key, v) ==
    MakeNode(TRUE, TRUE, r.searchKey, r.keys, ReplaceAt(r.ptrs, getKeyIndex(r, key), v))
PairNode(r, key, v) ==
    MakeNode(TRUE, r.weight, r.searchKey, InsertAt(r.keys, getKeyIndex(r, key), key),
             InsertAt(r.ptrs, getKeyIndex(r, key), v))
LessNode(r, key) ==
    MakeNode(TRUE, TRUE, r.keys[1], RemoveAt(r.keys, getKeyIndex(r, key)),
             RemoveAt(r.ptrs, getKeyIndex(r, key)))
LeafHalves(r, key, v) ==
    Halves(TRUE, InsertAt(r.keys, getKeyIndex(r, key), key),
           InsertAt(r.ptrs, getKeyIndex(r, key), v), (DEGREE + 1) \div 2)
TopNode(w, z, N) == MakeNode(FALSE, w, z.separator, <<z.separator>>, <<N + 2, N + 3>>)
WholeNode(m) == MakeNode(FALSE, TRUE, m.keys[1], m.keys, m.ptrs)
PartHalves(leaf, m) == Halves(leaf, m.keys, m.ptrs, Len(m.ptrs) \div 2)
JointNode(m, k) == MakeNode(m.leaf, TRUE, k, m.keys, m.ptrs)
LessParent(r, i, is, N) ==
    MakeNode(FALSE, TRUE, r.searchKey, RemoveAt(r.keys, i), ReplaceAt(RemoveAt(r.ptrs, is), i, N + 2))
SameParent(r, i, z, N) ==
    MakeNode(FALSE, TRUE, r.searchKey, ReplaceAt(r.keys, i, z.separator),
             ReplaceAt(ReplaceAt(r.ptrs, i, N + 2), i + 1, N + 3))

\* The grandparent adopts the children of p and l in one node, as Absorb does.
LEMMA AbsorbFine ==
    ASSUME NEW h, NEW g, NEW R, Fine(h, g, R), NEW P, NEW ip, NEW p, NEW il, NEW l,
           Spot(h, R, P, ip, p, il, l), h[p].weight, ~h[l].weight,
           Len(Spliced(h[p], h[l], il).ptrs) <= b
    PROVE  Preserves(h, g, R, P, ip, {p} \cup {l}, <<WholeNode(Spliced(h[p], h[l], il))>>)
<1> DEFINE r == h[p]
           x == g[p]
           N == Len(r.keys) + 1
           m == Spliced(h[p], h[l], il)
           n == WholeNode(m)
<1>0. /\ m = Spliced(h[p], h[l], il) /\ Len(m.ptrs) <= b
      /\ n = MakeNode(FALSE, TRUE, m.keys[1], m.keys, m.ptrs)
  BY DEF WholeNode
<1> HIDE DEF m, n
<1>1. /\ g \in Seq(Info) /\ Sound(r, x, g) /\ Sound(h[l], g[l], g) /\ ~r.leaf
  <2>1. SpotOK(h, g, R, P, p, l)
    BY SpotNodes
  <2> QED BY <2>1 DEF SpotOK
<1>2. /\ Place(h, P, ip) /\ P \notin R /\ p = h[P].ptrs[ip]
      /\ il \in 1 .. Len(r.ptrs) /\ l = r.ptrs[il]
  BY DEF Spot, Place
<1>3. /\ Goes(h, R, P, p, {p, l})
      /\ Freed(h, {p, l}) = (Kids(r) \ {l}) \cup Kids(h[l])
  <2>1. Leaves(h, R, P, p, {p, l}, (Kids(h[p]) \ {l}) \cup Kids(h[l]))
    BY GoTwo
  <2> QED BY <2>1 DEF Leaves
<1>4. /\ m.keys \in Seq(Key) /\ m.ptrs \in Seq(Value \cup Nat)
      /\ InnerArray(N, m.keys, m.ptrs, x.lo, x.hi, x.ht - 1, g)
      /\ Elems(m.ptrs) = (Kids(r) \ {r.ptrs[il]}) \cup Kids(h[l])
  <2>1. SplicedOK(m, r, x, il, h[l], g)
    BY <1>0, <1>1, <1>2, SplicedNode
  <2> QED BY <2>1 DEF SplicedOK
<1>5. N \in Nat /\ N >= 1 /\ x \in Info
  <2>1. Len(r.keys) \in Nat
    BY <1>1, SoundInner
  <2>2. x \in Info
    BY <1>1 DEF Sound
  <2> QED BY <2>1, <2>2
<1> HIDE DEF r, x, N
<1>6. m.keys[1] \in Key /\ x.lo <= m.keys[1] /\ m.keys[1] < x.hi /\ N + 1 <= b
  <2>1. Len(m.keys) = N /\ 1 \in 1 .. N /\ Len(m.ptrs) = N + 1 /\ Len(m.ptrs) <= b
    BY <1>0, <1>4, <1>5 DEF InnerArray
  <2>2. x.lo < m.keys[1] /\ m.keys[1] < x.hi /\ x.lo \in Int /\ m.keys[1] \in Int
    BY <1>4, <2>1 DEF InnerArray
  <2>3. m.keys[1] \in Key
    BY <1>4, <2>1, KeyAt
  <2> QED BY <2>1, <2>2, <2>3
<1>7. Sound(n, x, g)
  <2>1. InnerArray(N, m.keys, m.ptrs, x.lo, x.hi, x.ht - (IF TRUE THEN 1 ELSE 0), g)
    BY <1>4
  <2> QED BY <1>0, <1>4, <1>5, <1>6, <2>1, NewInner
<1>8. ~n.marked /\ n.weight /\ Kids(n) = Elems(m.ptrs)
  BY <1>0 DEF MakeNode, Kids
<1>9. Leads(h, R, P, ip, p, {p, l}) /\ KidsOne(h, {p, l}, n)
  BY <1>2, <1>3, <1>4, <1>8 DEF Leads, KidsOne
<1>10. Takes(g, P, p, n, x)
  BY <1>8 DEF Takes, x
<1>11. Fine(h, g, R)
  OBVIOUS
<1>12. Preserves(h, g, R, P, ip, {p, l}, <<n>>)
  BY ONLY <1>7, <1>9, <1>10, <1>11, OneFine
<1>13. {p, l} = {p} \cup {l}
  OBVIOUS
<1> QED BY <1>12, <1>13 DEF n, m

\* The grandparent adopts a node above two that share the children of p and l, as
\* Split does.
LEMMA SplitFine ==
    ASSUME NEW h, NEW g, NEW R, Fine(h, g, R), NEW P, NEW ip, NEW p, NEW il, NEW l,
           Spot(h, R, P, ip, p, il, l), h[p].weight, ~h[l].weight,
           Len(Spliced(h[p], h[l], il).ptrs) > b
    PROVE  LET z == PartHalves(FALSE, Spliced(h[p], h[l], il))
           IN  Preserves(h, g, R, P, ip, {p} \cup {l}, <<TopNode(P = 1, z, Len(h)), z.left, z.right>>)
<1> DEFINE r == h[p]
           x == g[p]
           m == Spliced(h[p], h[l], il)
           z == PartHalves(FALSE, m)
           w == P = 1
           n == TopNode(w, z, Len(h))
<1>0. /\ m = Spliced(h[p], h[l], il) /\ Len(m.ptrs) > b
      /\ z = Halves(FALSE, m.keys, m.ptrs, Len(m.ptrs) \div 2)
      /\ w \in BOOLEAN /\ (w <=> P = 1)
      /\ n = MakeNode(FALSE, w, z.separator, <<z.separator>>, <<Len(h) + 2, Len(h) + 3>>)
  BY DEF PartHalves, TopNode
<1> HIDE DEF m, z, w, n
<1>1. /\ g \in Seq(Info) /\ Len(g) = Len(h) /\ Len(h) \in Nat
      /\ Sound(r, x, g) /\ Sound(h[l], g[l], g) /\ ~r.leaf
  <2>1. SpotOK(h, g, R, P, p, l)
    BY SpotNodes
  <2> QED BY <2>1 DEF SpotOK
<1>2. /\ Place(h, P, ip) /\ P \notin R /\ p = h[P].ptrs[ip]
      /\ il \in 1 .. Len(r.ptrs) /\ l = r.ptrs[il]
  BY DEF Spot, Place
<1>3. /\ Goes(h, R, P, p, {p, l})
      /\ Freed(h, {p, l}) = (Kids(r) \ {l}) \cup Kids(h[l])
  <2>1. Leaves(h, R, P, p, {p, l}, (Kids(h[p]) \ {l}) \cup Kids(h[l]))
    BY GoTwo
  <2> QED BY <2>1 DEF Leaves
<1>4. /\ m.keys \in Seq(Key) /\ m.ptrs \in Seq(Value \cup Nat)
      /\ InnerArray(Len(r.keys) + 1, m.keys, m.ptrs, x.lo, x.hi, x.ht - 1, g)
      /\ Elems(m.ptrs) = (Kids(r) \ {l}) \cup Kids(h[l])
  <2>1. SplicedOK(m, r, x, il, h[l], g)
    BY <1>0, <1>1, <1>2, SplicedNode
  <2> QED BY <1>2, <2>1 DEF SplicedOK
<1>5. Len(r.keys) \in Nat /\ Len(r.ptrs) = Len(r.keys) + 1 /\ Len(r.ptrs) <= b /\ x.ht >= 1
      /\ x.lo \in Int /\ x.hi \in Int /\ x.ht \in Int
  <2>1. Len(r.keys) \in Nat /\ Len(r.ptrs) = Len(r.keys) + 1
    BY <1>1, SoundInner
  <2>2. Len(r.ptrs) <= b
    BY <1>1 DEF Sound
  <2>3. x.lo \in Int /\ x.hi \in Int /\ x.ht \in Int /\ x.ht >= 1
    BY <1>1, RankType
  <2> QED BY <2>1, <2>2, <2>3
<1> HIDE DEF r, x
<1>6. Len(m.ptrs) = Len(r.keys) + 2 /\ Len(m.ptrs) - 1 = Len(r.keys) + 1
  <2>1. Len(m.ptrs) = (Len(r.keys) + 1) + 1
    BY <1>4 DEF InnerArray
  <2> QED BY <1>5, <2>1
<1>7. Len(m.ptrs) >= 4 /\ Len(m.ptrs) <= 2 * b
  <2>1. b \in Nat /\ b >= 3
    BY DegreeAssumption DEF b
  <2> HIDE DEF b
  <2> QED BY <1>0, <1>5, <1>6, <2>1
<1>8. Content(FALSE, m.keys, m.ptrs, x.lo, x.hi, x.ht, g)
  BY <1>4, <1>5, <1>6 DEF Content
<1>9. /\ HalvesOK(z, x.lo, x.hi, x.ht, g)
      /\ Kids(z.left) \cup Kids(z.right) = Elems(m.ptrs)
      /\ Kids(z.left) \cap Kids(z.right) = {}
  <2>1. /\ HalvesOK(z, x.lo, x.hi, x.ht, g)
        /\ Kids(z.left) \cup Kids(z.right) = (IF FALSE THEN {} ELSE Elems(m.ptrs))
        /\ Kids(z.left) \cap Kids(z.right) = {}
    BY ONLY <1>0, <1>7, <1>8, TwoNodes
  <2> QED BY <2>1
<1> DEFINE X == Bounded(x.lo, x.hi, TopHeight(w, x.ht))
           Y == Bounded(x.lo, z.separator, x.ht)
           Z == Bounded(z.separator, x.hi, x.ht)
<1>10. TopOK(n, w, X, g \o <<X, Y, Z>>, Len(h))
  <2>1. Len(g) = Len(h)
    BY <1>1
  <2> HIDE DEF X, Y, Z
  <2>2. TopOK(MakeNode(FALSE, w, z.separator, <<z.separator>>, <<Len(g) + 2, Len(g) + 3>>),
              w, X, g \o <<X, Y, Z>>, Len(g))
    <3>1. /\ w \in BOOLEAN /\ g \in Seq(Info) /\ HalvesOK(z, x.lo, x.hi, x.ht, g)
          /\ x.lo \in Int /\ x.hi \in Int /\ x.ht \in Int /\ x.ht >= 1
      BY <1>0, <1>1, <1>5, <1>9
    <3> QED BY ONLY <3>1, NewTop DEF X, Y, Z
  <2> QED BY ONLY <1>0, <2>1, <2>2, Zenon
<1>11. /\ Sound(n, X, g \o <<X, Y, Z>>) /\ ~n.marked /\ n.weight = w
       /\ Kids(n) = {Len(h) + 2, Len(h) + 3}
  BY <1>10 DEF TopOK
<1>12. /\ Sound(z.left, Y, g) /\ ~z.left.marked /\ Sound(z.right, Z, g) /\ ~z.right.marked
  BY <1>9 DEF HalvesOK
<1>13. Takes(g, P, p, n, X)
  <2>1. X.lo = x.lo /\ X.hi = x.hi /\ X.ht = TopHeight(w, x.ht)
    BY DEF Bounded
  <2>2. P # 1 => TopHeight(w, x.ht) = x.ht
    BY <1>0 DEF TopHeight
  <2>3. P = 1 => n.weight
    BY <1>0, <1>11
  <2> QED BY <1>11, <2>1, <2>2, <2>3 DEF Takes, x
<1> HIDE DEF X, Y, Z
<1>14. Leads(h, R, P, ip, p, {p, l})
  BY <1>2, <1>3 DEF Leads
<1>15. KidsThree(h, {p, l}, n, z.left, z.right)
  <2> DEFINE A == Kids(z.left)
             B == Kids(z.right)
             F == Freed(h, {p, l})
             C == Kids(n)
             N == Len(h)
  <2>1. F \subseteq 2 .. N
    BY <1>3, FreedOld
  <2>2. A \cup B = F /\ A \cap B = {} /\ C = {N + 2, N + 3} /\ N \in Nat
    BY <1>1, <1>3, <1>4, <1>9, <1>11
  <2> HIDE DEF A, B, C, F, N
  <2>3. N + 2 \notin F /\ N + 3 \notin F
    BY <2>1, <2>2
  <2>4. C \cap A = {} /\ C \cap B = {} /\ C \cup A \cup B = F \cup {N + 2, N + 3}
    BY <2>2, <2>3
  <2> QED BY <2>2, <2>4 DEF KidsThree, A, B, C, F, N
<1>16. Fine(h, g, R)
  OBVIOUS
<1>17. Preserves(h, g, R, P, ip, {p, l}, <<n, z.left, z.right>>)
  BY ONLY <1>11, <1>12, <1>13, <1>14, <1>15, <1>16, ThreeFine
<1>18. {p, l} = {p} \cup {l}
  OBVIOUS
<1> QED BY <1>17, <1>18 DEF n, z, w, m

\* A leaf has no children that need another parent.
LEMMA LeafLeads ==
    ASSUME NEW h, NEW g, NEW R, Fine(h, g, R), NEW P, NEW ix, Place(h, P, ix), P \notin R,
           NEW c, c = h[P].ptrs[ix], h[c].leaf
    PROVE  /\ Leads(h, R, P, ix, c, {c}) /\ Freed(h, {c}) = {}
           /\ IsLeaf(h[c], g[c], g) /\ g \in Seq(Info) /\ Len(g) = Len(h) /\ Len(h) \in Nat
<1>1. c \in 2 .. Len(h) /\ c \notin R /\ c # P /\ Sound(h[c], g[c], g)
  BY LiveKid
<1>2. g \in Seq(Info) /\ Len(g) = Len(h) /\ Len(h) \in Nat
  BY HeapType DEF Fine, NodesOK
<1>3. Kids(h[c]) = {}
  BY DEF Kids
<1>4. Goes(h, R, P, c, {c})
  BY <1>1 DEF Goes
<1>5. Freed(h, {c}) = {}
  BY <1>3 DEF Freed
<1> QED BY <1>1, <1>2, <1>4, <1>5 DEF Leads, IsLeaf

\* One leaf for another, as ReplaceValue, InsertPair and Erase have it.
LEMMA LeafFine ==
    ASSUME NEW h, NEW g, NEW R, Fine(h, g, R), NEW P, NEW ix, Place(h, P, ix), P \notin R,
           NEW c, c = h[P].ptrs[ix], h[c].leaf, NEW n, IsLeaf(n, g[c], g), ~n.marked
    PROVE  Preserves(h, g, R, P, ix, {c}, <<n>>)
<1>1. Leads(h, R, P, ix, c, {c}) /\ Freed(h, {c}) = {}
  BY LeafLeads
<1>2. Sound(n, g[c], g) /\ n.leaf /\ n.weight
  BY LeafFields DEF IsLeaf
<1>3. KidsOne(h, {c}, n)
  BY <1>1, <1>2 DEF KidsOne, Kids
<1>4. Takes(g, P, c, n, g[c])
  BY <1>2 DEF Takes
<1>5. Fine(h, g, R)
  OBVIOUS
<1> QED BY ONLY <1>1, <1>2, <1>3, <1>4, <1>5, OneFine

\* A full leaf and one more pair: two leaves and their parent, as Overflow has it.
LEMMA OverflowFine ==
    ASSUME NEW h, NEW g, NEW R, Fine(h, g, R), NEW P, NEW ix, Place(h, P, ix), P \notin R,
           NEW c, c = h[P].ptrs[ix], h[c].leaf,
           NEW key \in Key, g[c].lo <= key, key < g[c].hi, ~HasKey(h[c], key), NEW v \in Value,
           Len(h[c].keys) = b
    PROVE  LET z == LeafHalves(h[c], key, v)
           IN  Preserves(h, g, R, P, ix, {c}, <<TopNode(P = 1, z, Len(h)), z.left, z.right>>)
<1> DEFINE r == h[c]
           x == g[c]
           K == InsertAt(r.keys, getKeyIndex(r, key), key)
           Q == InsertAt(r.ptrs, getKeyIndex(r, key), v)
           size == (DEGREE + 1) \div 2
           z == LeafHalves(r, key, v)
           w == P = 1
           n == TopNode(w, z, Len(h))
<1>1. Leads(h, R, P, ix, c, {c}) /\ Freed(h, {c}) = {} /\ IsLeaf(r, x, g)
      /\ g \in Seq(Info) /\ Len(g) = Len(h) /\ Len(h) \in Nat
  BY LeafLeads
<1>2. K \in Seq(Key) /\ Q \in Seq(Value \cup Nat) /\ LeafArray(b + 1, K, Q, x.lo, x.hi)
  <2>1. K \in Seq(Key) /\ Q \in Seq(Value \cup Nat) /\ LeafArray(Len(r.keys) + 1, K, Q, x.lo, x.hi)
    BY <1>1, InsertedArray
  <2> HIDE DEF K, Q, x
  <2> QED BY <2>1
<1>3. x.lo \in Int /\ x.hi \in Int /\ x.ht = 1
  BY <1>1, LeafFields
<1>4. size \in Nat /\ size >= 1 /\ size <= (b + 1) - 1 /\ size <= b /\ (b + 1) - size <= b
  BY ONLY DegreeAssumption DEF b
<1>5. z = Halves(TRUE, K, Q, size)
  BY DEF LeafHalves
<1>8. w \in BOOLEAN /\ (w <=> P = 1)
  OBVIOUS
<1>9. n = MakeNode(FALSE, w, z.separator, <<z.separator>>, <<Len(h) + 2, Len(h) + 3>>)
  BY DEF TopNode
<1> HIDE DEF x, K, Q, size, z, w, n
<1>6. HalvesOK(z, x.lo, x.hi, 1, g) /\ Kids(z.left) = {} /\ Kids(z.right) = {}
  <2>1. HalvesOK(Halves(TRUE, K, Q, size), x.lo, x.hi, 1, g)
        /\ Kids(Halves(TRUE, K, Q, size).left) = {} /\ Kids(Halves(TRUE, K, Q, size).right) = {}
    BY ONLY <1>2, <1>4, HalvesLeaf
  <2> QED BY ONLY <1>5, <2>1
<1> DEFINE X == Bounded(x.lo, x.hi, TopHeight(w, x.ht))
           Y == Bounded(x.lo, z.separator, x.ht)
           Z == Bounded(z.separator, x.hi, x.ht)
<1>7. HalvesOK(z, x.lo, x.hi, x.ht, g) /\ x.ht \in Int /\ x.ht >= 1
  BY ONLY <1>3, <1>6
<1>10. TopOK(n, w, X, g \o <<X, Y, Z>>, Len(h))
  <2>1. w \in BOOLEAN /\ g \in Seq(Info)
    BY <1>1, <1>8
  <2>2. n = MakeNode(FALSE, w, z.separator, <<z.separator>>, <<Len(h) + 2, Len(h) + 3>>)
    BY <1>9
  <2>3. Len(g) = Len(h)
    BY <1>1
  <2> HIDE DEF X, Y, Z
  <2>4. TopOK(MakeNode(FALSE, w, z.separator, <<z.separator>>, <<Len(g) + 2, Len(g) + 3>>),
              w, X, g \o <<X, Y, Z>>, Len(g))
    BY ONLY <1>3, <1>7, <2>1, NewTop DEF X, Y, Z
  <2> QED BY ONLY <2>2, <2>3, <2>4, Zenon
<1>11. /\ Sound(n, X, g \o <<X, Y, Z>>) /\ ~n.marked /\ n.weight = w
       /\ Kids(n) = {Len(h) + 2, Len(h) + 3}
  BY <1>10 DEF TopOK
<1>12. /\ Sound(z.left, Y, g) /\ ~z.left.marked /\ Sound(z.right, Z, g) /\ ~z.right.marked
  BY <1>7 DEF HalvesOK
<1>13. Takes(g, P, c, n, X)
  <2>1. X.lo = x.lo /\ X.hi = x.hi /\ X.ht = TopHeight(w, x.ht)
    BY DEF Bounded
  <2>2. P # 1 => TopHeight(w, x.ht) = x.ht
    BY <1>3, <1>8 DEF TopHeight
  <2>3. P = 1 => n.weight
    BY <1>8, <1>11
  <2> QED BY <1>11, <2>1, <2>2, <2>3 DEF Takes, x
<1> HIDE DEF X, Y, Z
<1>15. KidsThree(h, {c}, n, z.left, z.right)
  BY ONLY <1>1, <1>6, <1>11 DEF KidsThree
<1>16. Fine(h, g, R)
  OBVIOUS
<1>17. Preserves(h, g, R, P, ix, {c}, <<n, z.left, z.right>>)
  BY ONLY <1>1, <1>11, <1>12, <1>13, <1>15, <1>16, ThreeFine
<1> QED BY <1>17 DEF n, z, w, r

\* The parent of two neighbours that have been replaced by m + 1 nodes.
LEMMA NewParent ==
    ASSUME NEW g, NEW r, NEW x, Sound(r, x, g), ~r.leaf, r.weight, NEW i \in 1 .. Len(r.keys),
           NEW g2, Ext(g, g2), NEW m \in Nat, m <= 1, NEW K2, NEW Q2,
           InnerArray(m, K2, Q2, Low(r.keys, x.lo, i), High(Len(r.keys), r.keys, x.hi, i + 1), x.ht - 1, g2),
           NEW K3 \in Seq(Key), NEW Q3 \in Seq(Value \cup Nat),
           IsSplice(K3, r.keys, Len(r.keys), K2, m, i, i),
           IsSplice(Q3, r.ptrs, Len(r.keys) + 1, Q2, m + 1, i, i + 1)
    PROVE  ParentOK(MakeNode(FALSE, TRUE, r.searchKey, K3, Q3), x, g2,
                    (Kids(r) \ {r.ptrs[i], r.ptrs[i + 1]}) \cup Elems(Q2))
<1> DEFINE n == Len(r.keys)
           d == x.ht - 1
           q == MakeNode(FALSE, TRUE, r.searchKey, K3, Q3)
<1>1. /\ InnerArray(n, r.keys, r.ptrs, x.lo, x.hi, d, g)
      /\ n \in Nat /\ Len(r.ptrs) = n + 1 /\ Len(r.ptrs) <= b
  <2>1. W(r) = 1
    BY DEF W
  <2>2. InnerArray(n, r.keys, r.ptrs, x.lo, x.hi, d, g) /\ n \in Nat /\ Len(r.ptrs) = n + 1
    BY <2>1, SoundInner
  <2> QED BY <2>2 DEF Sound
<1>2. /\ r.searchKey \in Key /\ x \in Info /\ x.lo <= r.searchKey /\ r.searchKey < x.hi
      /\ x.ht - (IF TRUE THEN 1 ELSE 0) = d
  BY NodeFields DEF Sound
<1>3. Kids(r) = Elems(r.ptrs)
  BY DEF Kids
<1>4. i \in 1 .. n + 1 /\ i + 1 \in i .. n + 1 /\ (i + 1) - 1 = i /\ i + 1 \in i - 1 .. n + 1
      /\ i \in 1 .. (n + 1) + 1 /\ i + 1 \in 1 .. n + 1
  BY <1>1
<1> HIDE DEF n, d
<1>5. InnerArray(n, r.keys, r.ptrs, x.lo, x.hi, d, g2)
  BY <1>1, InnerExtend
<1>6. InnerArray(n + m + i - (i + 1), K3, Q3, x.lo, x.hi, d, g2)
  <2>1. InnerArray(m, K2, Q2, Low(r.keys, x.lo, i), High(n, r.keys, x.hi, i + 1), d, g2)
    BY DEF n, d
  <2>2. IsSplice(K3, r.keys, n, K2, m, i, (i + 1) - 1) /\ IsSplice(Q3, r.ptrs, n + 1, Q2, m + 1, i, i + 1)
    BY <1>4 DEF n
  <2> QED BY <1>4, <1>5, <2>1, <2>2, SpliceInner
<1>7. n + m + i - (i + 1) = n + m - 1 /\ (n + m - 1) + 1 <= b
  <2>1. b \in Nat
    BY DegreeAssumption DEF b
  <2> HIDE DEF b
  <2> QED BY <1>1, <1>4, <2>1
<1>8. Sound(q, x, g2)
  <2>1. InnerArray(n + m - 1, K3, Q3, x.lo, x.hi, x.ht - (IF TRUE THEN 1 ELSE 0), g2)
    BY <1>2, <1>6, <1>7
  <2> QED BY <1>2, <1>7, <2>1, NewInner
<1>9. ~q.marked /\ q.weight /\ Kids(q) = Elems(Q3)
  BY DEF MakeNode, Kids
<1>10. Elems(Q3) = (Elems(r.ptrs) \ {r.ptrs[i], r.ptrs[i + 1]}) \cup Elems(Q2)
  <2> DEFINE I == {j \in 1 .. n + 1 : j < i \/ j > i + 1}
  <2>1. /\ Elems(Q3) \subseteq Elems(Q2) \cup {r.ptrs[j] : j \in I}
        /\ Elems(Q2) \subseteq Elems(Q3)
        /\ \A j \in 1 .. n + 1 : j < i \/ j > i + 1 => r.ptrs[j] \in Elems(Q3)
    <3>1. n + 1 \in Nat /\ m + 1 \in Nat /\ Len(Q2) = m + 1
      BY <1>1 DEF InnerArray
    <3>2. IsSplice(Q3, r.ptrs, n + 1, Q2, m + 1, i, i + 1)
      BY DEF n
    <3> QED BY <1>1, <1>4, <3>1, <3>2, SpliceElems
  <2>2. \A j \in 1 .. n + 1 : (j < i \/ j > i + 1) <=> r.ptrs[j] # r.ptrs[i] /\ r.ptrs[j] # r.ptrs[i + 1]
    <3>1. \A j \in 1 .. n + 1 : j # i => r.ptrs[j] # r.ptrs[i]
      BY <1>4, KidsDiffer DEF n
    <3>2. \A j \in 1 .. n + 1 : j # i + 1 => r.ptrs[j] # r.ptrs[i + 1]
      BY <1>4, KidsDiffer DEF n
    <3>3. \A j \in 1 .. n + 1 : (j < i \/ j > i + 1) <=> j # i /\ j # i + 1
      BY <1>1, <1>4
    <3> QED BY <3>1, <3>2, <3>3
  <2>3. Elems(r.ptrs) = {r.ptrs[j] : j \in 1 .. n + 1}
    BY <1>1 DEF Elems
  <2>4. Elems(Q3) \subseteq (Elems(r.ptrs) \ {r.ptrs[i], r.ptrs[i + 1]}) \cup Elems(Q2)
    BY <2>1, <2>2, <2>3
  <2>5. Elems(r.ptrs) \ {r.ptrs[i], r.ptrs[i + 1]} \subseteq Elems(Q3)
    BY <2>1, <2>2, <2>3
  <2> QED BY <2>1, <2>4, <2>5
<1> HIDE DEF q
<1>11. ParentOK(q, x, g2, (Kids(r) \ {r.ptrs[i], r.ptrs[i + 1]}) \cup Elems(Q2))
  BY <1>3, <1>8, <1>9, <1>10 DEF ParentOK
<1> QED BY <1>11 DEF q

\* l and s, of weight 1 like p, are the children i and i + 1 of p, in some order.
Pair(h, R, P, ip, p, il, l, is, s, i) ==
    /\ Spot(h, R, P, ip, p, il, l) /\ Spot(h, R, P, ip, p, is, s)
    /\ i \in 1 .. Len(h[p].keys) /\ ((il = i /\ is = i + 1) \/ (il = i + 1 /\ is = i))
    /\ h[p].weight /\ h[l].weight /\ h[s].weight

\* The bounds of the two.
PairLo(h, g, p, i) == Low(h[p].keys, g[p].lo, i)
PairHi(h, g, p, i) == High(Len(h[p].keys), h[p].keys, g[p].hi, i + 1)

\* m is what they hold together.
PairOK(h, g, R, P, ip, p, l, s, i, m) ==
    /\ Leads(h, R, P, ip, p, {p} \cup {l, s})
    /\ Freed(h, {p} \cup {l, s}) = (Kids(h[p]) \ {l, s}) \cup (Kids(h[l]) \cup Kids(h[s]))
    /\ Kids(h[p]) \cap (Kids(h[l]) \cup Kids(h[s])) = {}
    /\ {h[p].ptrs[i], h[p].ptrs[i + 1]} = {l, s}
    /\ Content(m.leaf, m.keys, m.ptrs, PairLo(h, g, p, i), PairHi(h, g, p, i), g[p].ht - 1, g)
    /\ Len(m.ptrs) \in Nat /\ Len(m.ptrs) <= 2 * b
    /\ (IF m.leaf THEN {} ELSE Elems(m.ptrs)) = Kids(h[l]) \cup Kids(h[s])
    /\ h[l].searchKey \in Key
    /\ PairLo(h, g, p, i) <= h[l].searchKey /\ h[l].searchKey < PairHi(h, g, p, i)

LEMMA PairNodes ==
    ASSUME NEW h, NEW g, NEW R, Fine(h, g, R), NEW P, NEW ip, NEW p, NEW il, NEW l, NEW is, NEW s, NEW i,
           Pair(h, R, P, ip, p, il, l, is, s, i)
    PROVE  PairOK(h, g, R, P, ip, p, l, s, i,
                  JoinOf(h[p], i, h[h[p].ptrs[i]], h[h[p].ptrs[i + 1]]))
<1> DEFINE r == h[p]
           x == g[p]
           n == Len(r.keys)
           c1 == r.ptrs[i]
           c2 == r.ptrs[i + 1]
           m == JoinOf(r, i, h[c1], h[c2])
           lo == Low(r.keys, x.lo, i)
           hi == High(n, r.keys, x.hi, i + 1)
<1>1. Spot(h, R, P, ip, p, il, l) /\ Spot(h, R, P, ip, p, is, s) /\ i \in 1 .. n
      /\ ((il = i /\ is = i + 1) \/ (il = i + 1 /\ is = i)) /\ r.weight /\ h[l].weight /\ h[s].weight
  BY DEF Pair
<1>2. Place(h, P, ip) /\ p = h[P].ptrs[ip] /\ l = r.ptrs[il] /\ s = r.ptrs[is]
  BY <1>1 DEF Spot
<1>3. SpotOK(h, g, R, P, p, l) /\ SpotOK(h, g, R, P, p, s)
  BY <1>1, SpotNodes
<1>4. Sound(r, x, g) /\ ~r.leaf /\ Sound(h[l], g[l], g) /\ Sound(h[s], g[s], g)
  BY <1>3 DEF SpotOK
<1>5. (l = c1 /\ s = c2) \/ (l = c2 /\ s = c1)
  BY <1>1, <1>2
<1>6. n \in Nat /\ i \in 1 .. n + 1 /\ i + 1 \in 1 .. n + 1 /\ i # i + 1 /\ i # n + 1 /\ i + 1 # 1 /\ (i + 1) - 1 = i
  <2>1. n \in Nat
    BY <1>4, SoundInner
  <2> QED BY <1>1, <2>1
<1>7. c1 # c2
  <2>1. \A j \in 1 .. n + 1 : j # i => r.ptrs[j] # r.ptrs[i]
    BY <1>4, <1>6, Kid
  <2> QED BY <1>6, <2>1
<1>8. l # s
  BY <1>5, <1>7
<1>9. /\ Goes(h, R, P, p, {p} \cup {l, s})
      /\ Freed(h, {p} \cup {l, s}) = (Kids(h[p]) \ {l, s}) \cup Kids(h[l]) \cup Kids(h[s])
      /\ Kids(h[p]) \cap (Kids(h[l]) \cup Kids(h[s])) = {}
  <2>1. /\ Leaves(h, R, P, p, {p} \cup {l, s}, (Kids(h[p]) \ {l, s}) \cup Kids(h[l]) \cup Kids(h[s]))
        /\ Kids(h[p]) \cap (Kids(h[l]) \cup Kids(h[s])) = {}
    BY <1>1, <1>8, GoThree
  <2> QED BY <2>1 DEF Leaves
<1>10. Joins(m, r, x, i, h[c1], h[c2], g)
  <2>1. Sound(h[c1], g[c1], g) /\ Sound(h[c2], g[c2], g) /\ h[c1].weight /\ h[c2].weight
    BY <1>1, <1>4, <1>5
  <2> HIDE DEF m
  <2>2. Joins(JoinOf(r, i, h[c1], h[c2]), r, x, i, h[c1], h[c2], g)
    BY <1>1, <1>4, <2>1, JoinedNode
  <2> QED BY <2>2 DEF m
<1>11. W(r) = 1 /\ W(h[l]) = 1
  BY <1>1 DEF W
<1> HIDE DEF r, x, n, m, lo, hi, c1, c2
<1>12. /\ Content(m.leaf, m.keys, m.ptrs, lo, hi, x.ht - 1, g)
       /\ Len(m.ptrs) = Len(h[c1].ptrs) + Len(h[c2].ptrs)
       /\ (IF m.leaf THEN {} ELSE Elems(m.ptrs)) = Kids(h[c1]) \cup Kids(h[c2])
  BY <1>10, <1>11 DEF Joins, lo, hi, n
<1>13. (IF m.leaf THEN {} ELSE Elems(m.ptrs)) = Kids(h[l]) \cup Kids(h[s])
  BY <1>5, <1>12
<1>14. Len(m.ptrs) \in Nat /\ Len(m.ptrs) <= 2 * b
  <2>1. /\ Len(h[l].ptrs) \in Nat /\ Len(h[s].ptrs) \in Nat
        /\ Len(h[l].ptrs) <= b /\ Len(h[s].ptrs) <= b /\ b \in Nat
    BY <1>4, NodeFields, DegreeAssumption DEF Sound, b
  <2> DEFINE u == Len(h[l].ptrs)
             v == Len(h[s].ptrs)
             L == Len(m.ptrs)
  <2>2. L = u + v \/ L = v + u
    BY <1>5, <1>12
  <2>3. u \in Nat /\ v \in Nat /\ u <= b /\ v <= b /\ b \in Nat
    BY <2>1
  <2> HIDE DEF u, v, L, b
  <2>4. L \in Nat /\ L <= 2 * b
    BY ONLY <2>2, <2>3
  <2> QED BY <2>4 DEF L
<1>15. h[l].searchKey \in Key /\ lo <= h[l].searchKey /\ h[l].searchKey < hi
  <2>1. /\ h[l].searchKey \in Key /\ h[l].searchKey \in Int
        /\ g[l].lo <= h[l].searchKey /\ h[l].searchKey < g[l].hi
    BY <1>4, NodeFields DEF Sound
  <2>2. /\ g[c1].lo = lo /\ g[c1].hi = High(n, r.keys, x.hi, i) /\ g[c1].lo \in Int /\ g[c1].hi \in Int
        /\ g[c1].lo < g[c1].hi
    BY <1>4, <1>6, Kid DEF c1, lo, n
  <2>3. /\ g[c2].lo = Low(r.keys, x.lo, i + 1) /\ g[c2].hi = hi /\ g[c2].lo \in Int /\ g[c2].hi \in Int
        /\ g[c2].lo < g[c2].hi
    BY <1>4, <1>6, Kid DEF c2, hi, n
  <2>4. g[c1].hi = r.keys[i] /\ g[c2].lo = r.keys[i]
    BY <1>6, <2>2, <2>3 DEF Low, High
  <2>5. CASE l = c1
    BY <2>1, <2>2, <2>3, <2>4, <2>5
  <2>6. CASE l = c2
    BY <2>1, <2>2, <2>3, <2>4, <2>6
  <2> QED BY <1>5, <2>5, <2>6
<1>16. {c1, c2} = {l, s}
  BY <1>5
<1>17. Leads(h, R, P, ip, p, {p} \cup {l, s})
  BY <1>2, <1>9 DEF Leads
<1>18. Freed(h, {p} \cup {l, s}) = (Kids(h[p]) \ {l, s}) \cup (Kids(h[l]) \cup Kids(h[s]))
  BY <1>9
<1>19. PairLo(h, g, p, i) = lo /\ PairHi(h, g, p, i) = hi
  BY DEF PairLo, PairHi, lo, hi, r, x, n
<1>20. PairOK(h, g, R, P, ip, p, l, s, i, m)
  <2>1. Kids(h[p]) \cap (Kids(h[l]) \cup Kids(h[s])) = {}
    BY <1>9
  <2>2. {h[p].ptrs[i], h[p].ptrs[i + 1]} = {l, s}
    BY <1>16 DEF c1, c2, r
  <2>3. Content(m.leaf, m.keys, m.ptrs, PairLo(h, g, p, i), PairHi(h, g, p, i), g[p].ht - 1, g)
    BY <1>12, <1>19 DEF x
  <2>4. PairLo(h, g, p, i) <= h[l].searchKey /\ h[l].searchKey < PairHi(h, g, p, i) /\ h[l].searchKey \in Key
    BY <1>15, <1>19
  <2> QED BY ONLY <1>13, <1>14, <1>17, <1>18, <2>1, <2>2, <2>3, <2>4 DEF PairOK
<1> QED BY <1>20 DEF m, r, c1, c2

LEMMA Sizes ==
    /\ a \in Nat /\ b \in Nat /\ a >= 2 /\ b >= 3
    /\ \A n \in Nat : n < 2 * a => n <= b
    /\ \A n \in Nat : n >= 2 * a => n >= 4
BY DegreeAssumption DEF a, b

\* The root's only two children become the root, as in AbsorbSibling.
LEMMA RootAbsorbFine ==
    ASSUME NEW h, NEW g, NEW R, Fine(h, g, R), NEW ip, NEW p, NEW l, NEW s, NEW i \in 1 .. Len(h[p].keys),
           NEW m, PairOK(h, g, R, 1, ip, p, l, s, i, m), Len(h[p].ptrs) = 2, Len(m.ptrs) < 2 * a,
           ~h[p].leaf
    PROVE  Preserves(h, g, R, 1, ip, {p} \cup {l, s}, <<JointNode(m, h[l].searchKey)>>)
<1> DEFINE n == JointNode(m, h[l].searchKey)
<1>0. n = MakeNode(m.leaf, TRUE, h[l].searchKey, m.keys, m.ptrs)
  BY DEF JointNode
<1> HIDE DEF n
<1> DEFINE lo == PairLo(h, g, p, i)
           hi == PairHi(h, g, p, i)
           X == Bounded(lo, hi, g[p].ht - 1)
           D == {p} \cup {l, s}
<1>1. /\ Leads(h, R, 1, ip, p, D)
      /\ Freed(h, D) = (Kids(h[p]) \ {l, s}) \cup (Kids(h[l]) \cup Kids(h[s]))
      /\ {h[p].ptrs[i], h[p].ptrs[i + 1]} = {l, s}
      /\ Content(m.leaf, m.keys, m.ptrs, lo, hi, g[p].ht - 1, g)
      /\ Len(m.ptrs) \in Nat
      /\ (IF m.leaf THEN {} ELSE Elems(m.ptrs)) = Kids(h[l]) \cup Kids(h[s])
      /\ h[l].searchKey \in Key /\ lo <= h[l].searchKey /\ h[l].searchKey < hi
  BY DEF PairOK
<1> HIDE DEF D
<1>2. Sound(h[p], g[p], g)
  <2>1. p \in 2 .. Len(h)
    BY <1>1 DEF Leads, Goes
  <2> QED BY <2>1, HeapType DEF Fine
<1>3. i = 1 /\ i + 1 = 2 /\ Len(h[p].keys) = 1
  <2> DEFINE u == Len(h[p].keys)
  <2>1. u \in Nat /\ 2 = u + 1 /\ i \in 1 .. u
    BY <1>2, SoundInner
  <2> HIDE DEF u
  <2>2. u = 1 /\ i = 1
    BY ONLY <2>1
  <2> QED BY <2>2 DEF u
<1>4. lo = g[p].lo /\ hi = g[p].hi
  BY <1>3 DEF PairLo, PairHi, Low, High
<1>5. Kids(h[p]) = {l, s}
  <2>1. Kids(h[p]) = {h[p].ptrs[j] : j \in 1 .. Len(h[p].ptrs)}
    BY DEF Kids, Elems
  <2>2. \A j : j \in 1 .. Len(h[p].ptrs) <=> j = i \/ j = i + 1
    BY <1>3
  <2>3. Kids(h[p]) = {h[p].ptrs[i], h[p].ptrs[i + 1]}
    BY ONLY <2>1, <2>2
  <2> QED BY ONLY <1>1, <2>3
<1> HIDE DEF lo, hi, X
<1>6. /\ Sound(n, X, g) /\ ~n.marked /\ n.weight
      /\ Kids(n) = IF m.leaf THEN {} ELSE Elems(m.ptrs)
  <2>1. Len(m.ptrs) <= b
    BY <1>1, Sizes
  <2>2. ParentOK(n, X, g, IF m.leaf THEN {} ELSE Elems(m.ptrs))
    <3>1. n = MakeNode(m.leaf, TRUE, h[l].searchKey, m.keys, m.ptrs)
      BY <1>0
    <3> QED BY ONLY <1>1, <2>1, <3>1, OneNode DEF X
  <2> QED BY ONLY <2>2 DEF ParentOK
<1>7. KidsOne(h, D, n)
  BY <1>1, <1>5, <1>6 DEF KidsOne
<1>8. Takes(g, 1, p, n, X)
  <2>1. X.lo = lo /\ X.hi = hi
    BY DEF X, Bounded
  <2> QED BY <1>4, <1>6, <2>1 DEF Takes
<1>9. Fine(h, g, R)
  OBVIOUS
<1>10. Preserves(h, g, R, 1, ip, D, <<n>>)
  BY ONLY <1>1, <1>6, <1>7, <1>8, <1>9, OneFine
<1> QED BY <1>10 DEF D, n

\* p with one child in the place of the two, as in AbsorbSibling.
LEMMA SiblingFine ==
    ASSUME NEW h, NEW g, NEW R, Fine(h, g, R), NEW P, NEW ip, NEW p, NEW l, NEW s,
           NEW i \in 1 .. Len(h[p].keys), NEW m, PairOK(h, g, R, P, ip, p, l, s, i, m),
           ~h[p].leaf, h[p].weight, Len(m.ptrs) < 2 * a, NEW is, is = i \/ is = i + 1
    PROVE  Preserves(h, g, R, P, ip, {p} \cup {l, s},
                     <<LessParent(h[p], i, is, Len(h)), JointNode(m, h[l].searchKey)>>)
<1> DEFINE n2 == JointNode(m, h[l].searchKey)
           n == LessParent(h[p], i, is, Len(h))
<1>0. /\ n2 = MakeNode(m.leaf, TRUE, h[l].searchKey, m.keys, m.ptrs)
      /\ n = MakeNode(FALSE, TRUE, h[p].searchKey, RemoveAt(h[p].keys, i),
                      ReplaceAt(RemoveAt(h[p].ptrs, is), i, Len(h) + 2))
  BY DEF JointNode, LessParent
<1> HIDE DEF n, n2
<1> DEFINE lo == PairLo(h, g, p, i)
           hi == PairHi(h, g, p, i)
           ht == g[p].ht - 1
           X == g[p]
           Y == Bounded(lo, hi, ht)
           D == {p} \cup {l, s}
           N == Len(h)
           r == h[p]
           K == RemoveAt(r.keys, i)
           Q == ReplaceAt(RemoveAt(r.ptrs, is), i, N + 2)
           ng == <<X, Y>>
           g2 == g \o ng
           e == <<N + 2>>
<1>1. /\ Leads(h, R, P, ip, p, D)
      /\ Freed(h, D) = (Kids(h[p]) \ {l, s}) \cup (Kids(h[l]) \cup Kids(h[s]))
      /\ Kids(h[p]) \cap (Kids(h[l]) \cup Kids(h[s])) = {}
      /\ {h[p].ptrs[i], h[p].ptrs[i + 1]} = {l, s}
      /\ Content(m.leaf, m.keys, m.ptrs, lo, hi, ht, g)
      /\ Len(m.ptrs) \in Nat
      /\ (IF m.leaf THEN {} ELSE Elems(m.ptrs)) = Kids(h[l]) \cup Kids(h[s])
      /\ h[l].searchKey \in Key /\ lo <= h[l].searchKey /\ h[l].searchKey < hi
  BY DEF PairOK
<1> HIDE DEF D
<1>2. /\ p \in 2 .. N /\ N \in Nat /\ Sound(r, X, g) /\ g \in Seq(Info) /\ Len(g) = N
      /\ Freed(h, D) \subseteq 2 .. N /\ \A y \in Kids(r) : y \in 2 .. N
  <2>1. p \in 2 .. Len(h) /\ Goes(h, R, P, p, D)
    BY <1>1 DEF Leads, Goes
  <2>2. NodesOK(h, g)
    BY DEF Fine
  <2>3. \A y \in Kids(r) : y \in 2 .. N
    BY <2>1, <2>2, KidOf
  <2> QED BY <2>1, <2>2, <2>3, HeapType, FreedOld DEF NodesOK
<1>3. /\ Sound(n2, Y, g) /\ ~n2.marked /\ Kids(n2) = Kids(h[l]) \cup Kids(h[s])
  <2>1. Len(m.ptrs) <= b
    BY <1>1, Sizes
  <2> HIDE DEF lo, hi, ht
  <2>2. ParentOK(n2, Y, g, IF m.leaf THEN {} ELSE Elems(m.ptrs))
    <3>1. n2 = MakeNode(m.leaf, TRUE, h[l].searchKey, m.keys, m.ptrs)
      BY <1>0
    <3> QED BY ONLY <1>1, <2>1, <3>1, OneNode
  <2> QED BY ONLY <1>1, <2>2 DEF ParentOK
<1>4. X \in Info /\ Y \in Info /\ Y.lo = lo /\ Y.hi = hi /\ Y.ht = ht /\ lo \in Int /\ hi \in Int /\ lo < hi
      /\ ht \in Int /\ ht >= 1
  <2>1. Y \in Info /\ Y.lo = lo /\ Y.hi = hi /\ Y.ht = ht
    BY <1>3 DEF Sound, Bounded
  <2>2. Y.lo \in Int /\ Y.hi \in Int /\ Y.ht \in Int /\ Y.lo < Y.hi /\ Y.ht >= 1
    BY <1>3, RankType
  <2>3. X \in Info
    BY <1>2 DEF Sound
  <2> QED BY <2>1, <2>2, <2>3
<1>5. /\ r.keys \in Seq(Key) /\ r.ptrs \in Seq(Value \cup Nat) /\ Len(r.keys) \in Nat
      /\ Len(r.ptrs) = Len(r.keys) + 1
  BY <1>2, NodeFields, SoundInner DEF Sound
<1>6. K \in Seq(Key) /\ IsSplice(K, r.keys, Len(r.keys), <<>>, 0, i, i)
  BY <1>5, RemoveIsSplice
<1>7. Q \in Seq(Value \cup Nat) /\ IsSplice(Q, r.ptrs, Len(r.keys) + 1, e, 1, i, i + 1)
  <2>1. i \in 1 .. Len(r.ptrs) /\ i + 1 \in 1 .. Len(r.ptrs) /\ N + 2 \in Value \cup Nat
    BY <1>2, <1>5
  <2>2. Q \in Seq(Value \cup Nat) /\ IsSplice(Q, r.ptrs, Len(r.ptrs), e, 1, i, i + 1)
    BY <1>5, <2>1, OneForTwo
  <2> QED BY <1>5, <2>2
<1> HIDE DEF lo, hi, ht, X, Y, N, r, K, Q
<1>8. ng \in Seq(Info) /\ Len(ng) = 2 /\ ng[2] = Y
  BY <1>4
<1> HIDE DEF ng
<1>9. Ext(g, g2) /\ Fits(g2, N + 2, lo, hi, ht)
  <2>1. Ext(g, g2) /\ \A j \in 2 .. Len(ng) : Fits(g2, Len(g) + j, ng[j].lo, ng[j].hi, ng[j].ht)
    BY <1>2, <1>8, Extends
  <2>2. 2 \in 2 .. Len(ng)
    BY <1>8
  <2> QED BY <1>2, <1>4, <1>8, <2>1, <2>2
<1> HIDE DEF g2
<1>10. InnerArray(0, <<>>, e, lo, hi, ht, g2)
  BY <1>4, <1>9, OneKid
<1>11. Elems(e) = {N + 2}
  BY DEF Elems
<1> HIDE DEF e
<1>12. ParentOK(n, X, g2, (Kids(r) \ {r.ptrs[i], r.ptrs[i + 1]}) \cup Elems(e))
  <2>1. n = MakeNode(FALSE, TRUE, r.searchKey, K, Q)
    BY <1>0 DEF r, K, Q, N
  <2>2. InnerArray(0, <<>>, e, Low(r.keys, X.lo, i), High(Len(r.keys), r.keys, X.hi, i + 1), X.ht - 1, g2)
    BY <1>10 DEF lo, hi, ht, PairLo, PairHi, r, X
  <2>3. 0 \in Nat /\ 0 <= 1 /\ i \in 1 .. Len(r.keys) /\ ~r.leaf /\ r.weight
    BY DEF r
  <2>4. IsSplice(Q, r.ptrs, Len(r.keys) + 1, e, 0 + 1, i, i + 1)
    BY <1>7
  <2>5. ParentOK(MakeNode(FALSE, TRUE, r.searchKey, K, Q), X, g2,
                 (Kids(r) \ {r.ptrs[i], r.ptrs[i + 1]}) \cup Elems(e))
    BY ONLY <1>2, <1>6, <1>7, <1>9, <2>2, <2>3, <2>4, NewParent
  <2> QED BY ONLY <2>1, <2>5
<1>13. Sound(n, X, g2) /\ ~n.marked /\ n.weight /\ Kids(n) = (Kids(r) \ {l, s}) \cup {N + 2}
  BY <1>1, <1>11, <1>12 DEF ParentOK, r
<1>14. Takes(g, P, p, n, X)
  BY <1>13 DEF Takes, X
<1>15. KidsTwo(h, D, n, n2)
  <2> DEFINE A == Kids(h[l]) \cup Kids(h[s])
             B == Kids(r) \ {l, s}
  <2>1. /\ Kids(n2) = A /\ Kids(n) = B \cup {N + 2} /\ Freed(h, D) = B \cup A /\ A \cap B = {}
    BY <1>1, <1>3, <1>13 DEF r
  <2>2. N + 2 \notin A
    <3>1. A \subseteq 2 .. N
      BY <1>2, <2>1
    <3>2. N + 2 \notin 2 .. N
      BY <1>2
    <3> QED BY <3>1, <3>2
  <2> HIDE DEF A, B
  <2> QED BY <2>1, <2>2 DEF KidsTwo, N
<1>16. Fine(h, g, R)
  OBVIOUS
<1>17. Sound(n, X, g \o <<X, Y>>)
  BY <1>13 DEF g2, ng
<1>18. Preserves(h, g, R, P, ip, D, <<n, n2>>)
  BY ONLY <1>1, <1>3, <1>14, <1>15, <1>16, <1>17, TwoFine
<1> QED BY <1>18 DEF D, n, n2

\* p with two new children in the place of the two, as Distribute has it.
LEMMA DistributeFine ==
    ASSUME NEW h, NEW g, NEW R, Fine(h, g, R), NEW P, NEW ip, NEW p, NEW l, NEW s,
           NEW i \in 1 .. Len(h[p].keys), NEW m, PairOK(h, g, R, P, ip, p, l, s, i, m),
           ~h[p].leaf, h[p].weight, Len(m.ptrs) >= 2 * a
    PROVE  LET z == PartHalves(m.leaf, m)
           IN  Preserves(h, g, R, P, ip, {p} \cup {l, s},
                         <<SameParent(h[p], i, z, Len(h)), z.left, z.right>>)
<1> DEFINE z == PartHalves(m.leaf, m)
           n == SameParent(h[p], i, z, Len(h))
<1>0. /\ z = Halves(m.leaf, m.keys, m.ptrs, Len(m.ptrs) \div 2)
      /\ n = MakeNode(FALSE, TRUE, h[p].searchKey, ReplaceAt(h[p].keys, i, z.separator),
                      ReplaceAt(ReplaceAt(h[p].ptrs, i, Len(h) + 2), i + 1, Len(h) + 3))
  BY DEF PartHalves, SameParent
<1> HIDE DEF z, n
<1> DEFINE lo == PairLo(h, g, p, i)
           hi == PairHi(h, g, p, i)
           ht == g[p].ht - 1
           sep == z.separator
           X == g[p]
           Y == Bounded(lo, sep, ht)
           Z == Bounded(sep, hi, ht)
           D == {p} \cup {l, s}
           N == Len(h)
           r == h[p]
           K == ReplaceAt(r.keys, i, sep)
           Q == ReplaceAt(ReplaceAt(r.ptrs, i, N + 2), i + 1, N + 3)
           ng == <<X, Y, Z>>
           g2 == g \o ng
           e == <<N + 2, N + 3>>
<1>1. /\ Leads(h, R, P, ip, p, D)
      /\ Freed(h, D) = (Kids(h[p]) \ {l, s}) \cup (Kids(h[l]) \cup Kids(h[s]))
      /\ Kids(h[p]) \cap (Kids(h[l]) \cup Kids(h[s])) = {}
      /\ {h[p].ptrs[i], h[p].ptrs[i + 1]} = {l, s}
      /\ Content(m.leaf, m.keys, m.ptrs, lo, hi, ht, g)
      /\ Len(m.ptrs) \in Nat /\ Len(m.ptrs) <= 2 * b
      /\ (IF m.leaf THEN {} ELSE Elems(m.ptrs)) = Kids(h[l]) \cup Kids(h[s])
  BY DEF PairOK
<1> HIDE DEF D
<1>2. /\ p \in 2 .. N /\ N \in Nat /\ Sound(r, X, g) /\ g \in Seq(Info) /\ Len(g) = N
      /\ Freed(h, D) \subseteq 2 .. N /\ \A y \in Kids(r) : y \in 2 .. N
  <2>1. p \in 2 .. Len(h) /\ Goes(h, R, P, p, D)
    BY <1>1 DEF Leads, Goes
  <2>2. NodesOK(h, g)
    BY DEF Fine
  <2>3. \A y \in Kids(r) : y \in 2 .. N
    BY <2>1, <2>2, KidOf
  <2> QED BY <2>1, <2>2, <2>3, HeapType, FreedOld DEF NodesOK
<1> HIDE DEF lo, hi, ht
<1>3. /\ HalvesOK(z, lo, hi, ht, g)
      /\ Kids(z.left) \cup Kids(z.right) = Kids(h[l]) \cup Kids(h[s])
      /\ Kids(z.left) \cap Kids(z.right) = {}
  <2>1. Len(m.ptrs) >= 4
    BY <1>1, Sizes
  <2>2. z = Halves(m.leaf, m.keys, m.ptrs, Len(m.ptrs) \div 2)
    BY <1>0
  <2>3. /\ HalvesOK(z, lo, hi, ht, g)
        /\ Kids(z.left) \cup Kids(z.right) = IF m.leaf THEN {} ELSE Elems(m.ptrs)
        /\ Kids(z.left) \cap Kids(z.right) = {}
    BY ONLY <1>1, <2>1, <2>2, TwoNodes
  <2> QED BY ONLY <1>1, <2>3
<1>4. /\ sep \in Key /\ sep \in Int /\ lo < sep /\ sep < hi
      /\ Sound(z.left, Y, g) /\ ~z.left.marked /\ Sound(z.right, Z, g) /\ ~z.right.marked
  BY <1>3 DEF HalvesOK
<1>5. /\ X \in Info /\ Y \in Info /\ Z \in Info /\ Y.lo = lo /\ Y.hi = sep /\ Y.ht = ht
      /\ Z.lo = sep /\ Z.hi = hi /\ Z.ht = ht /\ lo \in Int /\ hi \in Int /\ ht \in Int /\ ht >= 1
  <2>1. /\ Y \in Info /\ Y.lo = lo /\ Y.hi = sep /\ Y.ht = ht
        /\ Z \in Info /\ Z.lo = sep /\ Z.hi = hi /\ Z.ht = ht
    BY <1>4 DEF Sound, Bounded
  <2>2. Y.lo \in Int /\ Y.ht \in Int /\ Y.ht >= 1
    BY <1>4, RankType
  <2>3. Z.hi \in Int
    BY <1>4, RankType
  <2>4. X \in Info
    BY <1>2 DEF Sound
  <2> QED BY <2>1, <2>2, <2>3, <2>4
<1>6. /\ r.keys \in Seq(Key) /\ r.ptrs \in Seq(Value \cup Nat) /\ Len(r.keys) \in Nat
      /\ Len(r.ptrs) = Len(r.keys) + 1
  BY <1>2, NodeFields, SoundInner DEF Sound
<1> HIDE DEF sep
<1>7. K \in Seq(Key) /\ IsSplice(K, r.keys, Len(r.keys), <<sep>>, 1, i, i)
  <2>1. r.keys \in Seq(Key) /\ sep \in Key /\ i \in 1 .. Len(r.keys)
    BY <1>4, <1>6
  <2> QED BY ONLY <2>1, ReplaceIsSplice
<1>8. Q \in Seq(Value \cup Nat) /\ IsSplice(Q, r.ptrs, Len(r.keys) + 1, e, 2, i, i + 1)
  <2>1. i \in 1 .. Len(r.ptrs) /\ i + 1 \in 1 .. Len(r.ptrs) /\ N + 2 \in Value \cup Nat /\ N + 3 \in Value \cup Nat
    BY <1>2, <1>6
  <2>2. Q \in Seq(Value \cup Nat) /\ IsSplice(Q, r.ptrs, Len(r.ptrs), e, 2, i, i + 1)
    BY <1>6, <2>1, TwoForTwo
  <2> QED BY <1>6, <2>2
<1> HIDE DEF X, Y, Z, N, r, K, Q
<1>9. ng \in Seq(Info) /\ Len(ng) = 3 /\ ng[2] = Y /\ ng[3] = Z
  BY <1>5
<1> HIDE DEF ng
<1>10. Ext(g, g2) /\ Fits(g2, N + 2, lo, sep, ht) /\ Fits(g2, N + 3, sep, hi, ht)
  <2>1. Ext(g, g2) /\ \A j \in 2 .. Len(ng) : Fits(g2, Len(g) + j, ng[j].lo, ng[j].hi, ng[j].ht)
    BY <1>2, <1>9, Extends
  <2>2. 2 \in 2 .. Len(ng) /\ 3 \in 2 .. Len(ng)
    BY <1>9
  <2> QED BY <1>2, <1>5, <1>9, <2>1, <2>2
<1> HIDE DEF g2
<1>11. InnerArray(1, <<sep>>, e, lo, hi, ht, g2)
  BY <1>4, <1>5, <1>10, TwoKids
<1>12. Elems(e) = {N + 2, N + 3}
  <2>1. Len(e) = 2 /\ e[1] = N + 2 /\ e[2] = N + 3
    OBVIOUS
  <2> HIDE DEF e
  <2>2. \A j : j \in 1 .. Len(e) <=> j = 1 \/ j = 2
    BY <2>1
  <2> QED BY <2>1, <2>2 DEF Elems
<1> HIDE DEF e
<1>13. ParentOK(n, X, g2, (Kids(r) \ {r.ptrs[i], r.ptrs[i + 1]}) \cup Elems(e))
  <2>1. n = MakeNode(FALSE, TRUE, r.searchKey, K, Q)
    BY <1>0 DEF r, K, Q, N, sep
  <2>2. InnerArray(1, <<sep>>, e, Low(r.keys, X.lo, i), High(Len(r.keys), r.keys, X.hi, i + 1), X.ht - 1, g2)
    BY <1>11 DEF lo, hi, ht, PairLo, PairHi, r, X
  <2>3. 1 \in Nat /\ 1 <= 1 /\ i \in 1 .. Len(r.keys) /\ ~r.leaf /\ r.weight
    BY DEF r
  <2>4. IsSplice(Q, r.ptrs, Len(r.keys) + 1, e, 1 + 1, i, i + 1)
    BY <1>8
  <2>5. ParentOK(MakeNode(FALSE, TRUE, r.searchKey, K, Q), X, g2,
                 (Kids(r) \ {r.ptrs[i], r.ptrs[i + 1]}) \cup Elems(e))
    BY ONLY <1>2, <1>7, <1>8, <1>10, <2>2, <2>3, <2>4, NewParent
  <2> QED BY ONLY <2>1, <2>5
<1>14. Sound(n, X, g2) /\ ~n.marked /\ n.weight /\ Kids(n) = (Kids(r) \ {l, s}) \cup {N + 2, N + 3}
  BY <1>1, <1>12, <1>13 DEF ParentOK, r
<1>15. Takes(g, P, p, n, X)
  BY <1>14 DEF Takes, X
<1>16. KidsThree(h, D, n, z.left, z.right)
  <2> DEFINE A == Kids(z.left)
             B == Kids(z.right)
             C == Kids(r) \ {l, s}
             F == Freed(h, D)
             E == Kids(n)
  <2>1. E = C \cup {N + 2, N + 3} /\ F = C \cup A \cup B /\ A \cap C = {} /\ B \cap C = {} /\ A \cap B = {}
    <3>1. Kids(r) = Kids(h[p])
      BY DEF r
    <3> QED BY ONLY <1>1, <1>3, <1>14, <3>1
  <2>2. N + 2 \notin F /\ N + 3 \notin F
    <3>1. N + 2 \notin 2 .. N /\ N + 3 \notin 2 .. N
      BY <1>2
    <3> QED BY <1>2, <3>1
  <2> HIDE DEF A, B, C, F, E
  <2>3. /\ E \cup A \cup B = F \cup {N + 2, N + 3}
        /\ N + 2 \in E /\ N + 3 \in E
        /\ E \cap A = {} /\ E \cap B = {} /\ A \cap B = {}
    BY ONLY <2>1, <2>2
  <2> QED BY ONLY <2>3 DEF KidsThree, N, A, B, F, E
<1>17. Fine(h, g, R)
  OBVIOUS
<1>18. Sound(n, X, g \o <<X, Y, Z>>)
  BY <1>14 DEF g2, ng
<1>19. Preserves(h, g, R, P, ip, D, <<n, z.left, z.right>>)
  BY ONLY <1>1, <1>4, <1>15, <1>16, <1>17, <1>18, ThreeFine
<1> QED BY <1>19 DEF D, n, z
---------------------------------------------------------------------------
(* Threads *)

\* Old nodes stay what they are, but for their marks and their children.
Later(h, h2) ==
    /\ Len(h) \in Nat /\ Len(h2) \in Nat /\ Len(h) <= Len(h2)
    /\ \A n \in 1 .. Len(h) :
          /\ h2[n].leaf = h[n].leaf /\ h2[n].weight = h[n].weight
          /\ h2[n].searchKey = h[n].searchKey /\ h2[n].keys = h[n].keys
          /\ Len(h2[n].ptrs) = Len(h[n].ptrs)
    /\ h2[1].ptrs[1] = h[1].ptrs[1] \/ h2[1].ptrs[1] > Len(h)

FixType(N) == [kind : {"weight", "degree"}, viol : 1 .. N, entered : BOOLEAN]

\* A fix function that searches is called for a node below the root.
Entered(h, f) ==
    f.entered => /\ f.kind = "weight" => ~h[f.viol].weight
                 /\ f.kind = "degree" => f.viol # 1 /\ f.viol # h[1].ptrs[1]

TodoOK(h, td) == td \in Seq(FixType(Len(h))) /\ \A i \in 1 .. Len(td) : Entered(h, td[i])

\* A thread with call c and result r: it runs the operation itself; what it
\* searches for.
Running(c, r) == c # NoCall /\ r = Pending
Sought(h, c, r, td) == IF Running(c, r) THEN c.key ELSE h[td[1].viol].searchKey

CallOK(c, r, td) ==
    /\ c = NoCall \/ c \in Calls
    /\ r = Pending \/ r \in Value \cup {NO_VALUE}
    /\ c = NoCall \/ r = Pending => td = <<>>
    /\ c = NoCall => r = Pending

\* The nodes that a search has reached need not be in the tree any more, but
\* l is one for the key, and there is a gp unless p is entry.
SearchOK(h, g, q, key) ==
    /\ Place(h, q.p, q.ixToL) /\ q.l \in 2 .. Len(h)
    /\ key \in Key /\ g[q.l].lo <= key /\ key < g[q.l].hi
    /\ (q.gp = 0 /\ q.p = 1) \/ Place(h, q.gp, q.ixToP)

PosOK(h, g, c, r, td, q) ==
    q # Nowhere =>
        /\ Running(c, r) \/ (td # <<>> /\ td[1].entered)
        /\ SearchOK(h, g, q, Sought(h, c, r, td))
        /\ q.gp = 0 /\ ~Running(c, r) => q.l # td[1].viol

ThreadOK(h, g, c, r, td, q) ==
    CallOK(c, r, td) /\ TodoOK(h, td) /\ PosOK(h, g, c, r, td, q)

LEMMA TodoKept ==
    ASSUME NEW h, NEW h2, Later(h, h2), NEW td, TodoOK(h, td)
    PROVE  TodoOK(h2, td)
<1>1. Len(h) \in Nat /\ Len(h2) \in Nat /\ Len(h) <= Len(h2)
  BY DEF Later
<1>2. td \in Seq(FixType(Len(h))) /\ \A i \in 1 .. Len(td) : Entered(h, td[i])
  BY DEF TodoOK
<1>3. FixType(Len(h)) \subseteq FixType(Len(h2))
  BY <1>1 DEF FixType
<1>4. td \in Seq(FixType(Len(h2)))
  BY <1>2, <1>3, LenProperties, ElementOfSeq, IsASeq
<1>5. ASSUME NEW i \in 1 .. Len(td) PROVE Entered(h2, td[i])
  <2> DEFINE f == td[i]
  <2>1. f \in FixType(Len(h)) /\ Entered(h, f)
    BY <1>2, ElementOfSeq
  <2>2. f.viol \in 1 .. Len(h)
    BY <2>1 DEF FixType
  <2> HIDE DEF f
  <2>3. h2[f.viol].weight = h[f.viol].weight
    BY <2>2 DEF Later
  <2>4. f.viol # h[1].ptrs[1] => f.viol # h2[1].ptrs[1]
    BY <1>1, <2>2 DEF Later
  <2>5. Entered(h2, f)
    BY <2>1, <2>3, <2>4 DEF Entered
  <2> QED BY <2>5 DEF f
<1> QED BY <1>4, <1>5 DEF TodoOK

LEMMA PlaceKept ==
    ASSUME NEW h, NEW h2, Later(h, h2), NEW P, NEW ix, Place(h, P, ix)
    PROVE  Place(h2, P, ix)
<1>1. P \in 1 .. Len(h) /\ ~h[P].leaf /\ ix \in 1 .. Len(h[P].ptrs)
  BY DEF Place
<1>2. P \in 1 .. Len(h2) /\ h2[P].leaf = h[P].leaf /\ Len(h2[P].ptrs) = Len(h[P].ptrs)
  BY <1>1 DEF Later
<1> QED BY <1>1, <1>2 DEF Place

LEMMA SearchKept ==
    ASSUME NEW h, NEW h2, Later(h, h2), NEW g, NEW g2, Keeps(g, g2), Len(g) = Len(h),
           NEW q, NEW key, SearchOK(h, g, q, key)
    PROVE  SearchOK(h2, g2, q, key)
<1>1. Place(h2, q.p, q.ixToL)
  BY PlaceKept DEF SearchOK
<1>2. (q.gp = 0 /\ q.p = 1) \/ Place(h2, q.gp, q.ixToP)
  BY PlaceKept DEF SearchOK
<1>3. Len(h) \in Nat /\ Len(h2) \in Nat /\ Len(h) <= Len(h2) /\ q.l \in 2 .. Len(h)
  BY DEF Later, SearchOK
<1>4. q.l \in 2 .. Len(h2) /\ q.l \in 1 .. Len(g)
  BY <1>3
<1>5. g2[q.l] = g[q.l]
  BY <1>4 DEF Keeps
<1> QED BY <1>1, <1>2, <1>4, <1>5 DEF SearchOK

\* An update by another thread leaves a thread as it is.
LEMMA ThreadKept ==
    ASSUME NEW h, NEW h2, Later(h, h2), NEW g, NEW g2, Keeps(g, g2), Len(g) = Len(h),
           NEW c, NEW r, NEW td, NEW q, ThreadOK(h, g, c, r, td, q)
    PROVE  ThreadOK(h2, g2, c, r, td, q)
<1>1. CallOK(c, r, td) /\ TodoOK(h, td) /\ PosOK(h, g, c, r, td, q)
  BY DEF ThreadOK
<1>2. TodoOK(h2, td)
  BY <1>1, TodoKept
<1>3. ASSUME q # Nowhere PROVE Sought(h2, c, r, td) = Sought(h, c, r, td)
  <2>1. CASE Running(c, r)
    BY <2>1 DEF Sought
  <2>2. CASE ~Running(c, r)
    <3>1. td \in Seq(FixType(Len(h))) /\ td # <<>>
      BY <1>1, <1>3, <2>2 DEF PosOK, TodoOK
    <3>2. td[1] \in FixType(Len(h))
      BY <3>1, LenProperties, ElementOfSeq, EmptySeq
    <3>3. td[1].viol \in 1 .. Len(h)
      BY <3>2 DEF FixType
    <3>4. h2[td[1].viol].searchKey = h[td[1].viol].searchKey
      BY <3>3 DEF Later
    <3> QED BY <2>2, <3>4 DEF Sought
  <2> QED BY <2>1, <2>2
<1>4. PosOK(h2, g2, c, r, td, q)
  <2>1. SUFFICES ASSUME q # Nowhere
                 PROVE  /\ Running(c, r) \/ (td # <<>> /\ td[1].entered)
                        /\ SearchOK(h2, g2, q, Sought(h2, c, r, td))
                        /\ q.gp = 0 /\ ~Running(c, r) => q.l # td[1].viol
    BY DEF PosOK
  <2>2. SearchOK(h, g, q, Sought(h, c, r, td))
    BY <1>1, <2>1 DEF PosOK
  <2>3. SearchOK(h2, g2, q, Sought(h, c, r, td))
    BY <2>2, SearchKept
  <2>4. SearchOK(h2, g2, q, Sought(h2, c, r, td))
    BY <1>3, <2>1, <2>3
  <2> QED BY <1>1, <2>1, <2>4 DEF PosOK
<1> QED BY <1>1, <1>2, <1>4 DEF ThreadOK

LEMMA ScxLater ==
    ASSUME NEW h, NEW g, NEW R, Fine(h, g, R), NEW P, NEW ix, NEW D, NEW new,
           Preserves(h, g, R, P, ix, D, new)
    PROVE  Later(h, Changed(h, P, ix, D) \o new)
<1> DEFINE y == Changed(h, P, ix, D)
           h2 == y \o new
           N == Len(h)
<1>1. h \in Seq(NodeType) /\ N >= 2 /\ Len(h[1].ptrs) = 1
  BY DEF Fine, NodesOK
<1>2. new \in Seq(NodeType) /\ Len(new) \in Nat
  BY LenProperties DEF Preserves, NewNodes
<1>3. P \in 1 .. N /\ ~h[P].leaf /\ ix \in 1 .. Len(h[P].ptrs) /\ P \notin D
  BY DEF Preserves, Leads, Place, Goes
<1>4. /\ y \in Seq(NodeType) /\ Len(y) = N
      /\ \A n \in 1 .. N :
            /\ y[n].leaf = h[n].leaf /\ y[n].weight = h[n].weight
            /\ y[n].searchKey = h[n].searchKey /\ y[n].keys = h[n].keys
            /\ n # P => y[n].ptrs = h[n].ptrs
      /\ y[P].ptrs = [h[P].ptrs EXCEPT ![ix] = N + 1]
  BY <1>1, <1>3, ChangedNodes
<1>5. N \in Nat /\ h[P] \in NodeType
  BY <1>1, <1>3, LenProperties, ElementOfSeq
<1> HIDE DEF y, N
<1>6. Len(h2) = N + Len(new) /\ \A n \in 1 .. N : h2[n] = y[n]
  <2>1. y \in Seq(NodeType) /\ new \in Seq(NodeType) /\ Len(y) = N
    BY <1>2, <1>4
  <2>2. Len(y \o new) = Len(y) + Len(new) /\ \A n \in 1 .. Len(y) : (y \o new)[n] = y[n]
    BY ONLY <2>1, Extended
  <2> QED BY ONLY <2>1, <2>2
<1>7. h[P].ptrs \in Seq(Value \cup Nat)
  BY <1>5, NodeFields
<1>8. Len(y[P].ptrs) = Len(h[P].ptrs) /\ y[P].ptrs[ix] = N + 1
  <2> DEFINE s == h[P].ptrs
  <2>1. s \in Seq(Value \cup Nat) /\ ix \in 1 .. Len(s)
    BY <1>3, <1>7
  <2> HIDE DEF s
  <2>2. Len([s EXCEPT ![ix] = N + 1]) = Len(s) /\ [s EXCEPT ![ix] = N + 1][ix] = N + 1
    BY <2>1, <1>5, ExceptSeq, LenProperties
  <2> QED BY <1>4, <2>2 DEF s
<1>9. \A n \in 1 .. N : Len(y[n].ptrs) = Len(h[n].ptrs)
  BY <1>4, <1>8
<1>10. y[1].ptrs[1] = h[1].ptrs[1] \/ y[1].ptrs[1] = N + 1
  <2>1. CASE P = 1
    <3>1. ix \in 1 .. 1
      <4>1. h[P].ptrs = h[1].ptrs
        BY <2>1
      <4>2. ix \in 1 .. Len(h[1].ptrs) /\ Len(h[1].ptrs) = 1
        BY ONLY <1>1, <1>3, <4>1
      <4> QED BY ONLY <4>2
    <3>2. ix = 1
      BY <3>1
    <3> QED BY <1>8, <2>1, <3>2
  <2>2. CASE P # 1
    <3>1. N \in Nat /\ N >= 2
      BY ONLY <1>1, <1>5
    <3>2. 1 \in 1 .. N
      BY ONLY <3>1
    <3> QED BY <1>4, <2>2, <3>2
  <2> QED BY <2>1, <2>2
<1>11. h2[1] = y[1] /\ Len(h2) \in Nat /\ N <= Len(h2)
  BY <1>1, <1>2, <1>5, <1>6 DEF N
<1> HIDE DEF h2
<1>12. h2[1].ptrs[1] = h[1].ptrs[1] \/ h2[1].ptrs[1] > N
  BY <1>5, <1>10, <1>11
<1>13. Later(h, h2)
  BY <1>4, <1>5, <1>6, <1>9, <1>11, <1>12 DEF Later, N
<1> QED BY <1>13 DEF h2, y

---------------------------------------------------------------------------
(* The invariant *)

IsFun(f) == f = [t \in Thread |-> f[t]]

Funs == IsFun(call) /\ IsFun(ret) /\ IsFun(seen) /\ IsFun(todo) /\ IsFun(pos)

WorkOK == work \in [fill : Seq(Calls), calls : SUBSET Calls, left : Nat]

Good(g) == /\ Fine(heap, g, retired)
           /\ \A t \in Thread : ThreadOK(heap, g, call[t], ret[t], todo[t], pos[t])

Inv == Funs /\ WorkOK /\ \E g : Good(g)

\* A step of t leaves the other threads as they are.
Others(t) == \A u \in Thread : u # t => /\ call'[u] = call[u] /\ ret'[u] = ret[u]
                                        /\ todo'[u] = todo[u] /\ pos'[u] = pos[u]

\* A step that does not change the tree.
Quiet(t, g) == /\ heap' = heap /\ retired' = retired /\ Others(t) /\ Funs' /\ WorkOK'
               /\ ThreadOK(heap, g, call'[t], ret'[t], todo'[t], pos'[t])

\* A step that changes it.
Updates(t, g, P, ix, D, new) ==
    /\ heap' = Changed(heap, P, ix, D) \o new /\ retired' = retired \cup D
    /\ Preserves(heap, g, retired, P, ix, D, new)
    /\ Others(t) /\ Funs' /\ WorkOK' /\ pos'[t] = Nowhere
    /\ CallOK(call'[t], ret'[t], todo'[t]) /\ TodoOK(heap', todo'[t])

\* f2 is f but for e at t.
IsSet(f, f2, t, e) == IsFun(f2) /\ f2[t] = e /\ \A u \in Thread : u # t => f2[u] = f[u]

LEMMA SetIs ==
    ASSUME NEW f, IsFun(f), NEW t \in Thread, NEW e, NEW f2, f2 = [f EXCEPT ![t] = e]
    PROVE  IsSet(f, f2, t, e)
<1>1. f2 = [f EXCEPT ![t] = e] /\ DOMAIN f = Thread /\ f = [u \in Thread |-> f[u]]
  BY DEF IsFun
<1>2. f2[t] = e /\ \A u \in Thread : u # t => f2[u] = f[u]
  BY <1>1
<1>3. DOMAIN f2 = Thread /\ f2 = [u \in DOMAIN f2 |-> f2[u]]
  BY <1>1
<1>4. IsFun(f2)
  BY <1>3 DEF IsFun
<1> QED BY <1>2, <1>4 DEF IsSet

LEMMA QuietGood ==
    ASSUME NEW g, Good(g), NEW t \in Thread, Quiet(t, g)
    PROVE  Good(g)'
<1>1. heap' = heap /\ retired' = retired
  BY DEF Quiet
<1>2. Fine(heap', g, retired')
  BY <1>1 DEF Good
<1>3. ASSUME NEW u \in Thread PROVE ThreadOK(heap', g, call'[u], ret'[u], todo'[u], pos'[u])
  <2>1. CASE u = t
    BY <1>1, <2>1 DEF Quiet
  <2>2. CASE u # t
    <3>1. call'[u] = call[u] /\ ret'[u] = ret[u] /\ todo'[u] = todo[u] /\ pos'[u] = pos[u]
      BY <2>2 DEF Quiet, Others
    <3>2. ThreadOK(heap, g, call[u], ret[u], todo[u], pos[u])
      BY DEF Good
    <3> QED BY <1>1, <3>1, <3>2
  <2> QED BY <2>1, <2>2
<1> QED BY <1>2, <1>3 DEF Good

LEMMA UpdateGood ==
    ASSUME NEW g, Good(g), NEW t \in Thread, NEW P, NEW ix, NEW D, NEW new, Updates(t, g, P, ix, D, new)
    PROVE  \E g2 : /\ Good(g2)' /\ Keeps(g, g2) /\ Later(heap, heap')
                  /\ SameRange(g[heap[P].ptrs[ix]], g2[Len(heap) + 1])
<1> DEFINE h2 == Changed(heap, P, ix, D) \o new
<1>1. heap' = h2 /\ retired' = retired \cup D /\ Preserves(heap, g, retired, P, ix, D, new)
  BY DEF Updates
<1>2. Fine(heap, g, retired) /\ Len(g) = Len(heap)
  BY DEF Good, Fine, NodesOK
<1>3. Later(heap, h2)
  BY <1>1, <1>2, ScxLater
<1>4. PICK g2 : /\ Fine(h2, g2, retired \cup D) /\ Keeps(g, g2)
                /\ SameRange(g[heap[P].ptrs[ix]], g2[Len(heap) + 1])
  BY <1>1 DEF Preserves
<1>5. Fine(heap', g2, retired') /\ Later(heap, heap')
  BY <1>1, <1>3, <1>4
<1>6. ASSUME NEW u \in Thread PROVE ThreadOK(heap', g2, call'[u], ret'[u], todo'[u], pos'[u])
  <2>1. CASE u = t
    <3>1. pos'[t] = Nowhere /\ CallOK(call'[t], ret'[t], todo'[t]) /\ TodoOK(heap', todo'[t])
      BY DEF Updates
    <3>2. PosOK(heap', g2, call'[t], ret'[t], todo'[t], pos'[t])
      BY <3>1 DEF PosOK
    <3> QED BY <2>1, <3>1, <3>2 DEF ThreadOK
  <2>2. CASE u # t
    <3>1. call'[u] = call[u] /\ ret'[u] = ret[u] /\ todo'[u] = todo[u] /\ pos'[u] = pos[u]
      BY <2>2 DEF Updates, Others
    <3>2. ThreadOK(heap, g, call[u], ret[u], todo[u], pos[u])
      BY DEF Good
    <3>3. ThreadOK(heap', g2, call[u], ret[u], todo[u], pos[u])
      BY <1>2, <1>4, <1>5, <3>2, ThreadKept
    <3> QED BY <3>1, <3>3
  <2> QED BY <2>1, <2>2
<1>7. Good(g2)'
  BY <1>5, <1>6 DEF Good
<1> QED BY <1>4, <1>5, <1>7

---------------------------------------------------------------------------
(* The calls of the fix functions *)

LEMMA TodoNone == ASSUME NEW h PROVE TodoOK(h, <<>>)
BY DEF TodoOK

LEMMA FixIs ==
    ASSUME NEW h, NEW kind \in {"weight", "degree"}, NEW viol \in 1 .. Len(h)
    PROVE  Fix(kind, viol) \in FixType(Len(h)) /\ Entered(h, Fix(kind, viol))
BY DEF Fix, FixType, Entered

LEMMA TodoOne ==
    ASSUME NEW h, NEW kind \in {"weight", "degree"}, NEW viol \in 1 .. Len(h)
    PROVE  TodoOK(h, <<Fix(kind, viol)>>)
<1> DEFINE f == Fix(kind, viol)
<1>1. f \in FixType(Len(h)) /\ Entered(h, f)
  BY FixIs
<1> HIDE DEF f
<1>2. <<f>> \in Seq(FixType(Len(h))) /\ Len(<<f>>) = 1 /\ <<f>>[1] = f
  BY <1>1
<1>3. TodoOK(h, <<f>>)
  BY <1>1, <1>2 DEF TodoOK
<1> QED BY <1>3 DEF f

LEMMA TodoJoin ==
    ASSUME NEW h, NEW x, NEW y, TodoOK(h, x), TodoOK(h, y)
    PROVE  TodoOK(h, x \o y)
<1> DEFINE S == FixType(Len(h))
           z == x \o y
<1>1. x \in Seq(S) /\ y \in Seq(S)
  BY DEF TodoOK
<1>2. \A i \in 1 .. Len(x) : Entered(h, x[i])
  BY DEF TodoOK
<1>3. \A i \in 1 .. Len(y) : Entered(h, y[i])
  BY DEF TodoOK
<1> HIDE DEF S
<1>4. Len(x) \in Nat /\ Len(y) \in Nat /\ z \in Seq(S) /\ Len(z) = Len(x) + Len(y)
      /\ \A i \in 1 .. Len(x) : z[i] = x[i]
  BY <1>1, Extended
<1>5. \A j \in 1 .. Len(y) : z[Len(x) + j] = y[j]
  BY <1>1, Extended
<1> HIDE DEF z
<1>6. ASSUME NEW i \in 1 .. Len(z) PROVE Entered(h, z[i])
  <2>1. CASE i \in 1 .. Len(x)
    BY <1>2, <1>4, <2>1
  <2>2. CASE i \notin 1 .. Len(x)
    <3>1. (i - Len(x)) \in 1 .. Len(y) /\ Len(x) + (i - Len(x)) = i
      BY <1>4, <2>2
    <3>2. z[Len(x) + (i - Len(x))] = y[i - Len(x)]
      BY <1>5, <3>1
    <3> QED BY <1>3, <3>1, <3>2
  <2> QED BY <2>1, <2>2
<1> QED BY <1>4, <1>6 DEF TodoOK, z, S

LEMMA TodoTwo ==
    ASSUME NEW h, NEW kind \in {"weight", "degree"}, NEW viol \in 1 .. Len(h),
           NEW kind2 \in {"weight", "degree"}, NEW viol2 \in 1 .. Len(h)
    PROVE  TodoOK(h, <<Fix(kind, viol), Fix(kind2, viol2)>>)
<1> DEFINE f == Fix(kind, viol)
           e == Fix(kind2, viol2)
<1>1. f \in FixType(Len(h)) /\ Entered(h, f) /\ e \in FixType(Len(h)) /\ Entered(h, e)
  BY FixIs
<1> HIDE DEF f, e
<1>2. TodoOK(h, <<f, e>>)
  BY <1>1 DEF TodoOK
<1> QED BY <1>2 DEF f, e

LEMMA TodoHead ==
    ASSUME NEW h, NEW td, TodoOK(h, td), td # <<>>
    PROVE  /\ td[1] \in FixType(Len(h)) /\ Entered(h, td[1]) /\ Len(td) \in Nat /\ Len(td) >= 1
           /\ td[1].viol \in 1 .. Len(h) /\ td[1].kind \in {"weight", "degree"}
           /\ td[1].entered \in BOOLEAN
<1>1. td \in Seq(FixType(Len(h)))
  BY DEF TodoOK
<1>2. Len(td) \in Nat /\ Len(td) >= 1
  BY <1>1, LenProperties, EmptySeq
<1>3. 1 \in 1 .. Len(td)
  BY <1>2
<1>4. td[1] \in FixType(Len(h)) /\ Entered(h, td[1])
  BY <1>1, <1>3, ElementOfSeq DEF TodoOK
<1> QED BY <1>2, <1>4 DEF FixType

LEMMA TodoTail ==
    ASSUME NEW h, NEW td, TodoOK(h, td), td # <<>>
    PROVE  TodoOK(h, Tail(td))
<1> DEFINE S == FixType(Len(h))
           z == Tail(td)
<1>1. td \in Seq(S) /\ \A i \in 1 .. Len(td) : Entered(h, td[i])
  BY DEF TodoOK
<1> HIDE DEF S
<1>2. z \in Seq(S) /\ Len(z) = Len(td) - 1 /\ \A i \in 1 .. Len(z) : z[i] = td[i + 1]
  BY <1>1, HeadTailProperties
<1>3. Len(td) \in Nat /\ Len(z) \in Nat
  BY <1>1, <1>2, LenProperties
<1> HIDE DEF z
<1>4. ASSUME NEW i \in 1 .. Len(z) PROVE Entered(h, z[i])
  <2>1. i + 1 \in 1 .. Len(td)
    BY <1>2, <1>3
  <2> QED BY <1>1, <1>2, <2>1
<1> QED BY <1>2, <1>4 DEF TodoOK, z, S

\* The innermost call starts to search.
Begun(td) == [td EXCEPT ![1].entered = TRUE]

LEMMA TodoEntered ==
    ASSUME NEW h, NEW td, TodoOK(h, td), td # <<>>,
           Entered(h, [td[1] EXCEPT !.entered = TRUE])
    PROVE  TodoOK(h, Begun(td))
<1> DEFINE S == FixType(Len(h))
           f == [td[1] EXCEPT !.entered = TRUE]
<1>1. td \in Seq(S) /\ \A i \in 1 .. Len(td) : Entered(h, td[i])
  BY DEF TodoOK
<1>2. td[1] \in S /\ Len(td) \in Nat /\ Len(td) >= 1
  BY TodoHead
<1>3. f \in S
  BY <1>2 DEF FixType
<1>4. Begun(td) = [td EXCEPT ![1] = f]
  BY <1>1, <1>2 DEF Begun
<1>5. Entered(h, f)
  OBVIOUS
<1> HIDE DEF S, f
<1> DEFINE z == [td EXCEPT ![1] = f]
<1>6. z \in Seq(S) /\ Len(z) = Len(td) /\ \A i \in 1 .. Len(td) : z[i] = IF i = 1 THEN f ELSE td[i]
  <2>1. 1 \in 1 .. Len(td)
    BY <1>2
  <2>2. DOMAIN td = 1 .. Len(td)
    BY <1>1, LenProperties
  <2> QED BY <1>1, <1>3, <2>1, <2>2, ExceptSeq
<1> HIDE DEF z
<1>7. \A i \in 1 .. Len(z) : Entered(h, z[i])
  BY <1>1, <1>5, <1>6
<1>8. TodoOK(h, z)
  BY <1>6, <1>7 DEF TodoOK, S
<1> QED BY <1>4, <1>8 DEF z

---------------------------------------------------------------------------
(* The steps that leave the tree alone *)

LEMMA ThreadFacts ==
    ASSUME NEW g, Good(g), NEW t \in Thread
    PROVE  /\ CallOK(call[t], ret[t], todo[t]) /\ TodoOK(heap, todo[t])
           /\ PosOK(heap, g, call[t], ret[t], todo[t], pos[t])
           /\ Fine(heap, g, retired) /\ NodesOK(heap, g)
           /\ Operating(t) <=> Running(call[t], ret[t])
           /\ Operating(t) => call[t] \in Calls /\ call[t].key \in Key /\ todo[t] = <<>>
           /\ todo[t] # <<>> => call[t] # NoCall /\ ret[t] # Pending /\ ~Operating(t)
<1>1. /\ CallOK(call[t], ret[t], todo[t]) /\ TodoOK(heap, todo[t])
      /\ PosOK(heap, g, call[t], ret[t], todo[t], pos[t])
  BY DEF Good, ThreadOK
<1>2. Fine(heap, g, retired) /\ NodesOK(heap, g)
  BY DEF Good, Fine
<1>3. Operating(t) <=> Running(call[t], ret[t])
  BY DEF Operating, Running
<1>4. Operating(t) => call[t] \in Calls /\ todo[t] = <<>>
  BY <1>1 DEF Operating, CallOK
<1>5. \A c \in Calls : c.key \in Key
  BY DEF Calls
<1>6. todo[t] # <<>> => call[t] # NoCall /\ ret[t] # Pending /\ ~Operating(t)
  BY <1>1 DEF Operating, CallOK
<1> QED BY <1>1, <1>2, <1>3, <1>4, <1>5, <1>6

\* What a thread that searches has found.
LEMMA SearchFacts ==
    ASSUME NEW g, Good(g), NEW t \in Thread, pos[t] # Nowhere
    PROVE  /\ SearchOK(heap, g, pos[t], SearchKey(t))
           /\ pos[t].l \in 2 .. Len(heap) /\ Sound(At(t), g[pos[t].l], g)
           /\ Place(heap, pos[t].p, pos[t].ixToL)
           /\ ~Operating(t) => todo[t] # <<>> /\ todo[t][1].entered
           /\ Located(t) => pos[t].gp # 0 /\ Place(heap, pos[t].gp, pos[t].ixToP)
<1>1. /\ Running(call[t], ret[t]) \/ (todo[t] # <<>> /\ todo[t][1].entered)
      /\ SearchOK(heap, g, pos[t], Sought(heap, call[t], ret[t], todo[t]))
      /\ pos[t].gp = 0 /\ ~Running(call[t], ret[t]) => pos[t].l # todo[t][1].viol
  BY ThreadFacts DEF PosOK
<1>2. Operating(t) <=> Running(call[t], ret[t])
  BY ThreadFacts
<1>3. SearchKey(t) = Sought(heap, call[t], ret[t], todo[t])
  BY <1>2 DEF SearchKey, Sought, Viol
<1>4. NodesOK(heap, g)
  BY ThreadFacts
<1>5. pos[t].l \in 2 .. Len(heap) /\ Place(heap, pos[t].p, pos[t].ixToL)
      /\ ((pos[t].gp = 0 /\ pos[t].p = 1) \/ Place(heap, pos[t].gp, pos[t].ixToP))
  BY <1>1 DEF SearchOK
<1>6. Sound(At(t), g[pos[t].l], g)
  BY <1>4, <1>5, HeapType DEF At
<1>7. Located(t) => pos[t].gp # 0
  BY <1>1, <1>2 DEF Located, Viol
<1> QED BY <1>1, <1>2, <1>3, <1>5, <1>6, <1>7

LEMMA EnterQuiet ==
    ASSUME NEW g, Good(g), Funs, WorkOK, NEW t \in Thread, Enter(t)
    PROVE  Quiet(t, g)
<1> DEFINE q == [gp |-> NULL, ixToP |-> 0, p |-> entry, ixToL |-> 1, l |-> heap[entry].ptrs[1]]
           key == Sought(heap, call[t], ret[t], todo[t])
           root == heap[1].ptrs[1]
<1>1. /\ heap' = heap /\ retired' = retired /\ call' = call /\ ret' = ret /\ seen' = seen
      /\ todo' = todo /\ work' = work /\ pos' = [pos EXCEPT ![t] = q]
      /\ Operating(t) \/ (todo[t] # <<>> /\ todo[t][1].entered)
  BY DEF Enter, tree, Fixing
<1>2. /\ CallOK(call[t], ret[t], todo[t]) /\ TodoOK(heap, todo[t]) /\ NodesOK(heap, g)
      /\ Operating(t) <=> Running(call[t], ret[t])
      /\ Operating(t) => call[t].key \in Key
  BY ThreadFacts
<1>3. q.gp = 0 /\ q.p = 1 /\ q.ixToL = 1 /\ q.l = root
  BY DEF entry, NULL
<1> HIDE DEF q
<1>4. IsFun(pos') /\ pos'[t] = q /\ \A u \in Thread : u # t => pos'[u] = pos[u]
  <2>1. IsSet(pos, pos', t, q)
    BY <1>1, SetIs DEF Funs
  <2> QED BY <2>1 DEF IsSet
<1>5. key \in Key
  <2>1. CASE Operating(t)
    BY <1>2, <2>1 DEF Sought
  <2>2. CASE ~Operating(t)
    <3>1. todo[t][1].viol \in 1 .. Len(heap)
      BY <1>1, <1>2, <2>2, TodoHead
    <3>2. heap[todo[t][1].viol] \in NodeType
      BY <1>2, <3>1, HeapType
    <3>3. heap[todo[t][1].viol].searchKey \in Key
      BY <3>2, NodeFields
    <3> QED BY <1>2, <2>2, <3>3 DEF Sought
  <2> QED BY <2>1, <2>2
<1> HIDE DEF key
<1>6. /\ root \in 2 .. Len(heap) /\ heap[root].weight /\ g[root].lo <= key /\ key < g[root].hi
      /\ ~heap[1].leaf /\ Len(heap[1].ptrs) = 1 /\ 1 \in 1 .. Len(heap)
  BY <1>2, <1>5, HeapType DEF NodesOK
<1>7. Place(heap, 1, 1)
  BY <1>6 DEF Place
<1>8. SearchOK(heap, g, q, key)
  BY <1>3, <1>5, <1>6, <1>7 DEF SearchOK
<1>9. ASSUME ~Operating(t) PROVE root # todo[t][1].viol
  <2>1. Entered(heap, todo[t][1]) /\ todo[t][1].kind \in {"weight", "degree"} /\ todo[t][1].entered
    BY <1>1, <1>2, <1>9, TodoHead
  <2> QED BY <1>6, <2>1 DEF Entered
<1>10. PosOK(heap, g, call[t], ret[t], todo[t], q)
  BY <1>1, <1>2, <1>3, <1>8, <1>9 DEF PosOK, key
<1>11. ThreadOK(heap, g, call'[t], ret'[t], todo'[t], pos'[t])
  BY <1>1, <1>2, <1>4, <1>10 DEF ThreadOK
<1>12. Funs' /\ WorkOK' /\ Others(t)
  BY <1>1, <1>4 DEF Funs, WorkOK, Others
<1> QED BY <1>1, <1>11, <1>12 DEF Quiet

LEMMA DescendQuiet ==
    ASSUME NEW g, Good(g), Funs, WorkOK, NEW t \in Thread, Descend(t)
    PROVE  Quiet(t, g)
<1> DEFINE o == pos[t]
           r == heap[o.l]
           key == SearchKey(t)
           ix == getChildIndex(r, key)
           q == [gp |-> o.p, ixToP |-> o.ixToL, p |-> o.l, ixToL |-> ix, l |-> r.ptrs[ix]]
<1>1. /\ heap' = heap /\ retired' = retired /\ call' = call /\ ret' = ret /\ seen' = seen
      /\ todo' = todo /\ work' = work /\ o # Nowhere /\ ~r.leaf
  BY DEF Descend, tree, At, Arrived
<1>2. pos' = [pos EXCEPT ![t] = q]
  BY DEF Descend, At, Funs, IsFun
<1>3. /\ CallOK(call[t], ret[t], todo[t]) /\ TodoOK(heap, todo[t])
      /\ PosOK(heap, g, call[t], ret[t], todo[t], o)
      /\ (Operating(t) <=> Running(call[t], ret[t])) /\ NodesOK(heap, g)
  BY ThreadFacts
<1>4. key = Sought(heap, call[t], ret[t], todo[t])
  BY <1>3 DEF SearchKey, Sought, Viol
<1>5. /\ SearchOK(heap, g, o, key) /\ o.l \in 2 .. Len(heap) /\ Sound(r, g[o.l], g)
      /\ Place(heap, o.p, o.ixToL) /\ (~Operating(t) => todo[t] # <<>> /\ todo[t][1].entered)
  BY <1>1, SearchFacts DEF At
<1>6. key \in Key /\ key \in Int /\ g[o.l].lo <= key /\ key < g[o.l].hi
  BY <1>5, KeyAssumption DEF SearchOK
<1>7. q.gp = o.p /\ q.ixToP = o.ixToL /\ q.p = o.l /\ q.ixToL = ix /\ q.l = r.ptrs[ix]
  OBVIOUS
<1> HIDE DEF q
<1>8. IsFun(pos') /\ pos'[t] = q /\ \A u \in Thread : u # t => pos'[u] = pos[u]
  <2>1. IsSet(pos, pos', t, q)
    BY <1>2, SetIs DEF Funs
  <2> QED BY <2>1 DEF IsSet
<1> DEFINE x == g[o.l]
           k == Len(r.keys)
<1> HIDE DEF o, r, key
<1>9. InnerArray(k, r.keys, r.ptrs, x.lo, x.hi, x.ht - W(r), g) /\ Len(r.ptrs) = k + 1 /\ r \in NodeType
  BY <1>1, <1>5, SoundInner DEF Sound
<1>10. /\ ix \in 1 .. k + 1 /\ Low(r.keys, x.lo, ix) <= key /\ key < High(k, r.keys, x.hi, ix)
  <2>1. InnerArray(Len(r.keys), r.keys, r.ptrs, x.lo, x.hi, x.ht - W(r), g) /\ r \in NodeType /\ key \in Int
    BY <1>6, <1>9
  <2>2. /\ ix \in 1 .. Len(r.keys) + 1
        /\ x.lo <= key => Low(r.keys, x.lo, ix) <= key
        /\ key < x.hi => key < High(Len(r.keys), r.keys, x.hi, ix)
    BY ONLY <2>1, ChildIndex
  <2> QED BY <1>6, <2>2
<1> HIDE DEF ix, k
<1>11. /\ r.ptrs[ix] \in 2 .. Len(g) /\ g[r.ptrs[ix]].lo = Low(r.keys, x.lo, ix)
       /\ g[r.ptrs[ix]].hi = High(k, r.keys, x.hi, ix)
  BY <1>9, <1>10 DEF InnerArray, Fits
<1>12. Len(g) = Len(heap) /\ Len(heap) \in Nat
  BY <1>3, HeapType
<1>13. o.p \in 1 .. Len(heap) /\ o.l \in 1 .. Len(heap)
  BY <1>5, <1>12 DEF Place
<1>14. Place(heap, o.l, ix)
  BY <1>1, <1>9, <1>10, <1>13 DEF Place, r
<1>15. SearchOK(heap, g, q, key)
  BY <1>5, <1>6, <1>7, <1>10, <1>11, <1>12, <1>14 DEF SearchOK
<1>16. q.gp # 0
  BY <1>7, <1>13
<1>17. PosOK(heap, g, call[t], ret[t], todo[t], q)
  BY <1>3, <1>4, <1>5, <1>15, <1>16 DEF PosOK
<1>18. ThreadOK(heap, g, call'[t], ret'[t], todo'[t], pos'[t])
  BY <1>1, <1>3, <1>8, <1>17 DEF ThreadOK
<1>19. Funs' /\ WorkOK' /\ Others(t)
  BY <1>1, <1>8 DEF Funs, WorkOK, Others
<1> QED BY <1>1, <1>18, <1>19 DEF Quiet

LEMMA LookupType ==
    ASSUME NEW r, NEW x, NEW g, IsLeaf(r, x, g), NEW key \in Int
    PROVE  Lookup(r, key) \in Value \cup {NO_VALUE}
<1>1. r \in NodeType /\ LeafArray(Len(r.keys), r.keys, r.ptrs, x.lo, x.hi)
  BY LeafFields
<1>2. HasKey(r, key) => getKeyIndex(r, key) \in 1 .. Len(r.keys)
  BY <1>1, KeyIndex
<1>3. HasKey(r, key) => r.ptrs[getKeyIndex(r, key)] \in Value
  BY <1>1, <1>2 DEF LeafArray
<1> QED BY <1>3 DEF Lookup

LEMMA PlaceKid ==
    ASSUME NEW h, NEW g, NodesOK(h, g), NEW P, NEW ix, Place(h, P, ix)
    PROVE  h[P].ptrs[ix] \in 2 .. Len(h) /\ h[P].ptrs[ix] \in 1 .. Len(h)
<1>1. P \in 1 .. Len(h) /\ ~h[P].leaf /\ ix \in 1 .. Len(h[P].ptrs) /\ Len(h) \in Nat
  BY HeapType DEF Place
<1>2. h[P].ptrs[ix] \in Kids(h[P])
  BY <1>1 DEF Kids, Elems
<1>3. CASE P = 1
  <2>1. Kids(h[1]) = {h[1].ptrs[1]} /\ h[1].ptrs[1] \in 2 .. Len(h)
    BY Entry
  <2>2. h[P].ptrs[ix] \in 2 .. Len(h)
    BY <1>2, <1>3, <2>1
  <2> QED BY <1>1, <2>2
<1>4. CASE P # 1
  <2>1. P \in 2 .. Len(h)
    BY <1>1, <1>4
  <2>2. h[P].ptrs[ix] \in 2 .. Len(h)
    BY <1>2, <2>1, KidOf
  <2> QED BY <1>1, <2>2
<1> QED BY <1>3, <1>4

\* t searches no more, or again from entry.
LEMMA RestQuiet ==
    ASSUME NEW g, Good(g), NEW t \in Thread, heap' = heap, retired' = retired, Others(t), Funs', WorkOK',
           pos'[t] = Nowhere, CallOK(call'[t], ret'[t], todo'[t]), TodoOK(heap, todo'[t])
    PROVE  Quiet(t, g)
<1>1. PosOK(heap, g, call'[t], ret'[t], todo'[t], pos'[t])
  BY DEF PosOK
<1> QED BY <1>1 DEF Quiet, ThreadOK

LEMMA ObserveQuiet ==
    ASSUME NEW g, Good(g), Funs, WorkOK, NEW t \in Thread, Observe(t)
    PROVE  Quiet(t, g)
<1> DEFINE r == Lookup(At(t), call[t].key)
<1>1. /\ heap' = heap /\ retired' = retired /\ call' = call /\ seen' = seen /\ todo' = todo /\ work' = work
      /\ ret' = [ret EXCEPT ![t] = r] /\ pos' = [pos EXCEPT ![t] = Nowhere]
      /\ Operating(t) /\ pos[t] # Nowhere /\ At(t).leaf
  BY DEF Observe, tree, Arrived, Located
<1>2. CallOK(call[t], ret[t], todo[t]) /\ TodoOK(heap, todo[t]) /\ call[t].key \in Key
      /\ call[t] \in Calls /\ todo[t] = <<>> /\ call[t] # NoCall
  BY <1>1, ThreadFacts DEF Operating
<1>3. IsLeaf(At(t), g[pos[t].l], g)
  BY <1>1, SearchFacts DEF IsLeaf
<1>4. call[t].key \in Int
  BY <1>2, KeyAssumption
<1>5. r \in Value \cup {NO_VALUE}
  BY <1>3, <1>4, LookupType
<1> HIDE DEF r
<1>6. IsSet(ret, ret', t, r) /\ IsSet(pos, pos', t, Nowhere)
  BY <1>1, SetIs DEF Funs
<1>7. Funs' /\ WorkOK' /\ Others(t) /\ pos'[t] = Nowhere /\ ret'[t] = r
  BY <1>1, <1>6 DEF IsSet, Funs, WorkOK, Others
<1>8. CallOK(call'[t], ret'[t], todo'[t])
  BY <1>1, <1>2, <1>5, <1>7 DEF CallOK
<1>9. TodoOK(heap, todo'[t])
  BY <1>1, <1>2
<1> QED BY <1>1, <1>7, <1>8, <1>9, RestQuiet

LEMMA RetryQuiet ==
    ASSUME NEW g, Good(g), Funs, WorkOK, NEW t \in Thread, Retry(t)
    PROVE  Quiet(t, g)
<1>1. /\ heap' = heap /\ retired' = retired /\ call' = call /\ ret' = ret /\ seen' = seen
      /\ todo' = todo /\ work' = work /\ pos' = [pos EXCEPT ![t] = Nowhere]
  BY DEF Retry, tree
<1>2. CallOK(call'[t], ret'[t], todo'[t]) /\ TodoOK(heap, todo'[t])
  BY <1>1, ThreadFacts
<1>3. IsSet(pos, pos', t, Nowhere)
  BY <1>1, SetIs DEF Funs
<1>4. Funs' /\ WorkOK' /\ Others(t) /\ pos'[t] = Nowhere
  BY <1>1, <1>3 DEF IsSet, Funs, WorkOK, Others
<1> QED BY <1>1, <1>2, <1>4, RestQuiet

\* A thread that neither runs an operation nor has entered a fix function.
LEMMA Idle ==
    ASSUME NEW g, Good(g), NEW t \in Thread, ~Operating(t), todo[t] # <<>> => ~todo[t][1].entered
    PROVE  pos[t] = Nowhere
BY ThreadFacts DEF PosOK

LEMMA ReturnQuiet ==
    ASSUME NEW g, Good(g), Funs, WorkOK, NEW t \in Thread, Return(t)
    PROVE  Quiet(t, g)
<1>1. /\ heap' = heap /\ retired' = retired /\ todo' = todo /\ pos' = pos /\ work' = work
      /\ call' = [call EXCEPT ![t] = NoCall] /\ ret' = [ret EXCEPT ![t] = Pending]
      /\ seen' = [seen EXCEPT ![t] = {}] /\ todo[t] = <<>> /\ ret[t] # Pending
  BY DEF Return, tree, local
<1>2. pos[t] = Nowhere
  BY <1>1, Idle DEF Operating
<1>3. IsSet(call, call', t, NoCall) /\ IsSet(ret, ret', t, Pending) /\ IsSet(seen, seen', t, {})
  BY <1>1, SetIs DEF Funs
<1>4. /\ Funs' /\ WorkOK' /\ Others(t) /\ pos'[t] = Nowhere /\ call'[t] = NoCall
      /\ ret'[t] = Pending /\ todo'[t] = <<>>
  BY <1>1, <1>2, <1>3 DEF IsSet, Funs, WorkOK, Others
<1>5. CallOK(call'[t], ret'[t], todo'[t])
  BY <1>4 DEF CallOK
<1>6. TodoOK(heap, todo'[t])
  BY <1>4, TodoNone
<1> QED BY <1>1, <1>4, <1>5, <1>6, RestQuiet

LEMMA CallQuiet ==
    ASSUME NEW g, Good(g), Funs, WorkOK, NEW t \in Thread, NEW c, Call(t, c)
    PROVE  Quiet(t, g)
<1> DEFINE s == {Contents[c.key]}
<1>1. /\ heap' = heap /\ retired' = retired /\ todo' = todo /\ pos' = pos /\ ret' = ret
      /\ call' = [call EXCEPT ![t] = c] /\ seen' = [seen EXCEPT ![t] = s] /\ call[t] = NoCall
  BY DEF Call, tree, local
<1>2. pos[t] = Nowhere /\ todo[t] = <<>> /\ ret[t] = Pending
  <2>1. todo[t] = <<>> /\ ret[t] = Pending
    BY <1>1, ThreadFacts DEF CallOK
  <2> QED BY <1>1, <2>1, Idle DEF Operating
<1>3. c \in Calls /\ WorkOK'
  <2>1. CASE work.fill # <<>> /\ c = Head(work.fill) /\ work' = [work EXCEPT !.fill = Tail(@)]
    <3>1. work.fill \in Seq(Calls)
      BY DEF WorkOK
    <3>2. Head(work.fill) \in Calls /\ Tail(work.fill) \in Seq(Calls)
      BY <2>1, <3>1, HeadTailProperties
    <3> QED BY <2>1, <3>2 DEF WorkOK
  <2>2. CASE c \in work.calls /\ work.left > 0 /\ work' = [work EXCEPT !.left = @ - 1]
    <3>1. work.calls \subseteq Calls /\ work.left \in Nat
      BY DEF WorkOK
    <3>2. work.left - 1 \in Nat
      BY <2>2, <3>1
    <3>3. WorkOK'
      BY <2>2, <3>2 DEF WorkOK
    <3> QED BY <2>2, <3>1, <3>3
  <2> QED BY <2>1, <2>2 DEF Call
<1> HIDE DEF s
<1>4. IsSet(call, call', t, c) /\ IsSet(seen, seen', t, s)
  BY <1>1, SetIs DEF Funs
<1>5. Funs' /\ Others(t) /\ pos'[t] = Nowhere /\ call'[t] = c /\ ret'[t] = Pending /\ todo'[t] = <<>>
  BY <1>1, <1>2, <1>4 DEF IsSet, Funs, Others
<1>6. CallOK(call'[t], ret'[t], todo'[t])
  BY <1>3, <1>5 DEF CallOK
<1>7. TodoOK(heap, todo'[t])
  BY <1>5, TodoNone
<1> QED BY <1>1, <1>3, <1>5, <1>6, <1>7, RestQuiet

\* The calls that a thread whose operation has taken effect has still to make.
LEMMA LaterCalls ==
    ASSUME NEW g, Good(g), NEW t \in Thread, todo[t] # <<>>, NEW td
    PROVE  CallOK(call[t], ret[t], td)
<1>1. CallOK(call[t], ret[t], todo[t]) /\ call[t] # NoCall /\ ret[t] # Pending
  BY ThreadFacts
<1> QED BY <1>1 DEF CallOK

LEMMA FixEnterQuiet ==
    ASSUME NEW g, Good(g), Funs, WorkOK, NEW t \in Thread, FixEnter(t)
    PROVE  Quiet(t, g)
<1> DEFINE td == todo[t]
           viol == heap[Viol(t)]
           fixed == \/ viol.marked
                    \/ td[1].kind = "weight" /\ viol.weight
                    \/ /\ td[1].kind = "degree"
                       /\ getABDegree(viol) >= a \/ Viol(t) \in {entry, heap[entry].ptrs[1]}
           e == IF fixed THEN Tail(td) ELSE Begun(td)
<1>1. /\ heap' = heap /\ retired' = retired /\ call' = call /\ ret' = ret /\ seen' = seen
      /\ pos' = pos /\ work' = work /\ td # <<>> /\ ~td[1].entered
  BY DEF FixEnter, tree
<1>2. todo' = [todo EXCEPT ![t] = e]
  BY DEF FixEnter, Begun, Funs, IsFun
<1>3. TodoOK(heap, td) /\ ~Operating(t) /\ CallOK(call[t], ret[t], e)
  BY <1>1, ThreadFacts, LaterCalls
<1>4. pos[t] = Nowhere
  BY <1>1, <1>3, Idle
<1>5. TodoOK(heap, e)
  <2>1. CASE fixed
    <3>1. TodoOK(heap, Tail(td))
      BY <1>1, <1>3, TodoTail
    <3> QED BY <2>1, <3>1
  <2>2. CASE ~fixed
    <3> DEFINE f == [td[1] EXCEPT !.entered = TRUE]
    <3>1. td[1] \in FixType(Len(heap))
      BY <1>1, <1>3, TodoHead
    <3>2. f.kind = td[1].kind /\ f.viol = td[1].viol
      BY <3>1 DEF FixType
    <3>3. /\ f.kind = "weight" => ~heap[f.viol].weight
          /\ f.kind = "degree" => f.viol # 1 /\ f.viol # heap[1].ptrs[1]
      BY <2>2, <3>2 DEF Viol, entry
    <3>4. Entered(heap, f)
      BY <3>3 DEF Entered
    <3>5. TodoOK(heap, Begun(td))
      BY <1>1, <1>3, <3>4, TodoEntered
    <3> QED BY <2>2, <3>5
  <2> QED BY <2>1, <2>2
<1> HIDE DEF e
<1>6. IsSet(todo, todo', t, e)
  BY <1>2, SetIs DEF Funs
<1>7. Funs' /\ WorkOK' /\ Others(t) /\ pos'[t] = Nowhere /\ todo'[t] = e
  BY <1>1, <1>4, <1>6 DEF IsSet, Funs, WorkOK, Others
<1> QED BY <1>1, <1>3, <1>5, <1>7, RestQuiet

\* A fix function goes on with the calls e, after which nothing else has changed.
LEMMA CallsQuiet ==
    ASSUME NEW g, Good(g), Funs, WorkOK, NEW t \in Thread, todo[t] # <<>>,
           heap' = heap, retired' = retired, call' = call, ret' = ret, seen' = seen, work' = work,
           NEW e, TodoOK(heap, e),
           todo' = [todo EXCEPT ![t] = e], pos' = [pos EXCEPT ![t] = Nowhere]
    PROVE  Quiet(t, g)
<1>1. IsSet(todo, todo', t, e) /\ IsSet(pos, pos', t, Nowhere)
  BY SetIs DEF Funs
<1>2. Funs' /\ WorkOK' /\ Others(t) /\ pos'[t] = Nowhere /\ todo'[t] = e
  BY <1>1 DEF IsSet, Funs, WorkOK, Others
<1>3. CallOK(call[t], ret[t], e)
  BY LaterCalls
<1> QED BY <1>2, <1>3, RestQuiet

LEMMA HandOffQuiet ==
    ASSUME NEW g, Good(g), Funs, WorkOK, NEW t \in Thread, FixHandOff(t)
    PROVE  Quiet(t, g)
<1> DEFINE e == Tail(todo[t])
<1>1. /\ heap' = heap /\ retired' = retired /\ call' = call /\ ret' = ret /\ seen' = seen
      /\ work' = work /\ todo[t] # <<>> /\ pos' = [pos EXCEPT ![t] = Nowhere]
      /\ todo' = [todo EXCEPT ![t] = e]
  BY DEF FixHandOff, tree, Fixing, Funs, IsFun
<1>2. TodoOK(heap, e)
  BY <1>1, ThreadFacts, TodoTail
<1> HIDE DEF e
<1> QED BY <1>1, <1>2, CallsQuiet

LEMMA FirstQuiet ==
    ASSUME NEW g, Good(g), Funs, WorkOK, NEW t \in Thread, todo[t] # <<>>, NEW s, TodoOK(heap, s),
           FixFirst(t, s)
    PROVE  Quiet(t, g)
<1> DEFINE e == s \o todo[t]
<1>1. /\ heap' = heap /\ retired' = retired /\ call' = call /\ ret' = ret /\ seen' = seen
      /\ work' = work /\ pos' = [pos EXCEPT ![t] = Nowhere] /\ todo' = [todo EXCEPT ![t] = e]
  BY DEF FixFirst, tree, Funs, IsFun
<1>2. TodoOK(heap, e)
  BY ThreadFacts, TodoJoin
<1> HIDE DEF e
<1> QED BY <1>1, <1>2, CallsQuiet

LEMMA ParentWeightQuiet ==
    ASSUME NEW g, Good(g), Funs, WorkOK, NEW t \in Thread, FixParentWeight(t)
    PROVE  Quiet(t, g)
<1>1. todo[t] # <<>> /\ pos[t] # Nowhere /\ FixFirst(t, <<Fix("weight", pos[t].p)>>)
  BY DEF FixParentWeight, Fixing, Arrived
<1>2. pos[t].p \in 1 .. Len(heap)
  BY <1>1, SearchFacts DEF Place
<1>3. TodoOK(heap, <<Fix("weight", pos[t].p)>>)
  BY <1>2, TodoOne
<1> QED BY <1>1, <1>3, FirstQuiet

LEMMA WeightCalls ==
    ASSUME NEW h, NEW s, s \in Seq(1 .. Len(h))
    PROVE  TodoOK(h, [i \in DOMAIN s |-> Fix("weight", s[i])])
<1> DEFINE z == [i \in DOMAIN s |-> Fix("weight", s[i])]
<1>1. Len(s) \in Nat /\ DOMAIN s = 1 .. Len(s) /\ \A i \in 1 .. Len(s) : s[i] \in 1 .. Len(h)
  BY LenProperties, ElementOfSeq
<1>2. \A i \in 1 .. Len(s) : z[i] \in FixType(Len(h)) /\ Entered(h, z[i])
  BY <1>1, FixIs
<1>3. z \in Seq(FixType(Len(h))) /\ Len(z) = Len(s)
  BY <1>1, <1>2, IsASeq, LenProperties
<1> HIDE DEF z
<1>4. TodoOK(h, z)
  BY <1>2, <1>3 DEF TodoOK
<1> QED BY <1>4 DEF z

LEMMA InTheWayType ==
    ASSUME NEW g, Good(g), NEW t \in Thread, pos[t] # Nowhere
    PROVE  InTheWay(t) \in Seq(1 .. Len(heap))
<1> DEFINE S == 1 .. Len(heap)
           P == pos[t].p
           n == Len(heap[P].ptrs)
<1>1. NodesOK(heap, g) /\ Place(heap, P, pos[t].ixToL) /\ pos[t].l \in 2 .. Len(heap)
  BY ThreadFacts, SearchFacts
<1>2. P \in S /\ pos[t].l \in S
  BY <1>1, HeapType DEF Place
<1>3. heap[P] \in NodeType
  BY <1>1, <1>2, HeapType
<1>4. n \in Nat /\ pos[t].ixToL \in 1 .. n /\ ~heap[P].leaf
  BY <1>1, <1>3, NodeFields DEF Place
<1>5. ASSUME n # 1 PROVE Sibling(t) \in S
  <2>1. ixToS(t) \in 1 .. n
    <3> DEFINE j == pos[t].ixToL
    <3>1. n \in Nat /\ j \in 1 .. n /\ n # 1
      BY <1>4, <1>5
    <3> HIDE DEF n
    <3>2. ixToS(t) = IF j > 1 THEN j - 1 ELSE 2
      BY DEF ixToS
    <3> HIDE DEF j
    <3> QED BY ONLY <3>1, <3>2
  <2>2. Place(heap, P, ixToS(t))
    BY <1>2, <1>4, <2>1 DEF Place
  <2> QED BY <1>1, <2>2, PlaceKid DEF Sibling, Parent
<1>6. ASSUME NEW x \in S PROVE WeightViolation(x) \in Seq(S)
  <2>1. <<x>> \in Seq(S) /\ <<>> \in Seq(S)
    OBVIOUS
  <2> HIDE DEF S
  <2> QED BY <2>1 DEF WeightViolation
<1> DEFINE last == IF n = 1 THEN <<>> ELSE WeightViolation(Sibling(t))
<1>7. last \in Seq(S)
  <2>1. CASE n = 1
    BY <2>1
  <2>2. CASE n # 1
    <3>1. WeightViolation(Sibling(t)) \in Seq(S)
      BY <1>5, <1>6, <2>2
    <3> QED BY <2>2, <3>1
  <2> QED BY <2>1, <2>2
<1>8. InTheWay(t) = WeightViolation(P) \o WeightViolation(pos[t].l) \o last
  BY DEF InTheWay, getABDegree, Parent
<1>9. WeightViolation(P) \in Seq(S) /\ WeightViolation(pos[t].l) \in Seq(S)
  BY <1>2, <1>6
<1> HIDE DEF last, S, P
<1> QED BY <1>7, <1>8, <1>9, ConcatProperties DEF S

LEMMA WeightsQuiet ==
    ASSUME NEW g, Good(g), Funs, WorkOK, NEW t \in Thread, FixWeights(t)
    PROVE  Quiet(t, g)
<1> DEFINE s == [i \in DOMAIN InTheWay(t) |-> Fix("weight", InTheWay(t)[i])]
<1>1. todo[t] # <<>> /\ pos[t] # Nowhere /\ FixFirst(t, s)
  BY DEF FixWeights, FixingDegree, Fixing, Arrived
<1>2. TodoOK(heap, s)
  BY <1>1, InTheWayType, WeightCalls
<1> HIDE DEF s
<1> QED BY <1>1, <1>2, FirstQuiet

LEMMA GivesUpQuiet ==
    ASSUME NEW g, Good(g), Funs, WorkOK, NEW t \in Thread, FixGivesUp(t)
    PROVE  Quiet(t, g)
<1> DEFINE s == [i \in DOMAIN InTheWay(t) |-> Fix("weight", InTheWay(t)[i])]
           e == s \o Tail(todo[t])
<1>1. /\ heap' = heap /\ retired' = retired /\ call' = call /\ ret' = ret /\ seen' = seen
      /\ work' = work /\ pos' = [pos EXCEPT ![t] = Nowhere] /\ todo' = [todo EXCEPT ![t] = e]
      /\ todo[t] # <<>> /\ pos[t] # Nowhere
  BY DEF FixGivesUp, FixingDegree, Fixing, Arrived, tree, Funs, IsFun
<1>2. TodoOK(heap, s)
  BY <1>1, InTheWayType, WeightCalls
<1> HIDE DEF s
<1>3. TodoOK(heap, Tail(todo[t]))
  BY <1>1, ThreadFacts, TodoTail
<1>4. TodoOK(heap, e)
  BY <1>2, <1>3, TodoJoin
<1> HIDE DEF e
<1> QED BY <1>1, <1>4, CallsQuiet

---------------------------------------------------------------------------
(* The updates at a leaf *)

\* What a thread finds at the leaf when the LLXs of an update succeed.
AtLeaf(t, g) ==
    /\ Place(heap, pos[t].p, pos[t].ixToL) /\ pos[t].p \notin retired
    /\ pos[t].l = heap[pos[t].p].ptrs[pos[t].ixToL] /\ heap[pos[t].l].leaf
    /\ IsLeaf(At(t), g[pos[t].l], g)
    /\ call[t] \in Calls /\ call[t].key \in Key /\ call[t].key \in Int
    /\ g[pos[t].l].lo <= call[t].key /\ call[t].key < g[pos[t].l].hi
    /\ todo[t] = <<>> /\ call[t] # NoCall /\ Fine(heap, g, retired)

\* An unmarked internal node is in the tree.
LEMMA Unmarked ==
    ASSUME NEW g, NEW h, NEW R, Fine(h, g, R), NEW P, NEW ix, Place(h, P, ix), ~h[P].marked
    PROVE  P \notin R
BY DEF Fine, MarksOK, Place

LEMMA LeafReached ==
    ASSUME NEW g, Good(g), NEW t \in Thread, Operating(t), Arrived(t),
           Unchanged(pos[t].p, pos[t].ixToL, pos[t].l)
    PROVE  AtLeaf(t, g)
<1>1. pos[t] # Nowhere /\ At(t).leaf
  BY DEF Arrived, Located
<1>2. /\ Fine(heap, g, retired) /\ call[t] \in Calls /\ call[t].key \in Key /\ todo[t] = <<>>
      /\ call[t] # NoCall
  BY ThreadFacts DEF Operating
<1>3. Place(heap, pos[t].p, pos[t].ixToL) /\ SearchOK(heap, g, pos[t], SearchKey(t))
  BY <1>1, SearchFacts
<1>4. IsLeaf(At(t), g[pos[t].l], g) /\ heap[pos[t].l].leaf
  BY <1>1, SearchFacts DEF IsLeaf, At
<1>5. SearchKey(t) = call[t].key
  BY DEF SearchKey
<1>6. g[pos[t].l].lo <= call[t].key /\ call[t].key < g[pos[t].l].hi
  BY <1>3, <1>5 DEF SearchOK
<1>7. pos[t].l = heap[pos[t].p].ptrs[pos[t].ixToL] /\ ~heap[pos[t].p].marked
  BY DEF Unchanged
<1>8. pos[t].p \notin retired
  BY <1>2, <1>3, <1>7, Unmarked
<1>9. call[t].key \in Int
  BY <1>2, KeyAssumption
<1> QED BY <1>2, <1>3, <1>4, <1>6, <1>7, <1>8, <1>9 DEF AtLeaf

LEMMA NewLen ==
    ASSUME NEW h, NEW g, NEW R, Fine(h, g, R), NEW P, NEW ix, NEW D, NEW new,
           Preserves(h, g, R, P, ix, D, new)
    PROVE  /\ Len(Changed(h, P, ix, D) \o new) = Len(h) + Len(new) /\ Len(h) \in Nat
           /\ Len(new) \in Nat /\ Len(new) >= 1 /\ Len(h) >= 2
<1>1. h \in Seq(NodeType) /\ Len(h) >= 2
  BY DEF Fine, NodesOK
<1>2. new \in Seq(NodeType) /\ Len(new) \in Nat /\ Len(new) >= 1 /\ Len(h) \in Nat
  BY <1>1, LenProperties DEF Preserves, NewNodes
<1>3. P \in 1 .. Len(h) /\ ~h[P].leaf /\ ix \in 1 .. Len(h[P].ptrs) /\ P \notin D
  BY DEF Preserves, Leads, Place, Goes
<1> DEFINE y == Changed(h, P, ix, D)
<1>4. y \in Seq(NodeType) /\ Len(y) = Len(h)
  <2>1. /\ y \in Seq(NodeType) /\ Len(y) = Len(h)
        /\ y[P].ptrs = [h[P].ptrs EXCEPT ![ix] = Len(h) + 1]
    BY <1>1, <1>3, ChangedNodes
  <2> QED BY <2>1
<1> HIDE DEF y
<1>5. Len(y \o new) = Len(y) + Len(new)
  <2>1. y \in Seq(NodeType) /\ new \in Seq(NodeType)
    BY <1>2, <1>4
  <2> QED BY ONLY <2>1, Extended
<1> QED BY <1>1, <1>2, <1>4, <1>5 DEF y

LEMMA ScxIs ==
    ASSUME NEW t, NEW P, NEW ix, NEW new, NEW D, Scx(t, P, ix, new, D)
    PROVE  /\ heap' = Changed(heap, P, ix, D) \o new /\ retired' = retired \cup D
           /\ pos' = [pos EXCEPT ![t] = Nowhere]
<1>1. Changed(heap, P, ix, D) = [n \in DOMAIN heap |->
                  IF n = P THEN [heap[n] EXCEPT !.ptrs[ix] = Fresh(1)]
                  ELSE IF n \in D THEN [heap[n] EXCEPT !.marked = ~heap[n].leaf]
                  ELSE heap[n]]
  BY Zenon DEF Changed, Fresh
<1> QED BY <1>1, Zenon DEF Scx

LEMMA LeafUpdate ==
    ASSUME NEW g, Good(g), Funs, WorkOK, NEW t \in Thread, AtLeaf(t, g),
           NEW new, NEW s, NEW v, ReplaceLeaf(t, new, s, v),
           Preserves(heap, g, retired, pos[t].p, pos[t].ixToL, {pos[t].l}, new),
           NEW kind \in {"weight", "degree"}, s = <<Fix(kind, Fresh(1))>>
    PROVE  Updates(t, g, pos[t].p, pos[t].ixToL, {pos[t].l}, new)
<1> DEFINE P == pos[t].p
           ix == pos[t].ixToL
           D == {pos[t].l}
           r == Lookup(At(t), call[t].key)
<1>1. heap' = Changed(heap, P, ix, D) \o new /\ retired' = retired \cup D
      /\ pos' = [pos EXCEPT ![t] = Nowhere]
  BY ScxIs DEF ReplaceLeaf
<1>2. /\ todo' = [todo EXCEPT ![t] = s] /\ ret' = [ret EXCEPT ![t] = r]
      /\ call' = call /\ work' = work
  BY DEF ReplaceLeaf
<1>3. IsFun(seen')
  <2>1. seen' = [u \in Thread |-> IF call[u] # NoCall /\ call[u].key = call[t].key
                                  THEN seen[u] \cup {v} ELSE seen[u]]
    BY DEF ReplaceLeaf
  <2> QED BY <2>1 DEF IsFun
<1>4. r \in Value \cup {NO_VALUE}
  BY LookupType DEF AtLeaf
<1>5. r # Pending
  BY <1>4, ValueAssumption
<1> HIDE DEF r
<1>6. IsSet(todo, todo', t, s) /\ IsSet(ret, ret', t, r) /\ IsSet(pos, pos', t, Nowhere)
  BY <1>1, <1>2, SetIs DEF Funs
<1>7. /\ Funs' /\ WorkOK' /\ Others(t) /\ pos'[t] = Nowhere /\ todo'[t] = s /\ ret'[t] = r
      /\ call'[t] = call[t]
  BY <1>2, <1>3, <1>6 DEF IsSet, Funs, WorkOK, Others
<1>8. CallOK(call'[t], ret'[t], todo'[t])
  BY <1>4, <1>5, <1>7 DEF CallOK, AtLeaf
<1>9. Len(heap') = Len(heap) + Len(new) /\ Len(heap) \in Nat /\ Len(new) \in Nat /\ Len(new) >= 1
  <2>1. Fine(heap, g, retired) /\ Preserves(heap, g, retired, P, ix, D, new)
    BY DEF AtLeaf
  <2> HIDE DEF P, ix, D
  <2>2. /\ Len(Changed(heap, P, ix, D) \o new) = Len(heap) + Len(new) /\ Len(heap) \in Nat
        /\ Len(new) \in Nat /\ Len(new) >= 1
    BY ONLY <2>1, NewLen
  <2> QED BY ONLY <1>1, <2>2
<1>10. Fresh(1) \in 1 .. Len(heap')
  BY <1>9 DEF Fresh
<1>11. TodoOK(heap', s)
  BY <1>10, TodoOne
<1> QED BY <1>1, <1>7, <1>8, <1>11 DEF Updates

LEMMA InsertCalls ==
    ASSUME NEW c \in Calls, c.op \in {"insert", "insertIfAbsent"}
    PROVE  c.val \in Value
BY DEF Calls

\* The update replaces the leaf by new, and s is to be called.
IsLeafUpdate(t, g, new, s, v) ==
    /\ Updates(t, g, pos[t].p, pos[t].ixToL, {pos[t].l}, new)
    /\ AtLeaf(t, g) /\ ReplaceLeaf(t, new, s, v)

LEMMA ValueUpdate ==
    ASSUME NEW g, Good(g), Funs, WorkOK, NEW t \in Thread, ReplaceValue(t)
    PROVE  IsLeafUpdate(t, g, <<ValueNode(At(t), call[t].key, call[t].val)>>,
                        <<Fix("degree", Fresh(1))>>, call[t].val)
<1> DEFINE r == At(t)
           key == call[t].key
           v == call[t].val
           n == ValueNode(r, key, v)
           s == <<Fix("degree", Fresh(1))>>
<1>1. Inserting(t) /\ HasKey(r, key) /\ ReplaceLeaf(t, <<n>>, s, v)
  BY DEF ReplaceValue, ValueNode
<1>2. AtLeaf(t, g)
  BY <1>1, LeafReached DEF Inserting, ReplaceLeaf
<1>3. IsLeaf(r, g[pos[t].l], g) /\ key \in Key /\ v \in Value
  BY <1>1, <1>2, InsertCalls DEF AtLeaf, Inserting
<1> HIDE DEF r, key, v, s
<1>4. IsLeaf(n, g[pos[t].l], g) /\ ~n.marked
  BY ONLY <1>1, <1>3, ReplacedLeaf DEF ValueNode
<1> HIDE DEF n
<1> DEFINE P == pos[t].p
           ix == pos[t].ixToL
           c == pos[t].l
<1>5. /\ Fine(heap, g, retired) /\ Place(heap, P, ix) /\ P \notin retired
      /\ c = heap[P].ptrs[ix] /\ heap[c].leaf /\ IsLeaf(n, g[c], g) /\ ~n.marked
  BY <1>2, <1>4 DEF AtLeaf
<1>6. Preserves(heap, g, retired, P, ix, {c}, <<n>>)
  <2> HIDE DEF P, ix, c
  <2> QED BY ONLY <1>5, LeafFine
<1>7. Updates(t, g, P, ix, {c}, <<n>>)
  BY <1>1, <1>2, <1>6, LeafUpdate DEF s
<1> QED BY <1>1, <1>2, <1>7 DEF IsLeafUpdate, n, s, r, key, v

LEMMA PairUpdate ==
    ASSUME NEW g, Good(g), Funs, WorkOK, NEW t \in Thread, InsertPair(t)
    PROVE  IsLeafUpdate(t, g, <<PairNode(At(t), call[t].key, call[t].val)>>,
                        <<Fix("degree", Fresh(1))>>, call[t].val)
<1> DEFINE r == At(t)
           key == call[t].key
           v == call[t].val
           n == PairNode(r, key, v)
           s == <<Fix("degree", Fresh(1))>>
<1>1. Inserting(t) /\ ~HasKey(r, key) /\ Len(r.keys) < b /\ ReplaceLeaf(t, <<n>>, s, v)
  BY DEF InsertPair, PairNode
<1>2. AtLeaf(t, g)
  BY <1>1, LeafReached DEF Inserting, ReplaceLeaf
<1> DEFINE x == g[pos[t].l]
<1>3. IsLeaf(r, x, g) /\ key \in Key /\ v \in Value /\ x.lo <= key /\ key < x.hi
  BY <1>1, <1>2, InsertCalls DEF AtLeaf, Inserting
<1> HIDE DEF r, key, v, s, x
<1>4. IsLeaf(n, x, g) /\ ~n.marked
  BY ONLY <1>1, <1>3, InsertedLeaf DEF PairNode
<1> HIDE DEF n
<1> DEFINE P == pos[t].p
           ix == pos[t].ixToL
           c == pos[t].l
<1>5. /\ Fine(heap, g, retired) /\ Place(heap, P, ix) /\ P \notin retired
      /\ c = heap[P].ptrs[ix] /\ heap[c].leaf /\ IsLeaf(n, g[c], g) /\ ~n.marked
  BY <1>2, <1>4 DEF AtLeaf, x
<1>6. Preserves(heap, g, retired, P, ix, {c}, <<n>>)
  <2> HIDE DEF P, ix, c
  <2> QED BY ONLY <1>5, LeafFine
<1>7. Updates(t, g, P, ix, {c}, <<n>>)
  BY <1>1, <1>2, <1>6, LeafUpdate DEF s
<1> QED BY <1>1, <1>2, <1>7 DEF IsLeafUpdate, n, s, r, key, v

LEMMA EraseUpdate ==
    ASSUME NEW g, Good(g), Funs, WorkOK, NEW t \in Thread, Erase(t)
    PROVE  IsLeafUpdate(t, g, <<LessNode(At(t), call[t].key)>>, <<Fix("degree", Fresh(1))>>, NO_VALUE)
<1> DEFINE r == At(t)
           key == call[t].key
           n == LessNode(r, key)
           s == <<Fix("degree", Fresh(1))>>
<1>1. Operating(t) /\ Arrived(t) /\ HasKey(r, key) /\ ReplaceLeaf(t, <<n>>, s, NO_VALUE)
  BY DEF Erase, LessNode
<1>2. AtLeaf(t, g)
  BY <1>1, LeafReached DEF ReplaceLeaf
<1>3. IsLeaf(r, g[pos[t].l], g) /\ key \in Key
  BY <1>1, <1>2 DEF AtLeaf
<1> HIDE DEF r, key, s
<1>4. IsLeaf(n, g[pos[t].l], g) /\ ~n.marked
  BY ONLY <1>1, <1>3, ErasedLeaf DEF LessNode
<1> HIDE DEF n
<1> DEFINE P == pos[t].p
           ix == pos[t].ixToL
           c == pos[t].l
<1>5. /\ Fine(heap, g, retired) /\ Place(heap, P, ix) /\ P \notin retired
      /\ c = heap[P].ptrs[ix] /\ heap[c].leaf /\ IsLeaf(n, g[c], g) /\ ~n.marked
  BY <1>2, <1>4 DEF AtLeaf
<1>6. Preserves(heap, g, retired, P, ix, {c}, <<n>>)
  <2> HIDE DEF P, ix, c
  <2> QED BY ONLY <1>5, LeafFine
<1>7. Updates(t, g, P, ix, {c}, <<n>>)
  BY <1>1, <1>2, <1>6, LeafUpdate DEF s
<1> QED BY <1>1, <1>2, <1>7 DEF IsLeafUpdate, n, s, r, key

LEMMA OverflowUpdate ==
    ASSUME NEW g, Good(g), Funs, WorkOK, NEW t \in Thread, Overflow(t)
    PROVE  LET z == LeafHalves(At(t), call[t].key, call[t].val)
           IN  IsLeafUpdate(t, g, <<TopNode(pos[t].p = 1, z, Len(heap)), z.left, z.right>>,
                            <<Fix("weight", Fresh(1))>>, call[t].val)
<1> DEFINE r == At(t)
           key == call[t].key
           v == call[t].val
           z == LeafHalves(r, key, v)
           w == pos[t].p = 1
           n == TopNode(w, z, Len(heap))
           s == <<Fix("weight", Fresh(1))>>
           new == <<n, z.left, z.right>>
<1>1. Inserting(t) /\ ~HasKey(r, key) /\ Len(r.keys) = b /\ ReplaceLeaf(t, new, s, v)
  BY DEF Overflow, TopNode, LeafHalves, Fresh, entry
<1>2. AtLeaf(t, g)
  BY <1>1, LeafReached DEF Inserting, ReplaceLeaf
<1> DEFINE P == pos[t].p
           ix == pos[t].ixToL
           c == pos[t].l
<1>3. /\ Fine(heap, g, retired) /\ Place(heap, P, ix) /\ P \notin retired
      /\ c = heap[P].ptrs[ix] /\ heap[c].leaf /\ r = heap[c]
      /\ key \in Key /\ v \in Value /\ g[c].lo <= key /\ key < g[c].hi
  BY <1>1, <1>2, InsertCalls DEF AtLeaf, Inserting, At
<1>4. ~HasKey(r, key) /\ Len(r.keys) = b
  BY <1>1
<1> HIDE DEF key, v, s, P, ix, c, r
<1>8. Preserves(heap, g, retired, P, ix, {c}, new)
  <2> DEFINE z2 == LeafHalves(heap[c], key, v)
  <2>1. Preserves(heap, g, retired, P, ix, {c}, <<TopNode(P = 1, z2, Len(heap)), z2.left, z2.right>>)
    <3>1. /\ Fine(heap, g, retired) /\ Place(heap, P, ix) /\ P \notin retired
          /\ c = heap[P].ptrs[ix] /\ heap[c].leaf /\ key \in Key /\ v \in Value
          /\ g[c].lo <= key /\ key < g[c].hi /\ ~HasKey(heap[c], key) /\ Len(heap[c].keys) = b
      BY <1>3, <1>4
    <3> QED BY ONLY <3>1, OverflowFine
  <2>2. z2 = z
    BY <1>3
  <2> HIDE DEF z2, z
  <2> QED BY <2>1, <2>2 DEF P
<1>9. Updates(t, g, P, ix, {c}, new)
  <2>1. Preserves(heap, g, retired, pos[t].p, pos[t].ixToL, {pos[t].l}, new)
    BY <1>8 DEF P, ix, c
  <2> HIDE DEF new
  <2>2. ReplaceLeaf(t, new, s, v) /\ s = <<Fix("weight", Fresh(1))>>
    BY <1>1 DEF s
  <2>3. Updates(t, g, pos[t].p, pos[t].ixToL, {pos[t].l}, new)
    BY <1>2, <2>1, <2>2, LeafUpdate
  <2> QED BY <2>3 DEF P, ix, c
<1> HIDE DEF new
<1>10. IsLeafUpdate(t, g, new, s, v)
  BY <1>1, <1>2, <1>9 DEF IsLeafUpdate, P, ix, c
<1> QED BY <1>10 DEF new, s, r, key, v

---------------------------------------------------------------------------
(* The updates of a parent *)

\* What a thread finds when the LLXs of a fix function succeed.
AtParent(t, g) ==
    /\ Spot(heap, retired, pos[t].gp, pos[t].ixToP, pos[t].p, pos[t].ixToL, pos[t].l)
    /\ Fine(heap, g, retired) /\ todo[t] # <<>> /\ pos[t].l = todo[t][1].viol
    /\ todo[t][1].entered /\ Entered(heap, todo[t][1])

LEMMA ParentReached ==
    ASSUME NEW g, Good(g), NEW t \in Thread, pos[t] # Nowhere, Located(t), NEW others, Frozen(t, others)
    PROVE  AtParent(t, g)
<1>1. /\ Place(heap, pos[t].gp, pos[t].ixToP) /\ Place(heap, pos[t].p, pos[t].ixToL)
      /\ todo[t] # <<>> /\ todo[t][1].entered /\ pos[t].l = todo[t][1].viol
  BY SearchFacts DEF Located, Viol
<1>2. Fine(heap, g, retired) /\ TodoOK(heap, todo[t])
  BY ThreadFacts
<1>3. Entered(heap, todo[t][1])
  BY <1>1, <1>2, TodoHead
<1>4. /\ ~heap[pos[t].gp].marked /\ heap[pos[t].gp].ptrs[pos[t].ixToP] = pos[t].p
      /\ heap[pos[t].p].ptrs[pos[t].ixToL] = pos[t].l
  BY DEF Frozen, Unchanged
<1>5. pos[t].gp \notin retired
  BY <1>1, <1>2, <1>4, Unmarked
<1> QED BY <1>1, <1>2, <1>3, <1>4, <1>5 DEF AtParent, Spot

\* The update replaces p and removed by new, and s is to be called.
IsParentUpdate(t, g, new, removed, s) ==
    /\ Updates(t, g, pos[t].gp, pos[t].ixToP, {pos[t].p} \cup removed, new)
    /\ AtParent(t, g) /\ ReplaceParent(t, new, removed, s)

\* What is to be called is for the new nodes.
CallsFor(s, N, m) == \E kind \in {"weight", "degree"}, i \in 1 .. m :
                        \/ s = <<Fix(kind, N + i)>>
                        \/ \E kind2 \in {"weight", "degree"}, j \in 1 .. m :
                              s = <<Fix(kind, N + i), Fix(kind2, N + j)>>

LEMMA ParentUpdate ==
    ASSUME NEW g, Good(g), Funs, WorkOK, NEW t \in Thread, AtParent(t, g),
           NEW new, NEW removed, NEW s, ReplaceParent(t, new, removed, s),
           Preserves(heap, g, retired, pos[t].gp, pos[t].ixToP, {pos[t].p} \cup removed, new),
           CallsFor(s, Len(heap), Len(new))
    PROVE  IsParentUpdate(t, g, new, removed, s)
<1> DEFINE P == pos[t].gp
           ix == pos[t].ixToP
           D == {pos[t].p} \cup removed
           e == s \o Tail(todo[t])
<1>1. heap' = Changed(heap, P, ix, D) \o new /\ retired' = retired \cup D
      /\ pos' = [pos EXCEPT ![t] = Nowhere]
  BY ScxIs DEF ReplaceParent
<1>2. /\ todo' = [todo EXCEPT ![t] = e] /\ ret' = ret /\ seen' = seen
      /\ call' = call /\ work' = work
  BY DEF ReplaceParent, Funs, IsFun
<1>3. Preserves(heap, g, retired, P, ix, D, new) /\ Fine(heap, g, retired)
  BY DEF AtParent
<1>4. todo[t] # <<>> /\ TodoOK(heap, todo[t])
  BY ThreadFacts DEF AtParent
<1> HIDE DEF e, P, ix, D
<1>5. IsSet(todo, todo', t, e) /\ IsSet(pos, pos', t, Nowhere)
  BY <1>1, <1>2, SetIs DEF Funs
<1>6. /\ Funs' /\ WorkOK' /\ Others(t) /\ pos'[t] = Nowhere /\ todo'[t] = e /\ ret'[t] = ret[t]
      /\ call'[t] = call[t]
  BY <1>2, <1>5 DEF IsSet, Funs, WorkOK, Others
<1>7. CallOK(call'[t], ret'[t], todo'[t])
  BY <1>4, <1>6, LaterCalls
<1>8. Len(heap') = Len(heap) + Len(new) /\ Len(heap) \in Nat /\ Len(new) \in Nat /\ Len(new) >= 1
  <2>1. /\ Len(Changed(heap, P, ix, D) \o new) = Len(heap) + Len(new) /\ Len(heap) \in Nat
        /\ Len(new) \in Nat /\ Len(new) >= 1
    BY ONLY <1>3, NewLen
  <2> QED BY ONLY <1>1, <2>1
<1>9. Later(heap, heap')
  <2>1. Later(heap, Changed(heap, P, ix, D) \o new)
    BY ONLY <1>3, ScxLater
  <2> QED BY ONLY <1>1, <2>1
<1>10. TodoOK(heap', Tail(todo[t]))
  <2>1. TodoOK(heap, Tail(todo[t]))
    BY <1>4, TodoTail
  <2> QED BY <1>9, <2>1, TodoKept
<1>11. TodoOK(heap', s)
  <2>1. \A i \in 1 .. Len(new) : Len(heap) + i \in 1 .. Len(heap')
    BY <1>8
  <2>2. PICK kind \in {"weight", "degree"}, i \in 1 .. Len(new) :
                        \/ s = <<Fix(kind, Len(heap) + i)>>
                        \/ \E kind2 \in {"weight", "degree"}, j \in 1 .. Len(new) :
                              s = <<Fix(kind, Len(heap) + i), Fix(kind2, Len(heap) + j)>>
    BY DEF CallsFor
  <2>3. CASE s = <<Fix(kind, Len(heap) + i)>>
    BY <2>1, <2>3, TodoOne
  <2>4. CASE s # <<Fix(kind, Len(heap) + i)>>
    <3>1. PICK kind2 \in {"weight", "degree"}, j \in 1 .. Len(new) :
                              s = <<Fix(kind, Len(heap) + i), Fix(kind2, Len(heap) + j)>>
      BY <2>2, <2>4
    <3>2. Len(heap) + i \in 1 .. Len(heap') /\ Len(heap) + j \in 1 .. Len(heap')
      BY <2>1
    <3>3. TodoOK(heap', <<Fix(kind, Len(heap) + i), Fix(kind2, Len(heap) + j)>>)
      BY <3>2, TodoTwo
    <3> QED BY <3>1, <3>3
  <2> QED BY <2>3, <2>4
<1>12. TodoOK(heap', e)
  BY <1>10, <1>11, TodoJoin DEF e
<1>13. Updates(t, g, P, ix, D, new)
  BY <1>1, <1>3, <1>6, <1>7, <1>12 DEF Updates
<1> QED BY <1>13 DEF IsParentUpdate, P, ix, D

LEMMA CallsOne ==
    ASSUME NEW kind \in {"weight", "degree"}, NEW N, NEW m \in Nat, NEW i \in 1 .. m
    PROVE  CallsFor(<<Fix(kind, N + i)>>, N, m)
BY DEF CallsFor

LEMMA CallsTwo ==
    ASSUME NEW kind \in {"weight", "degree"}, NEW N, NEW m \in Nat, NEW i \in 1 .. m,
           NEW kind2 \in {"weight", "degree"}, NEW j \in 1 .. m
    PROVE  CallsFor(<<Fix(kind, N + i), Fix(kind2, N + j)>>, N, m)
BY DEF CallsFor

LEMMA AbsorbUpdate ==
    ASSUME NEW g, Good(g), Funs, WorkOK, NEW t \in Thread, Absorb(t)
    PROVE  IsParentUpdate(t, g, <<WholeNode(Spliced(Parent(t), At(t), pos[t].ixToL))>>, {pos[t].l},
                          <<Fix("degree", Fresh(1))>>)
<1> DEFINE m == Spliced(Parent(t), At(t), pos[t].ixToL)
           new == <<WholeNode(m)>>
           s == <<Fix("degree", Fresh(1))>>
           P == pos[t].gp
           ip == pos[t].ixToP
           p == pos[t].p
           il == pos[t].ixToL
           l == pos[t].l
<1>1. FixingWeight(t) /\ Len(m.ptrs) <= b /\ ReplaceParent(t, new, {l}, s)
  BY DEF Absorb, WholeNode
<1>2. AtParent(t, g)
  BY <1>1, ParentReached DEF FixingWeight, Arrived, ReplaceParent
<1>3. /\ Fine(heap, g, retired) /\ Spot(heap, retired, P, ip, p, il, l) /\ heap[p].weight
      /\ ~heap[l].weight
  BY <1>1, <1>2 DEF AtParent, FixingWeight, Fixing, Entered, Parent
<1>4. m = Spliced(heap[p], heap[l], il)
  BY DEF Parent, At
<1>5. Preserves(heap, g, retired, P, ip, {p} \cup {l}, new)
  <2> HIDE DEF P, ip, p, il, l
  <2>1. Len(Spliced(heap[p], heap[l], il).ptrs) <= b
    BY <1>1, <1>4
  <2>2. Preserves(heap, g, retired, P, ip, {p} \cup {l}, <<WholeNode(Spliced(heap[p], heap[l], il))>>)
    BY ONLY <1>3, <2>1, AbsorbFine
  <2> QED BY <1>4, <2>2
<1>6. CallsFor(s, Len(heap), Len(new))
  BY CallsOne DEF Fresh
<1> HIDE DEF new, s
<1>7. IsParentUpdate(t, g, new, {pos[t].l}, s)
  BY <1>1, <1>2, <1>5, <1>6, ParentUpdate
<1> QED BY <1>7 DEF new, s

LEMMA SplitUpdate ==
    ASSUME NEW g, Good(g), Funs, WorkOK, NEW t \in Thread, Split(t)
    PROVE  LET z == PartHalves(FALSE, Spliced(Parent(t), At(t), pos[t].ixToL))
           IN  IsParentUpdate(t, g, <<TopNode(pos[t].gp = 1, z, Len(heap)), z.left, z.right>>,
                              {pos[t].l}, <<Fix("weight", Fresh(1)), Fix("degree", Fresh(1))>>)
<1> DEFINE m == Spliced(Parent(t), At(t), pos[t].ixToL)
           z == PartHalves(FALSE, m)
           new == <<TopNode(pos[t].gp = 1, z, Len(heap)), z.left, z.right>>
           s == <<Fix("weight", Fresh(1)), Fix("degree", Fresh(1))>>
           P == pos[t].gp
           ip == pos[t].ixToP
           p == pos[t].p
           il == pos[t].ixToL
           l == pos[t].l
<1>1. FixingWeight(t) /\ Len(m.ptrs) > b /\ ReplaceParent(t, new, {l}, s)
  BY DEF Split, TopNode, PartHalves, Fresh, entry
<1>2. AtParent(t, g)
  BY <1>1, ParentReached DEF FixingWeight, Arrived, ReplaceParent
<1>3. /\ Fine(heap, g, retired) /\ Spot(heap, retired, P, ip, p, il, l) /\ heap[p].weight
      /\ ~heap[l].weight
  BY <1>1, <1>2 DEF AtParent, FixingWeight, Fixing, Entered, Parent
<1>4. m = Spliced(heap[p], heap[l], il)
  BY DEF Parent, At
<1>5. Preserves(heap, g, retired, P, ip, {p} \cup {l}, new)
  <2> DEFINE z2 == PartHalves(FALSE, Spliced(heap[p], heap[l], il))
  <2>1. Len(Spliced(heap[p], heap[l], il).ptrs) > b
    BY <1>1, <1>4
  <2>2. z2 = z
    BY <1>4
  <2>3. new = <<TopNode(P = 1, z, Len(heap)), z.left, z.right>>
    OBVIOUS
  <2> HIDE DEF P, ip, p, il, l, z, new
  <2>4. Preserves(heap, g, retired, P, ip, {p} \cup {l}, <<TopNode(P = 1, z2, Len(heap)), z2.left, z2.right>>)
    BY ONLY <1>3, <2>1, SplitFine
  <2> HIDE DEF z2
  <2> QED BY ONLY <2>2, <2>3, <2>4
<1>6. CallsFor(s, Len(heap), Len(new))
  <2>1. Len(new) = 3 /\ 1 \in 1 .. 3 /\ 3 \in Nat
    OBVIOUS
  <2> QED BY <2>1, CallsTwo DEF Fresh
<1> HIDE DEF new, s
<1>7. IsParentUpdate(t, g, new, {pos[t].l}, s)
  BY <1>1, <1>2, <1>5, <1>6, ParentUpdate
<1> QED BY <1>7 DEF new, s

\* Two neighbours, neither of which, nor their parent, has weight 0.
AtPair(t, g) ==
    /\ AtParent(t, g) /\ leftindex(t) \in 1 .. Len(Parent(t).keys)
    /\ ixToS(t) = leftindex(t) \/ ixToS(t) = leftindex(t) + 1
    /\ ~Parent(t).leaf /\ Parent(t).weight
    /\ PairOK(heap, g, retired, pos[t].gp, pos[t].ixToP, pos[t].p, pos[t].l, Sibling(t), leftindex(t),
              Joined(t))

LEMMA NoneInTheWay ==
    ASSUME NEW t, InTheWay(t) = <<>>, getABDegree(Parent(t)) # 1
    PROVE  heap[pos[t].p].weight /\ heap[pos[t].l].weight /\ heap[Sibling(t)].weight
<1> DEFINE u == WeightViolation(pos[t].p)
           v == WeightViolation(pos[t].l)
           w == WeightViolation(Sibling(t))
<1>1. u \o v \o w = <<>>
  BY DEF InTheWay
<1>2. (u = <<>> \/ u = <<pos[t].p>>) /\ (v = <<>> \/ v = <<pos[t].l>>) /\ (w = <<>> \/ w = <<Sibling(t)>>)
  BY DEF WeightViolation
<1>3. u = <<>> /\ v = <<>> /\ w = <<>>
  <2> DEFINE S == {pos[t].p, pos[t].l, Sibling(t)}
  <2>1. u \in Seq(S) /\ v \in Seq(S) /\ w \in Seq(S)
    <3>1. <<pos[t].p>> \in Seq(S) /\ <<pos[t].l>> \in Seq(S) /\ <<Sibling(t)>> \in Seq(S) /\ <<>> \in Seq(S)
      OBVIOUS
    <3> HIDE DEF u, v, w, S
    <3> QED BY <1>2, <3>1
  <2> HIDE DEF u, v, w, S
  <2>2. Len(u) \in Nat /\ Len(v) \in Nat /\ Len(w) \in Nat /\ Len((u \o v) \o w) = Len(u) + Len(v) + Len(w)
    BY <2>1, ConcatProperties, LenProperties
  <2>3. Len(u) + Len(v) + Len(w) = 0
    BY <1>1, <2>2
  <2>4. Len(u) = 0 /\ Len(v) = 0 /\ Len(w) = 0
    BY <2>2, <2>3
  <2> QED BY <2>1, <2>4, EmptySeq
<1>4. \A x : <<x>> # <<>>
  OBVIOUS
<1> QED BY <1>3, <1>4 DEF WeightViolation

LEMMA PairReached ==
    ASSUME NEW g, Good(g), NEW t \in Thread, FixingPair(t), NEW others, Frozen(t, others)
    PROVE  AtPair(t, g)
<1> DEFINE P == pos[t].gp
           ip == pos[t].ixToP
           p == pos[t].p
           il == pos[t].ixToL
           l == pos[t].l
           is == ixToS(t)
           s == Sibling(t)
           i == leftindex(t)
           n == Len(heap[p].keys)
<1>1. /\ pos[t] # Nowhere /\ Located(t) /\ getABDegree(Parent(t)) > 1 /\ InTheWay(t) = <<>>
  BY DEF FixingPair, FixingDegree, Arrived
<1>2. AtParent(t, g)
  BY <1>1, ParentReached
<1>3. /\ Fine(heap, g, retired) /\ Spot(heap, retired, P, ip, p, il, l)
  BY <1>2 DEF AtParent
<1>4. /\ Place(heap, P, ip) /\ P \notin retired /\ p = heap[P].ptrs[ip]
      /\ Place(heap, p, il) /\ l = heap[p].ptrs[il]
  BY <1>3 DEF Spot
<1>5. SpotOK(heap, g, retired, P, p, l)
  BY <1>3, SpotNodes
<1>6. Sound(heap[p], g[p], g) /\ ~heap[p].leaf
  BY <1>5 DEF SpotOK
<1>7. n \in Nat /\ Len(heap[p].ptrs) = n + 1
  BY <1>6, SoundInner
<1>8. n + 1 > 1 /\ il \in 1 .. n + 1
  BY <1>1, <1>4, <1>7 DEF getABDegree, Parent, Place
<1> HIDE DEF n
<1>9. /\ is \in 1 .. n + 1 /\ i \in 1 .. n /\ ((il = i /\ is = i + 1) \/ (il = i + 1 /\ is = i))
  <2>1. is = IF il > 1 THEN il - 1 ELSE 2
    BY DEF ixToS
  <2>2. i = Min({il, is})
    BY DEF leftindex
  <2> HIDE DEF il, is, i
  <2>3. CASE il > 1
    <3>1. is = il - 1 /\ is \in Int
      BY <1>7, <1>8, <2>1, <2>3
    <3>2. i = is
      <4>1. is \in {il, is} /\ \A j \in {il, is} : is <= j
        BY <1>7, <1>8, <3>1
      <4>2. {il, is} \in SUBSET Nat /\ {il, is} # {}
        BY <1>7, <1>8, <3>1
      <4>3. Min({il, is}) \in {il, is} /\ \A j \in {il, is} : Min({il, is}) <= j
        BY ONLY <4>2, LeastIs
      <4> QED BY <1>7, <1>8, <2>2, <3>1, <4>1, <4>3
    <3> QED BY <1>7, <1>8, <2>3, <3>1, <3>2
  <2>4. CASE ~(il > 1)
    <3>1. is = 2 /\ il = 1
      BY <1>7, <1>8, <2>1, <2>4
    <3>2. i = il
      <4>1. il \in {il, is} /\ \A j \in {il, is} : il <= j
        BY <3>1
      <4>2. {il, is} \in SUBSET Nat /\ {il, is} # {}
        BY <1>7, <1>8, <3>1
      <4>3. Min({il, is}) \in {il, is} /\ \A j \in {il, is} : Min({il, is}) <= j
        BY ONLY <4>2, LeastIs
      <4> QED BY <1>7, <1>8, <2>2, <3>1, <4>1, <4>3
    <3> QED BY <1>7, <1>8, <3>1, <3>2
  <2> QED BY <2>3, <2>4
<1>10. heap[p].weight /\ heap[l].weight /\ heap[s].weight
  <2>1. getABDegree(Parent(t)) # 1
    BY <1>7, <1>8 DEF getABDegree, Parent
  <2> QED BY <1>1, <2>1, NoneInTheWay
<1>11. Spot(heap, retired, P, ip, p, is, s)
  BY <1>4, <1>7, <1>9 DEF Spot, Place, Sibling, Parent
<1>12. Pair(heap, retired, P, ip, p, il, l, is, s, i)
  BY <1>3, <1>9, <1>10, <1>11 DEF Pair, n
<1>13. Joined(t) = JoinOf(heap[p], i, heap[heap[p].ptrs[i]], heap[heap[p].ptrs[i + 1]])
  BY DEF Joined, JoinOf, Parent
<1>14. PairOK(heap, g, retired, P, ip, p, l, s, i, Joined(t))
  <2> HIDE DEF P, ip, p, il, l, is, s, i
  <2>1. PairOK(heap, g, retired, P, ip, p, l, s, i,
               JoinOf(heap[p], i, heap[heap[p].ptrs[i]], heap[heap[p].ptrs[i + 1]]))
    BY ONLY <1>3, <1>12, PairNodes
  <2> QED BY ONLY <1>13, <2>1
<1> QED BY <1>2, <1>6, <1>9, <1>10, <1>14 DEF AtPair, n, Parent

LEMMA SiblingUpdate ==
    ASSUME NEW g, Good(g), Funs, WorkOK, NEW t \in Thread, AbsorbSibling(t)
    PROVE  LET joint == JointNode(Joined(t), At(t).searchKey)
               removed == {pos[t].l, Sibling(t)}
           IN  \/ RootAbsorbs(t) /\ IsParentUpdate(t, g, <<joint>>, removed, <<Fix("degree", Fresh(1))>>)
               \/ IsParentUpdate(t, g, <<LessParent(Parent(t), leftindex(t), ixToS(t), Len(heap)), joint>>,
                                 removed, <<Fix("degree", Fresh(2)), Fix("degree", Fresh(1))>>)
<1> DEFINE P == pos[t].gp
           ip == pos[t].ixToP
           p == pos[t].p
           l == pos[t].l
           is == ixToS(t)
           i == leftindex(t)
           m == Joined(t)
           joint == JointNode(m, At(t).searchKey)
           less == LessParent(Parent(t), i, is, Len(heap))
           removed == {pos[t].l, Sibling(t)}
           s == Sibling(t)
           c1 == <<Fix("degree", Fresh(1))>>
           c2 == <<Fix("degree", Fresh(2)), Fix("degree", Fresh(1))>>
<1>1. /\ FixingPair(t) /\ Len(m.ptrs) < 2 * a
      /\ IF RootAbsorbs(t) THEN ReplaceParent(t, <<joint>>, removed, c1)
                           ELSE ReplaceParent(t, <<less, joint>>, removed, c2)
  BY DEF AbsorbSibling, JointNode, LessParent, Fresh
<1>2. AtPair(t, g)
  BY <1>1, PairReached DEF ReplaceParent
<1>3. /\ AtParent(t, g) /\ i \in 1 .. Len(heap[p].keys) /\ (is = i \/ is = i + 1)
      /\ ~heap[p].leaf /\ heap[p].weight /\ PairOK(heap, g, retired, P, ip, p, l, s, i, m)
      /\ Fine(heap, g, retired)
  BY <1>2 DEF AtPair, AtParent, Parent
<1>4. joint = JointNode(m, heap[l].searchKey) /\ less = LessParent(heap[p], i, is, Len(heap))
      /\ removed = {l, s}
  BY DEF At, Parent
<1>5. CASE RootAbsorbs(t)
  <2>1. P = 1 /\ Len(heap[p].ptrs) = 2
    BY <1>5 DEF RootAbsorbs, getABDegree, Parent, entry
  <2>2. PairOK(heap, g, retired, 1, ip, p, l, s, i, m)
    BY <1>3, <2>1
  <2>3. Preserves(heap, g, retired, P, ip, {p} \cup removed, <<joint>>)
    <3> HIDE DEF P, ip, p, l, s, i, m, joint, removed, is
    <3>1. Preserves(heap, g, retired, 1, ip, {p} \cup {l, s}, <<JointNode(m, heap[l].searchKey)>>)
      BY ONLY <1>1, <1>3, <2>1, <2>2, RootAbsorbFine
    <3> QED BY ONLY <1>4, <2>1, <3>1
  <2>4. CallsFor(c1, Len(heap), Len(<<joint>>))
    <3>1. Len(<<joint>>) = 1 /\ 1 \in 1 .. 1
      OBVIOUS
    <3> QED BY <3>1, CallsOne DEF Fresh
  <2> DEFINE new == <<joint>>
  <2>5. /\ ReplaceParent(t, new, removed, c1) /\ CallsFor(c1, Len(heap), Len(new))
        /\ Preserves(heap, g, retired, pos[t].gp, pos[t].ixToP, {pos[t].p} \cup removed, new)
    BY <1>1, <1>5, <2>3, <2>4
  <2> HIDE DEF new, c1, removed
  <2>6. IsParentUpdate(t, g, new, removed, c1)
    BY <1>3, <2>5, ParentUpdate
  <2> QED BY <1>5, <2>6 DEF new, c1, removed
<1>6. CASE ~RootAbsorbs(t)
  <2>3. Preserves(heap, g, retired, P, ip, {p} \cup removed, <<less, joint>>)
    <3> HIDE DEF P, ip, p, l, s, i, m, joint, less, removed, is
    <3>1. Preserves(heap, g, retired, P, ip, {p} \cup {l, s},
                    <<LessParent(heap[p], i, is, Len(heap)), JointNode(m, heap[l].searchKey)>>)
      BY ONLY <1>1, <1>3, SiblingFine
    <3> QED BY ONLY <1>4, <3>1
  <2>4. CallsFor(c2, Len(heap), Len(<<less, joint>>))
    <3>1. Len(<<less, joint>>) = 2 /\ 1 \in 1 .. 2 /\ 2 \in 1 .. 2
      OBVIOUS
    <3> QED BY <3>1, CallsTwo DEF Fresh
  <2> DEFINE new == <<less, joint>>
  <2>5. /\ ReplaceParent(t, new, removed, c2) /\ CallsFor(c2, Len(heap), Len(new))
        /\ Preserves(heap, g, retired, pos[t].gp, pos[t].ixToP, {pos[t].p} \cup removed, new)
    BY <1>1, <1>6, <2>3, <2>4
  <2> HIDE DEF new, c2, removed
  <2>6. IsParentUpdate(t, g, new, removed, c2)
    BY <1>3, <2>5, ParentUpdate
  <2> QED BY <2>6 DEF new, c2, removed
<1> QED BY <1>5, <1>6

LEMMA DistributeUpdate ==
    ASSUME NEW g, Good(g), Funs, WorkOK, NEW t \in Thread, Distribute(t)
    PROVE  LET z == PartHalves(Joined(t).leaf, Joined(t))
           IN  IsParentUpdate(t, g, <<SameParent(Parent(t), leftindex(t), z, Len(heap)), z.left, z.right>>,
                              {pos[t].l, Sibling(t)}, <<Fix("degree", Fresh(1))>>)
<1> DEFINE P == pos[t].gp
           ip == pos[t].ixToP
           p == pos[t].p
           l == pos[t].l
           i == leftindex(t)
           m == Joined(t)
           z == PartHalves(m.leaf, m)
           same == SameParent(Parent(t), i, z, Len(heap))
           removed == {pos[t].l, Sibling(t)}
           s == Sibling(t)
           c1 == <<Fix("degree", Fresh(1))>>
           new == <<same, z.left, z.right>>
<1>1. /\ FixingPair(t) /\ Len(m.ptrs) >= 2 * a /\ ReplaceParent(t, new, removed, c1)
  BY DEF Distribute, PartHalves, SameParent, Fresh
<1>2. AtPair(t, g)
  BY <1>1, PairReached DEF ReplaceParent
<1>3. /\ AtParent(t, g) /\ i \in 1 .. Len(heap[p].keys)
      /\ ~heap[p].leaf /\ heap[p].weight /\ PairOK(heap, g, retired, P, ip, p, l, s, i, m)
      /\ Fine(heap, g, retired)
  BY <1>2 DEF AtPair, AtParent, Parent
<1>4. same = SameParent(heap[p], i, z, Len(heap)) /\ removed = {l, s}
  BY DEF Parent
<1>5. Preserves(heap, g, retired, P, ip, {p} \cup removed, new)
  <2> HIDE DEF P, ip, p, l, s, i, m, removed, same
  <2>1. Preserves(heap, g, retired, P, ip, {p} \cup {l, s},
                  <<SameParent(heap[p], i, z, Len(heap)), z.left, z.right>>)
    BY ONLY <1>1, <1>3, DistributeFine
  <2> QED BY ONLY <1>4, <2>1
<1>6. CallsFor(c1, Len(heap), Len(new))
  <2>1. Len(new) = 3 /\ 1 \in 1 .. 3
    OBVIOUS
  <2> QED BY <2>1, CallsOne DEF Fresh
<1> HIDE DEF new, c1, removed
<1>7. IsParentUpdate(t, g, new, removed, c1)
  BY <1>1, <1>3, <1>5, <1>6, ParentUpdate
<1> QED BY <1>7 DEF new, c1, removed

---------------------------------------------------------------------------
(* The initial state *)

LEMMA KeyBounds == \E lo \in Int, hi \in Int : \A key \in Key : lo <= key /\ key < hi
<1> DEFINE A == {T \in SUBSET Key : \E lo \in Int, hi \in Int : \A k \in T : lo <= k /\ k < hi}
<1>1. {} \in A
  <2>1. 0 \in Int
    OBVIOUS
  <2> QED BY <2>1
<1>2. ASSUME NEW T \in SUBSET Key, T # {}, T \ {Pick(T)} \in A PROVE T \in A
  <2> DEFINE e == Pick(T)
  <2>1. e \in T /\ e \in Int
    BY <1>2, PickType, KeyAssumption
  <2>2. PICK lo \in Int, hi \in Int : \A k \in T \ {e} : lo <= k /\ k < hi
    BY <1>2
  <2>3. T \subseteq Int
    BY KeyAssumption
  <2> HIDE DEF e
  <2> DEFINE lo2 == IF lo <= e THEN lo ELSE e
             hi2 == IF e < hi THEN hi ELSE e + 1
  <2>4. lo2 \in Int /\ hi2 \in Int /\ lo2 <= lo /\ lo2 <= e /\ hi <= hi2 /\ e < hi2
    BY <2>1
  <2> HIDE DEF lo2, hi2
  <2>5. \A k \in T : lo2 <= k /\ k < hi2
    <3> TAKE k \in T
    <3>1. k \in Int
      BY <2>3
    <3>2. k = e \/ k \in T \ {e}
      OBVIOUS
    <3>3. k = e \/ (lo <= k /\ k < hi)
      BY <2>2, <3>2
    <3> QED BY <2>4, <3>1, <3>3
  <2> QED BY <2>4, <2>5
<1>3. Key \in SUBSET Key /\ IsFiniteSet(Key)
  BY KeyAssumption
<1> HIDE DEF A
<1>4. SUBSET Key \subseteq A
  BY <1>1, <1>2, <1>3, InductionOnSubsets
<1> QED BY <1>3, <1>4 DEF A

LEMMA InitGood ==
    ASSUME Init
    PROVE  Inv
<1>1. PICK lo \in Int, hi \in Int : \A key \in Key : lo <= key /\ key < hi
  BY KeyBounds
<1>2. AnyKey \in Key /\ AnyKey \in Int /\ lo <= AnyKey /\ AnyKey < hi /\ lo < hi
  BY <1>1, KeyAssumption
<1> DEFINE x == Bounded(lo, hi, 1)
           g == <<x, x>>
           top == MakeNode(FALSE, TRUE, AnyKey, <<>>, <<2>>)
           leaf == MakeNode(TRUE, TRUE, AnyKey, <<>>, <<>>)
<1>3. heap = <<top, leaf>> /\ retired = {}
  BY DEF Init
<1>4. /\ call = [t \in Thread |-> NoCall] /\ ret = [t \in Thread |-> Pending]
      /\ seen = [t \in Thread |-> {}] /\ todo = [t \in Thread |-> <<>>]
      /\ pos = [t \in Thread |-> Nowhere] /\ work \in Workloads
  BY DEF Init
<1>5. x \in Info /\ x.lo = lo /\ x.hi = hi /\ x.ht = 1
  BY DEF Info, Bounded
<1>6. /\ top \in NodeType /\ ~top.leaf /\ ~top.marked /\ top.weight /\ top.keys = <<>> /\ top.ptrs = <<2>>
  BY <1>2 DEF NodeType, MakeNode
<1>7. leaf \in NodeType /\ leaf.leaf /\ leaf.weight
  BY <1>2 DEF NodeType, MakeNode
<1> HIDE DEF x
<1>8. g \in Seq(Info) /\ Len(g) = 2 /\ g[2] = x
  BY <1>5
<1> HIDE DEF g
<1>9. Sound(leaf, x, g)
  <2> DEFINE e == <<>>
  <2>1. Len(e) = 0 /\ e \in Seq(Key) /\ e \in Seq(Value \cup Nat)
    OBVIOUS
  <2> HIDE DEF e
  <2>2. LeafArray(0, e, e, x.lo, x.hi)
    BY <1>2, <1>5, <2>1 DEF LeafArray
  <2>3. 0 <= b
    BY DegreeAssumption DEF b
  <2>4. Sound(MakeNode(TRUE, TRUE, AnyKey, e, e), x, g)
    <3>1. AnyKey \in Key /\ x.lo <= AnyKey /\ AnyKey < x.hi /\ x.ht = 1 /\ x \in Info
      BY <1>2, <1>5
    <3> QED BY ONLY <2>1, <2>2, <2>3, <3>1, NewLeaf
  <2> QED BY <2>4 DEF e
<1> HIDE DEF top, leaf
<1>10. heap \in Seq(NodeType) /\ Len(heap) = 2 /\ heap[1] = top /\ heap[2] = leaf
  BY <1>3, <1>6, <1>7
<1>11. Len(top.ptrs) = 1 /\ top.ptrs[1] = 2
  BY <1>6
<1>12. NodesOK(heap, g)
  <2>1. \A key \in Key : g[2].lo <= key /\ key < g[2].hi
    BY <1>1, <1>5, <1>8
  <2>2. \A n \in 2 .. 2 : Sound(heap[n], g[n], g)
    BY <1>8, <1>9, <1>10
  <2>3. heap[1].ptrs[1] = 2 /\ Len(heap[1].ptrs) = 1
    BY ONLY <1>10, <1>11
  <2>4. heap[1].ptrs[1] \in 2 .. Len(heap) /\ heap[heap[1].ptrs[1]].weight
    BY <1>7, <1>10, <2>3
  <2>5. \A key \in Key : g[heap[1].ptrs[1]].lo <= key /\ key < g[heap[1].ptrs[1]].hi
    BY ONLY <2>1, <2>3
  <2>6. \A n \in 2 .. Len(heap) : Sound(heap[n], g[n], g)
    BY ONLY <1>10, <2>2
  <2>7. ~heap[1].leaf /\ heap[1].weight /\ heap[1].keys = <<>>
    BY <1>6, <1>10
  <2>8. heap \in Seq(NodeType) /\ g \in Seq(Info) /\ Len(g) = Len(heap) /\ Len(heap) >= 2
    BY <1>8, <1>10
  <2> QED BY ONLY <2>3, <2>4, <2>5, <2>6, <2>7, <2>8 DEF NodesOK
<1>13. Kids(heap[1]) = {2} /\ Kids(heap[2]) = {}
  <2>1. Kids(heap[2]) = {}
    BY <1>7, <1>10 DEF Kids
  <2>2. \A i : i \in 1 .. 1 <=> i = 1
    OBVIOUS
  <2>3. Elems(top.ptrs) = {2}
    BY <1>11, <2>2 DEF Elems
  <2> QED BY <1>6, <1>10, <2>1, <2>3 DEF Kids
<1>14. LinkOK(Len(heap), KidsOf(heap), retired)
  <2>1. KidsOf(heap)[1] = {2} /\ KidsOf(heap)[2] = {}
    BY <1>10, <1>13 DEF KidsOf
  <2>2. \A n \in 1 .. 2 : n = 1 \/ n = 2
    OBVIOUS
  <2>3. \A n \in 2 .. 2 : n = 2
    OBVIOUS
  <2> DEFINE k == KidsOf(heap)
  <2> HIDE DEF k
  <2>4. LinkOK(2, k, {})
    BY <2>1, <2>2, <2>3 DEF LinkOK, k
  <2> QED BY <1>3, <1>10, <2>4 DEF k
<1>15. MarksOK(heap, retired)
  <2>1. \A n \in 1 .. 2 : n = 1 \/ n = 2
    OBVIOUS
  <2> QED BY <1>3, <1>6, <1>7, <1>10, <2>1 DEF MarksOK
<1>16. ASSUME NEW t \in Thread PROVE ThreadOK(heap, g, call[t], ret[t], todo[t], pos[t])
  <2>1. call[t] = NoCall /\ ret[t] = Pending /\ todo[t] = <<>> /\ pos[t] = Nowhere
    BY <1>4
  <2>2. CallOK(NoCall, Pending, <<>>)
    BY DEF CallOK
  <2>3. PosOK(heap, g, NoCall, Pending, <<>>, Nowhere)
    BY DEF PosOK
  <2> QED BY <2>1, <2>2, <2>3, TodoNone DEF ThreadOK
<1>17. Good(g)
  BY <1>12, <1>14, <1>15, <1>16 DEF Good, Fine
<1>18. Funs
  BY <1>4 DEF Funs, IsFun
<1>19. WorkOK
  BY <1>4, WorkloadAssumption DEF WorkOK
<1> QED BY <1>17, <1>18, <1>19 DEF Inv

---------------------------------------------------------------------------
(* Every step *)

\* A step of t is one that leaves the tree alone or one of those that change it.
IsUpdate(t, g) == \E P, ix, D, new : Updates(t, g, P, ix, D, new)

LEMMA StepKinds ==
    ASSUME NEW g, Good(g), Funs, WorkOK, NEW t \in Thread, Step(t)
    PROVE  Quiet(t, g) \/ IsUpdate(t, g)
<1>1. CASE Enter(t)
  BY <1>1, EnterQuiet
<1>2. CASE Descend(t)
  BY <1>2, DescendQuiet
<1>3. CASE Observe(t)
  BY <1>3, ObserveQuiet
<1>4. CASE ReplaceValue(t)
  BY <1>4, ValueUpdate DEF IsLeafUpdate, IsUpdate
<1>5. CASE InsertPair(t)
  BY <1>5, PairUpdate DEF IsLeafUpdate, IsUpdate
<1>6. CASE Overflow(t)
  BY <1>6, OverflowUpdate DEF IsLeafUpdate, IsUpdate
<1>7. CASE Erase(t)
  BY <1>7, EraseUpdate DEF IsLeafUpdate, IsUpdate
<1>8. CASE FixEnter(t)
  BY <1>8, FixEnterQuiet
<1>9. CASE FixHandOff(t)
  BY <1>9, HandOffQuiet
<1>10. CASE FixParentWeight(t)
  BY <1>10, ParentWeightQuiet
<1>11. CASE Absorb(t)
  BY <1>11, AbsorbUpdate DEF IsParentUpdate, IsUpdate
<1>12. CASE Split(t)
  BY <1>12, SplitUpdate DEF IsParentUpdate, IsUpdate
<1>13. CASE FixWeights(t)
  BY <1>13, WeightsQuiet
<1>14. CASE FixGivesUp(t)
  BY <1>14, GivesUpQuiet
<1>15. CASE AbsorbSibling(t)
  BY <1>15, SiblingUpdate DEF IsParentUpdate, IsUpdate
<1>16. CASE Distribute(t)
  BY <1>16, DistributeUpdate DEF IsParentUpdate, IsUpdate
<1>17. CASE Retry(t)
  BY <1>17, RetryQuiet
<1>18. CASE Return(t)
  BY <1>18, ReturnQuiet
<1> QED BY <1>1, <1>2, <1>3, <1>4, <1>5, <1>6, <1>7, <1>8, <1>9, <1>10, <1>11, <1>12, <1>13, <1>14,
           <1>15, <1>16, <1>17, <1>18 DEF Step

LEMMA NextGood ==
    ASSUME Inv, [Next]_vars
    PROVE  Inv'
<1>1. PICK g : Good(g)
  BY DEF Inv
<1>2. Funs /\ WorkOK
  BY DEF Inv
<1>3. ASSUME NEW t \in Thread, Quiet(t, g) PROVE Inv'
  BY <1>1, <1>3, QuietGood DEF Quiet, Inv
<1>4. ASSUME NEW t \in Thread, IsUpdate(t, g) PROVE Inv'
  <2>1. PICK P, ix, D, new : Updates(t, g, P, ix, D, new)
    BY <1>4 DEF IsUpdate
  <2>2. \E g2 : Good(g2)'
    BY <1>1, <2>1, UpdateGood
  <2>3. Funs' /\ WorkOK'
    BY <2>1 DEF Updates
  <2> QED BY <2>2, <2>3 DEF Inv
<1>5. CASE Next
  <2>1. PICK t \in Thread : Step(t) \/ \E c \in work.calls \cup Range(work.fill) : Call(t, c)
    BY <1>5 DEF Next
  <2>2. CASE Step(t)
    BY <1>1, <1>2, <1>3, <1>4, <2>2, StepKinds
  <2>3. ASSUME NEW c, Call(t, c) PROVE Inv'
    BY <1>1, <1>2, <1>3, <2>3, CallQuiet
  <2> QED BY <2>1, <2>2, <2>3
<1>6. CASE UNCHANGED vars
  <2>1. /\ heap' = heap /\ retired' = retired /\ call' = call /\ ret' = ret /\ seen' = seen
        /\ todo' = todo /\ pos' = pos /\ work' = work
    BY <1>6 DEF vars, tree, local
  <2>2. Good(g)'
    BY <1>1, <2>1 DEF Good
  <2> QED BY <1>2, <2>1, <2>2 DEF Inv, Funs, WorkOK
<1> QED BY <1>5, <1>6

LEMMA SpecInv == Spec => []Inv
<1>1. Init => Inv
  BY InitGood
<1>2. Inv /\ [Next]_vars => Inv'
  BY NextGood
<1> QED BY <1>1, <1>2, PTL DEF Spec

---------------------------------------------------------------------------
(* What the invariant says *)

LEMMA GoodTypes ==
    ASSUME NEW g, Good(g)
    PROVE  TypeOK
<1>1. NodesOK(heap, g) /\ LinkOK(Len(heap), KidsOf(heap), retired)
  BY DEF Good, Fine
<1>2. /\ heap \in Seq(NodeType) /\ Len(heap) \in Nat /\ Len(heap) >= 2 /\ DOMAIN heap = 1 .. Len(heap)
  BY <1>1, LenProperties DEF NodesOK
<1>3. ASSUME NEW n \in DOMAIN heap
      PROVE  /\ Len(heap[n].ptrs) <= b
             /\ Len(heap[n].keys) = IF heap[n].leaf THEN Len(heap[n].ptrs) ELSE Len(heap[n].ptrs) - 1
             /\ heap[n].searchKey \in Key
  <2>1. heap[n].searchKey \in Key
    <3>1. heap[n] \in NodeType
      BY <1>2, <1>3, ElementOfSeq
    <3> QED BY <3>1, NodeFields
  <2>2. CASE n = 1
    <3>1. ~heap[1].leaf /\ heap[1].keys = <<>> /\ Len(heap[1].ptrs) = 1
      BY <1>1 DEF NodesOK
    <3>2. Len(<<>>) = 0 /\ 1 <= b
      BY Sizes
    <3> QED BY <2>1, <2>2, <3>1, <3>2
  <2>3. CASE n # 1
    <3>1. n \in 2 .. Len(heap)
      BY <1>2, <2>3
    <3>2. Sound(heap[n], g[n], g)
      BY <1>1, <3>1 DEF NodesOK
    <3> DEFINE r == heap[n]
    <3>3. Len(r.ptrs) <= b
      BY <3>2 DEF Sound
    <3>4. r.leaf => Len(r.keys) = Len(r.ptrs)
      BY <3>2 DEF Sound, LeafArray
    <3>5. ~r.leaf => Len(r.keys) = Len(r.ptrs) - 1
      <4>1. ~r.leaf => Len(r.keys) \in Nat /\ Len(r.ptrs) = Len(r.keys) + 1
        BY <3>2, SoundInner
      <4> QED BY <4>1
    <3> QED BY <2>1, <3>3, <3>4, <3>5
  <2> QED BY <2>2, <2>3
<1>4. retired \subseteq DOMAIN heap
  BY <1>1, <1>2 DEF LinkOK
<1>5. ASSUME NEW t \in Thread, NEW i \in DOMAIN todo[t] PROVE todo[t][i].viol \in DOMAIN heap
  <2>1. todo[t] \in Seq(FixType(Len(heap)))
    BY ThreadFacts DEF TodoOK
  <2>2. todo[t][i] \in FixType(Len(heap))
    BY <2>1, ElementOfSeq, LenProperties
  <2> QED BY <1>2, <2>2 DEF FixType
<1> QED BY <1>3, <1>4, <1>5 DEF TypeOK

LEMMA GoodSearches ==
    ASSUME NEW g, Good(g)
    PROVE  HasGrandparent
BY SearchFacts DEF HasGrandparent, NULL

LEMMA InvHolds ==
    ASSUME Inv
    PROVE  TypeOK /\ Ordered /\ Balanced /\ RetiredIsRemoved /\ HasGrandparent
<1>1. PICK g : Good(g)
  BY DEF Inv
<1>2. Fine(heap, g, retired)
  BY <1>1 DEF Good
<1> QED BY <1>1, <1>2, GoodTypes, GoodSearches, FineOrdered, FineBalanced, FineRetired

\* No step of any thread, in any order, builds a node that its arrays cannot hold, or
\* one with another number of keys than its pointers call for: leaves overflow into two
\* that fit, and absorbing, splitting and distributing stay within DEGREE.
THEOREM TypesKept == Spec => []TypeOK
<1>1. Inv => TypeOK
  BY InvHolds
<1> QED BY <1>1, SpecInv, PTL

\* The tree is a search tree after every SCX, however the updates of the threads
\* interleave: the separators bound what is below each child, searchKeys included, so
\* a search for any key ends at the leaf for it and a fix function can find its node.
THEOREM AlwaysOrdered == Spec => []Ordered
<1>1. Inv => Ordered
  BY InvHolds
<1> QED BY <1>1, SpecInv, PTL

\* All leaves are at one depth, where a node of weight 0 does not count: rebalancing
\* that is undone, or done by several threads at once, costs no more than the weights say.
THEOREM AlwaysBalanced == Spec => []Balanced
<1>1. Inv => Balanced
  BY InvHolds
<1> QED BY <1>1, SpecInv, PTL

\* The nodes an update retires are exactly those that have left the tree with it, no
\* node is retired while it can be reached from entry, and the internal ones among them
\* are the finalized ones.
THEOREM RetiresWhatItRemoves == Spec => []RetiredIsRemoved
<1>1. Inv => RetiredIsRemoved
  BY InvHolds
<1> QED BY <1>1, SpecInv, PTL

\* A fix function that has found its node has a grandparent to change: neither the root
\* nor what becomes the root while the thread searches is ever taken for its violation.
THEOREM FixHasGrandparent == Spec => []HasGrandparent
<1>1. Inv => HasGrandparent
  BY InvHolds
<1> QED BY <1>1, SpecInv, PTL
=============================================================================
