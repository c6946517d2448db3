------------------------------- MODULE ABtree -------------------------------
(***************************************************************************)
(* The lock-free relaxed (a,b)-tree of cpp/brown_ext_abtree_lf_impl.h.     *)
(* Searches follow one child pointer per step while other threads change   *)
(* the tree.  An update is one SCX: it replaces one child pointer of an    *)
(* unchanged node by a new subtree, and retires what it has removed.       *)
(*                                                                         *)
(* LLX and SCX are external.  An SCX succeeds only if none of the nodes    *)
(* passed to it has changed since its LLX, so the LLXs, the tests after    *)
(* them and the SCX are one step on the state at the SCX; an attempt that  *)
(* fails, for this or for contention, is the step Retry.  Nodes are never  *)
(* reused: that no operation meets a reused node is what the reclaimer     *)
(* promises (SafeReclamation).                                             *)
(***************************************************************************)
EXTENDS Integers, SequencesExt, FiniteSetsExt

CONSTANTS Thread,   \* the threads that call operations
          Main,     \* the thread that fills the tree first
          Key,      \* the keys, integers
          Value,
          NO_VALUE,
          DEGREE,   \* the template parameter
          AnyKey,   \* the argument anyKey of the constructor
          Workloads \* records: the sequence of calls the tree is filled with (fill),
                    \* the calls made after that (calls), and their number (left)

ASSUME ThreadAssumption == Main \in Thread
ASSUME KeyAssumption == Key \subseteq Int /\ IsFiniteSet(Key) /\ AnyKey \in Key
ASSUME DegreeAssumption == DEGREE \in Nat /\ DEGREE >= 3

NoCall == [op |-> "none"]
Pending == "pending"
Calls == [op : {"insert", "insertIfAbsent"}, key : Key, val : Value]
         \cup [op : {"find", "erase"}, key : Key, val : {NO_VALUE}]

\* NO_VALUE is no value that is inserted.
ASSUME ValueAssumption == NO_VALUE \notin Value /\ Pending \notin Value \cup {NO_VALUE}
ASSUME WorkloadAssumption ==
    Workloads \subseteq [fill : Seq(Calls), calls : SUBSET Calls, left : Nat]

b == DEGREE
a == IF DEGREE \div 4 > 2 THEN DEGREE \div 4 ELSE 2

VARIABLES
    heap,    \* the nodes, by address
    retired, \* the addresses passed to recordmgr->retire
    call, ret, seen, \* of Dictionary
    todo,    \* todo[t]: t's calls of the fix functions, the innermost first
    pos,     \* pos[t]: the locals gp, ixToP, p, ixToL, l of t's search
    work,    \* the workload: what is left of the filling, and of the calls
    givenUp  \* history: the nodes whose degree violation was left as it is

tree == <<heap, retired>>
local == <<todo, pos>>
vars == <<tree, call, ret, seen, local, work, givenUp>>

NULL == 0
entry == 1

MakeNode(leaf, weight, searchKey, keys, ptrs) ==
    [leaf |-> leaf, marked |-> FALSE, weight |-> weight, searchKey |-> searchKey,
     keys |-> keys, ptrs |-> ptrs]

getABDegree(n) == Len(n.ptrs)

\* The first child whose separator is larger than key; the first key that is
\* not smaller than key.
getChildIndex(n, key) ==
    Min({i \in DOMAIN n.keys : key < n.keys[i]} \cup {Len(n.keys) + 1})

getKeyIndex(n, key) ==
    Min({i \in DOMAIN n.keys : n.keys[i] >= key} \cup {Len(n.keys) + 1})

HasKey(n, key) == \E i \in DOMAIN n.keys : n.keys[i] = key

\* The value of key in the leaf n.
Lookup(n, key) == IF HasKey(n, key) THEN n.ptrs[getKeyIndex(n, key)] ELSE NO_VALUE

Nowhere == [gp |-> NULL, ixToP |-> 0, p |-> NULL, ixToL |-> 0, l |-> NULL]

Init == /\ heap = <<MakeNode(FALSE, TRUE, AnyKey, <<>>, <<2>>),
                    MakeNode(TRUE, TRUE, AnyKey, <<>>, <<>>)>>
        /\ retired = {}
        /\ call = [t \in Thread |-> NoCall]
        /\ ret = [t \in Thread |-> Pending]
        /\ seen = [t \in Thread |-> {}]
        /\ todo = [t \in Thread |-> <<>>]
        /\ pos = [t \in Thread |-> Nowhere]
        /\ work \in Workloads
        /\ givenUp = {}

---------------------------------------------------------------------------
(* The tree as a whole *)

Children(n) == IF heap[n].leaf THEN {} ELSE {heap[n].ptrs[i] : i \in DOMAIN heap[n].ptrs}

\* The addresses of the nodes of the subtree of n, and of those in the tree.
Below[n \in DOMAIN heap] == {n} \cup UNION {Below[c] : c \in Children(n)}
Linked == Below[entry]

\* What its leaves hold.
Contents ==
    LET leaves == {n \in Linked : heap[n].leaf}
    IN  [k \in Key |-> IF \E n \in leaves : HasKey(heap[n], k)
                       THEN Lookup(heap[CHOOSE n \in leaves : HasKey(heap[n], k)], k)
                       ELSE NO_VALUE]

---------------------------------------------------------------------------
(* Calls and searches *)

\* While the tree is filled, Main calls one operation after the other.
Call(t, c) ==
    /\ call[t] = NoCall
    /\ \/ /\ work.fill # <<>> /\ t = Main /\ c = Head(work.fill)
          /\ work' = [work EXCEPT !.fill = Tail(@)]
       \/ /\ work.fill = <<>> /\ c \in work.calls /\ work.left > 0
          /\ work' = [work EXCEPT !.left = @ - 1]
    /\ call' = [call EXCEPT ![t] = c]
    /\ seen' = [seen EXCEPT ![t] = {Contents[c.key]}]
    /\ UNCHANGED <<tree, ret, local, givenUp>>

\* t runs the operation itself; it runs a call of fixWeightViolation or of
\* fixDegreeViolation and looks for the node viol.
Operating(t) == call[t] # NoCall /\ ret[t] = Pending
Fixing(t, kind) == todo[t] # <<>> /\ todo[t][1].kind = kind /\ todo[t][1].entered
Viol(t) == todo[t][1].viol

SearchKey(t) == IF Operating(t) THEN call[t].key ELSE heap[Viol(t)].searchKey

At(t) == heap[pos[t].l]
Parent(t) == heap[pos[t].p]

\* l is a leaf, or what the search is for.
Located(t) == ~Operating(t) /\ pos[t].l = Viol(t)
Arrived(t) == pos[t] # Nowhere /\ (At(t).leaf \/ Located(t))

Enter(t) == /\ Operating(t) \/ Fixing(t, "weight") \/ Fixing(t, "degree")
            /\ pos[t] = Nowhere
            /\ pos' = [pos EXCEPT ![t] = [gp |-> NULL, ixToP |-> 0, p |-> entry, ixToL |-> 1,
                                          l |-> heap[entry].ptrs[1]]]
            /\ UNCHANGED <<tree, call, ret, seen, todo, work, givenUp>>

Descend(t) ==
    LET ix == getChildIndex(At(t), SearchKey(t))
    IN  /\ pos[t] # Nowhere
        /\ ~Arrived(t)
        /\ pos' = [pos EXCEPT ![t] = [gp |-> @.p, ixToP |-> @.ixToL, p |-> @.l, ixToL |-> ix,
                                      l |-> At(t).ptrs[ix]]]
        /\ UNCHANGED <<tree, call, ret, seen, todo, work, givenUp>>

---------------------------------------------------------------------------
(* SCX *)

Fresh(i) == Len(heap) + i

\* In the child ix of parent, new[1] replaces what was there; the nodes of
\* removed go, the internal ones finalized, and are retired.
Scx(t, parent, ix, new, removed) ==
    /\ heap' = [n \in DOMAIN heap |->
                  IF n = parent THEN [heap[n] EXCEPT !.ptrs[ix] = Fresh(1)]
                  ELSE IF n \in removed THEN [heap[n] EXCEPT !.marked = ~heap[n].leaf]
                  ELSE heap[n]] \o new
    /\ retired' = retired \cup removed
    /\ pos' = [pos EXCEPT ![t] = Nowhere]

\* LLX finds n with this child.
Unchanged(n, ix, child) == ~heap[n].marked /\ heap[n].ptrs[ix] = child

Fix(kind, viol) == [kind |-> kind, viol |-> viol, entered |-> FALSE]

\* Faulty: the last key of the left leaf as separator.
Halves_LastOfLeft(leaf, keys, ptrs, size1) ==
    LET keys1 == SubSeq(keys, 1, IF leaf THEN size1 ELSE size1 - 1)
        keys2 == SubSeq(keys, size1 + 1, Len(keys))
    IN  [separator |-> keys[size1],
         left |-> MakeNode(leaf, TRUE, keys1[1], keys1, SubSeq(ptrs, 1, size1)),
         right |-> MakeNode(leaf, TRUE, keys2[1], keys2, SubSeq(ptrs, size1 + 1, Len(ptrs)))]

\* Two nodes, the first with size1 pointers, that share keys and ptrs, and the
\* key that separates them, which two internal nodes leave to their parent.
Halves(leaf, keys, ptrs, size1) ==
    LET keys1 == SubSeq(keys, 1, IF leaf THEN size1 ELSE size1 - 1)
        keys2 == SubSeq(keys, size1 + 1, Len(keys))
    IN  [separator |-> IF leaf THEN keys2[1] ELSE keys[size1],
         left |-> MakeNode(leaf, TRUE, keys1[1], keys1, SubSeq(ptrs, 1, size1)),
         right |-> MakeNode(leaf, TRUE, keys2[1], keys2, SubSeq(ptrs, size1 + 1, Len(ptrs)))]

---------------------------------------------------------------------------
(* find, doInsert and erase, at the leaf *)

\* The operation returns what it has found.
Observe(t) ==
    LET r == Lookup(At(t), call[t].key)
    IN  /\ Operating(t) /\ Arrived(t)
        /\ \/ call[t].op = "find"
           \/ call[t].op = "insertIfAbsent" /\ r # NO_VALUE
           \/ call[t].op = "erase" /\ r = NO_VALUE
        /\ ret' = [ret EXCEPT ![t] = r]
        /\ pos' = [pos EXCEPT ![t] = Nowhere]
        /\ UNCHANGED <<tree, call, seen, todo, work, givenUp>>

\* Faulty: whether p has changed since the search is not tested.
ReplaceLeaf_Blind(t, new, calls, v) ==
    /\ Scx(t, pos[t].p, pos[t].ixToL, new, {pos[t].l})
    /\ todo' = [todo EXCEPT ![t] = calls]
    /\ ret' = [ret EXCEPT ![t] = Lookup(At(t), call[t].key)]
    /\ seen' = [u \in Thread |-> IF call[u] # NoCall /\ call[u].key = call[t].key
                                 THEN seen[u] \cup {v} ELSE seen[u]]
    /\ UNCHANGED <<call, work, givenUp>>

\* The leaf is replaced by new, after which calls are made; the key has v then.
ReplaceLeaf(t, new, calls, v) ==
    /\ Unchanged(pos[t].p, pos[t].ixToL, pos[t].l)
    /\ Scx(t, pos[t].p, pos[t].ixToL, new, {pos[t].l})
    /\ todo' = [todo EXCEPT ![t] = calls]
    /\ ret' = [ret EXCEPT ![t] = Lookup(At(t), call[t].key)]
    /\ seen' = [u \in Thread |-> IF call[u] # NoCall /\ call[u].key = call[t].key
                                 THEN seen[u] \cup {v} ELSE seen[u]]
    /\ UNCHANGED <<call, work, givenUp>>

Inserting(t) == Operating(t) /\ Arrived(t) /\ call[t].op \in {"insert", "insertIfAbsent"}

ReplaceValue(t) ==
    LET l == At(t)
        ix == getKeyIndex(l, call[t].key)
        n == MakeNode(TRUE, TRUE, l.searchKey, l.keys, ReplaceAt(l.ptrs, ix, call[t].val))
    IN  /\ Inserting(t) /\ call[t].op = "insert" /\ HasKey(l, call[t].key)
        /\ ReplaceLeaf(t, <<n>>, <<Fix("degree", Fresh(1))>>, call[t].val)

\* Faulty: a full leaf is taken to have room.
InsertPair_Full(t) ==
    LET l == At(t)
        ix == getKeyIndex(l, call[t].key)
        n == MakeNode(TRUE, l.weight, l.searchKey, InsertAt(l.keys, ix, call[t].key),
                      InsertAt(l.ptrs, ix, call[t].val))
    IN  /\ Inserting(t) /\ ~HasKey(l, call[t].key) /\ Len(l.keys) <= b
        /\ ReplaceLeaf(t, <<n>>, <<Fix("degree", Fresh(1))>>, call[t].val)

InsertPair(t) ==
    LET l == At(t)
        ix == getKeyIndex(l, call[t].key)
        n == MakeNode(TRUE, l.weight, l.searchKey, InsertAt(l.keys, ix, call[t].key),
                      InsertAt(l.ptrs, ix, call[t].val))
    IN  /\ Inserting(t) /\ ~HasKey(l, call[t].key) /\ Len(l.keys) < b
        /\ ReplaceLeaf(t, <<n>>, <<Fix("degree", Fresh(1))>>, call[t].val)

\* Faulty: the new parent always counts as a level of the tree.
Overflow_Weighted(t) ==
    LET l == At(t)
        ix == getKeyIndex(l, call[t].key)
        h == Halves(TRUE, InsertAt(l.keys, ix, call[t].key),
                    InsertAt(l.ptrs, ix, call[t].val), (DEGREE + 1) \div 2)
        n == MakeNode(FALSE, TRUE, h.separator, <<h.separator>>,
                      <<Fresh(2), Fresh(3)>>)
    IN  /\ Inserting(t) /\ ~HasKey(l, call[t].key) /\ Len(l.keys) = b
        /\ ReplaceLeaf(t, <<n, h.left, h.right>>, <<Fix("weight", Fresh(1))>>, call[t].val)

\* Faulty: the violation that the update leaves behind is not fixed.
Overflow_Unfixed(t) ==
    LET l == At(t)
        ix == getKeyIndex(l, call[t].key)
        h == Halves(TRUE, InsertAt(l.keys, ix, call[t].key),
                    InsertAt(l.ptrs, ix, call[t].val), (DEGREE + 1) \div 2)
        n == MakeNode(FALSE, pos[t].p = entry, h.separator, <<h.separator>>,
                      <<Fresh(2), Fresh(3)>>)
    IN  /\ Inserting(t) /\ ~HasKey(l, call[t].key) /\ Len(l.keys) = b
        /\ ReplaceLeaf(t, <<n, h.left, h.right>>, <<>>, call[t].val)

\* The leaf is full: two leaves and their parent, of weight 0 unless it is the
\* root.
Overflow(t) ==
    LET l == At(t)
        ix == getKeyIndex(l, call[t].key)
        h == Halves(TRUE, InsertAt(l.keys, ix, call[t].key),
                    InsertAt(l.ptrs, ix, call[t].val), (DEGREE + 1) \div 2)
        n == MakeNode(FALSE, pos[t].p = entry, h.separator, <<h.separator>>,
                      <<Fresh(2), Fresh(3)>>)
    IN  /\ Inserting(t) /\ ~HasKey(l, call[t].key) /\ Len(l.keys) = b
        /\ ReplaceLeaf(t, <<n, h.left, h.right>>, <<Fix("weight", Fresh(1))>>, call[t].val)

Erase(t) ==
    LET l == At(t)
        ix == getKeyIndex(l, call[t].key)
        n == MakeNode(TRUE, TRUE, l.keys[1], RemoveAt(l.keys, ix), RemoveAt(l.ptrs, ix))
    IN  /\ Operating(t) /\ Arrived(t) /\ call[t].op = "erase" /\ HasKey(l, call[t].key)
        /\ ReplaceLeaf(t, <<n>>, <<Fix("degree", Fresh(1))>>, NO_VALUE)

---------------------------------------------------------------------------
(* fixWeightViolation and fixDegreeViolation *)

\* Faulty: the root is not told apart.
FixEnter_Root(t) ==
    LET viol == heap[Viol(t)]
        fixed == \/ viol.marked
                 \/ todo[t][1].kind = "weight" /\ viol.weight
                 \/ todo[t][1].kind = "degree" /\ getABDegree(viol) >= a
    IN  /\ todo[t] # <<>> /\ ~todo[t][1].entered
        /\ todo' = [todo EXCEPT ![t] = IF fixed THEN Tail(@) ELSE [@ EXCEPT ![1].entered = TRUE]]
        /\ UNCHANGED <<tree, call, ret, seen, pos, work, givenUp>>

\* The tests before the loop.
FixEnter(t) ==
    LET viol == heap[Viol(t)]
        fixed == \/ viol.marked
                 \/ todo[t][1].kind = "weight" /\ viol.weight
                 \/ /\ todo[t][1].kind = "degree"
                    /\ getABDegree(viol) >= a \/ Viol(t) \in {entry, heap[entry].ptrs[1]}
    IN  /\ todo[t] # <<>> /\ ~todo[t][1].entered
        /\ todo' = [todo EXCEPT ![t] = IF fixed THEN Tail(@) ELSE [@ EXCEPT ![1].entered = TRUE]]
        /\ UNCHANGED <<tree, call, ret, seen, pos, work, givenUp>>

\* viol was replaced by another update.
FixHandOff(t) ==
    /\ Fixing(t, "weight") \/ Fixing(t, "degree")
    /\ Arrived(t) /\ ~Located(t)
    /\ todo' = [todo EXCEPT ![t] = Tail(@)]
    /\ pos' = [pos EXCEPT ![t] = Nowhere]
    /\ UNCHANGED <<tree, call, ret, seen, work, givenUp>>

\* The call goes on to make other calls, after which it searches again.
FixFirst(t, calls) ==
    /\ todo' = [todo EXCEPT ![t] = calls \o @]
    /\ pos' = [pos EXCEPT ![t] = Nowhere]
    /\ UNCHANGED <<tree, call, ret, seen, work, givenUp>>

\* The LLXs of gp, p and the internal nodes among others succeed.
Frozen(t, others) == /\ Unchanged(pos[t].gp, pos[t].ixToP, pos[t].p)
                     /\ Unchanged(pos[t].p, pos[t].ixToL, pos[t].l)
                     /\ \A n \in others : ~heap[n].marked

\* p and removed are replaced by new, after which calls are made.
ReplaceParent(t, new, removed, calls) ==
    /\ Frozen(t, removed)
    /\ Scx(t, pos[t].gp, pos[t].ixToP, new, {pos[t].p} \cup removed)
    /\ todo' = [todo EXCEPT ![t] = calls \o Tail(@)]
    /\ UNCHANGED <<call, ret, seen, work, givenUp>>

FixParentWeight(t) == /\ Fixing(t, "weight") /\ Arrived(t) /\ Located(t)
                      /\ ~Parent(t).weight
                      /\ FixFirst(t, <<Fix("weight", pos[t].p)>>)

\* The keys and pointers of p with those of l in the place of l.
Spliced(p, l, ix) ==
    [keys |-> SubSeq(p.keys, 1, ix - 1) \o l.keys \o SubSeq(p.keys, ix, Len(p.keys)),
     ptrs |-> SubSeq(p.ptrs, 1, ix - 1) \o l.ptrs \o SubSeq(p.ptrs, ix + 1, Len(p.ptrs))]

FixingWeight(t) == Fixing(t, "weight") /\ Arrived(t) /\ Located(t) /\ Parent(t).weight

\* Faulty: l is not retired with p.
Absorb_Leak(t) ==
    LET m == Spliced(Parent(t), At(t), pos[t].ixToL)
        n == MakeNode(FALSE, TRUE, m.keys[1], m.keys, m.ptrs)
    IN  /\ FixingWeight(t) /\ Len(m.ptrs) <= b
        /\ ReplaceParent(t, <<n>>, {}, <<Fix("degree", Fresh(1))>>)

Absorb(t) ==
    LET m == Spliced(Parent(t), At(t), pos[t].ixToL)
        n == MakeNode(FALSE, TRUE, m.keys[1], m.keys, m.ptrs)
    IN  /\ FixingWeight(t) /\ Len(m.ptrs) <= b
        /\ ReplaceParent(t, <<n>>, {pos[t].l}, <<Fix("degree", Fresh(1))>>)

Split(t) ==
    LET m == Spliced(Parent(t), At(t), pos[t].ixToL)
        h == Halves(FALSE, m.keys, m.ptrs, Len(m.ptrs) \div 2)
        n == MakeNode(FALSE, pos[t].gp = entry, h.separator, <<h.separator>>,
                      <<Fresh(2), Fresh(3)>>)
    IN  /\ FixingWeight(t) /\ Len(m.ptrs) > b
        /\ ReplaceParent(t, <<n, h.left, h.right>>, {pos[t].l},
                         <<Fix("weight", Fresh(1)), Fix("degree", Fresh(1))>>)

\* The sibling s of l, the left one if there is one.
ixToS(t) == IF pos[t].ixToL > 1 THEN pos[t].ixToL - 1 ELSE 2
Sibling(t) == Parent(t).ptrs[ixToS(t)]

\* The weight violations that stand in the way, in the order they are fixed.
WeightViolation(n) == IF heap[n].weight THEN <<>> ELSE <<n>>
InTheWay(t) ==
    LET alone == getABDegree(Parent(t)) = 1
    IN  WeightViolation(pos[t].p) \o WeightViolation(pos[t].l)
        \o (IF alone THEN <<>> ELSE WeightViolation(Sibling(t)))

FixingDegree(t) == Fixing(t, "degree") /\ Arrived(t) /\ Located(t)

FixWeights(t) ==
    /\ FixingDegree(t) /\ getABDegree(Parent(t)) > 1
    /\ Frozen(t, {})
    /\ InTheWay(t) # <<>>
    /\ FixFirst(t, [i \in DOMAIN InTheWay(t) |-> Fix("weight", InTheWay(t)[i])])

\* p has one child only: the violation at l is left as it is.
FixGivesUp(t) ==
    /\ FixingDegree(t) /\ getABDegree(Parent(t)) = 1
    /\ Frozen(t, {})
    /\ todo' = [todo EXCEPT ![t] =
                  [i \in DOMAIN InTheWay(t) |-> Fix("weight", InTheWay(t)[i])] \o Tail(@)]
    /\ givenUp' = givenUp \cup {pos[t].l}
    /\ pos' = [pos EXCEPT ![t] = Nowhere]
    /\ UNCHANGED <<tree, call, ret, seen, work>>

\* l and s, which have no violation in the way, left to right.
leftindex(t) == Min({pos[t].ixToL, ixToS(t)})
Joined(t) ==
    LET left == heap[Parent(t).ptrs[leftindex(t)]]
        right == heap[Parent(t).ptrs[leftindex(t) + 1]]
    IN  [leaf |-> left.leaf,
         keys |-> left.keys \o (IF left.leaf THEN <<>> ELSE <<Parent(t).keys[leftindex(t)]>>)
                  \o right.keys,
         ptrs |-> left.ptrs \o right.ptrs]

FixingPair(t) == FixingDegree(t) /\ getABDegree(Parent(t)) > 1 /\ InTheWay(t) = <<>>

RootAbsorbs(t) == pos[t].gp = entry /\ getABDegree(Parent(t)) = 2

AbsorbSibling(t) ==
    LET p == Parent(t)
        m == Joined(t)
        newl == MakeNode(m.leaf, TRUE, At(t).searchKey, m.keys, m.ptrs)
        n == MakeNode(FALSE, TRUE, p.searchKey, RemoveAt(p.keys, leftindex(t)),
                      ReplaceAt(RemoveAt(p.ptrs, ixToS(t)), leftindex(t), Fresh(2)))
        removed == {pos[t].l, Sibling(t)}
    IN  /\ FixingPair(t) /\ Len(m.ptrs) < 2 * a
        /\ IF RootAbsorbs(t)
           THEN ReplaceParent(t, <<newl>>, removed, <<Fix("degree", Fresh(1))>>)
           ELSE ReplaceParent(t, <<n, newl>>, removed,
                              <<Fix("degree", Fresh(2)), Fix("degree", Fresh(1))>>)

Distribute(t) ==
    LET p == Parent(t)
        m == Joined(t)
        h == Halves(m.leaf, m.keys, m.ptrs, Len(m.ptrs) \div 2)
        n == MakeNode(FALSE, TRUE, p.searchKey,
                      ReplaceAt(p.keys, leftindex(t), h.separator),
                      ReplaceAt(ReplaceAt(p.ptrs, leftindex(t), Fresh(2)),
                                leftindex(t) + 1, Fresh(3)))
    IN  /\ FixingPair(t) /\ Len(m.ptrs) >= 2 * a
        /\ ReplaceParent(t, <<n, h.left, h.right>>, {pos[t].l, Sibling(t)},
                         <<Fix("degree", Fresh(1))>>)

---------------------------------------------------------------------------

\* An LLX or the SCX fails.
Retry(t) == /\ \/ Inserting(t)
               \/ Operating(t) /\ Arrived(t) /\ call[t].op = "erase"
               \/ FixingWeight(t) \/ FixingDegree(t)
            /\ pos' = [pos EXCEPT ![t] = Nowhere]
            /\ UNCHANGED <<tree, call, ret, seen, todo, work, givenUp>>

Return(t) == /\ call[t] # NoCall /\ ret[t] # Pending /\ todo[t] = <<>>
             /\ call' = [call EXCEPT ![t] = NoCall]
             /\ ret' = [ret EXCEPT ![t] = Pending]
             /\ seen' = [seen EXCEPT ![t] = {}]
             /\ UNCHANGED <<tree, local, work, givenUp>>

Step(t) == \/ Enter(t) \/ Descend(t) \/ Observe(t)
           \/ ReplaceValue(t) \/ InsertPair(t) \/ Overflow(t) \/ Erase(t)
           \/ FixEnter(t) \/ FixHandOff(t) \/ FixParentWeight(t) \/ Absorb(t) \/ Split(t)
           \/ FixWeights(t) \/ FixGivesUp(t) \/ AbsorbSibling(t) \/ Distribute(t)
           \/ Retry(t) \/ Return(t)

Next == \E t \in Thread : Step(t) \/ \E c \in work.calls \cup Range(work.fill) : Call(t, c)

Spec == Init /\ [][Next]_vars
---------------------------------------------------------------------------
(* Properties *)

\* The arrays have DEGREE places: what an update builds fits.
TypeOK == /\ \A n \in DOMAIN heap :
                /\ Len(heap[n].ptrs) <= b
                /\ Len(heap[n].keys) = IF heap[n].leaf THEN Len(heap[n].ptrs)
                                                        ELSE Len(heap[n].ptrs) - 1
                /\ heap[n].searchKey \in Key
          /\ retired \subseteq DOMAIN heap
          /\ \A t \in Thread : \A i \in DOMAIN todo[t] : todo[t][i].viol \in DOMAIN heap

\* The keys of every node are sorted, and all keys below its i-th child are between
\* the separators to the left and to the right of the child, and so are the
\* searchKeys: a search for any key ends at the leaf for it, and the fix functions
\* find any node of the tree by its searchKey.
Ordered ==
    \A n \in Linked :
        LET ks == heap[n].keys
            KeysIn(m) == {heap[m].searchKey} \cup {heap[m].keys[i] : i \in DOMAIN heap[m].keys}
        IN  /\ \A i, j \in DOMAIN ks : i < j => ks[i] < ks[j]
            /\ heap[n].leaf \/ \A i \in DOMAIN heap[n].ptrs :
                  \A m \in Below[heap[n].ptrs[i]] : \A k \in KeysIn(m) :
                     (i > 1 => ks[i - 1] <= k) /\ (i <= Len(ks) => k < ks[i])

\* The depths of the leaves of the subtree of n, not counting nodes of weight 0.
Depths[n \in DOMAIN heap] ==
    LET w == IF heap[n].weight THEN 1 ELSE 0
    IN  IF heap[n].leaf THEN {w}
        ELSE UNION {{w + d : d \in Depths[c]} : c \in Children(n)}

\* All leaves are at the same depth: whatever rebalancing is left undone, it is not
\* more than the weights say.
Balanced == Cardinality(Depths[entry]) = 1

\* What is retired is what has been removed from the tree, no less and no more,
\* and "nodes are finalized precisely when they are removed from the tree".
RetiredIsRemoved ==
    /\ retired = DOMAIN heap \ Linked
    /\ \A n \in DOMAIN heap : heap[n].leaf \/ (heap[n].marked <=> n \in retired)

\* A fix function that has located its node has a grandparent to change: a node
\* with a violation is never the root, and does not become it.
HasGrandparent ==
    \A t \in Thread : todo[t] # <<>> /\ pos[t] # Nowhere /\ Located(t) => pos[t].gp # NULL

\* The violation of the given kind at a node below the root.  A node of weight 0 has
\* two children, which may be less than a; it goes when its weight is fixed.
Violates(n, kind) == CASE kind = "weight" -> ~heap[n].weight
                       [] kind = "degree" -> heap[n].weight /\ getABDegree(heap[n]) < a

Inner == Linked \ {entry, heap[entry].ptrs[1]}

\* Each violation in the tree is some thread's to fix: responsibility that is
\* handed off with a removed node arrives at the thread that removed it.  The
\* exception is a degree violation that was given up.
ViolationsOwned ==
    \A n \in Inner, kind \in {"weight", "degree"} :
        Violates(n, kind) =>
            \/ \E t \in Thread : \E i \in DOMAIN todo[t] :
                  todo[t][i].kind = kind /\ todo[t][i].viol = n
            \/ kind = "degree" /\ n \in givenUp

\* Every operation behaves as if it acted on a dictionary at one moment, and
\* rebalancing does not change what the tree holds.
Dict == INSTANCE Dictionary WITH dict <- Contents

KeepsDictionary == Dict!Spec
=============================================================================
