------------------------ MODULE ReclaimerPacerProofs ------------------------
(***************************************************************************)
(* Proofs about the C++ reclaimer for any number of threads, any set of    *)
(* records, any block size and any limit.                                  *)
(***************************************************************************)
EXTENDS ReclaimerPacer, SharedLemmas

USE NAssumption, LimitAssumption DEF Tid

---------------------------------------------------------------------------
(* Facts about the operators *)

\* The hysteresis classifier returns a mode.
LEMMA ModeType == ASSUME NEW spi \in Spi, NEW prev \in Mode
                  PROVE  pacer_select_mode_hyst(spi, prev) \in Mode
BY DEF pacer_select_mode_hyst, Mode, Spi, Hysteresis, WriteHeavy, SnapHeavy

\* hold_ticks stays below the limit: the valve opens at HoldLimit.
LEMMA TicksType == ASSUME NEW mode \in Mode, NEW ticks \in 0 .. HoldLimit - 1
                   PROVE  TicksAfter(mode, ticks) \in 0 .. HoldLimit - 1
BY DEF TicksAfter

\* blockbag add puts one record into the bag and moves none out of it.
LEMMA BagAddRecords == ASSUME NEW bag \in BlockBag, NEW n \in Node
                       PROVE  /\ BagAdd(bag, n) \in BlockBag
                              /\ Records(BagAdd(bag, n)) = Records(bag) \cup {n}
<1> DEFINE block == (bag.head \cap OfType(n)) \cup {n}
<1>1. /\ bag.full \subseteq Node /\ bag.head \subseteq Node
      /\ block \subseteq bag.head \cup {n} /\ n \in block
  BY DEF BlockBag
<1> HIDE DEF block
<1>2. CASE Cardinality(block) = BlockSize
  <2>1. BagAdd(bag, n) = [full |-> bag.full \cup block, head |-> bag.head \ block]
    BY <1>2 DEF BagAdd, block
  <2> QED BY <1>1, <2>1 DEF Records, BlockBag
<1>3. CASE Cardinality(block) # BlockSize
  <2>1. BagAdd(bag, n) = [full |-> bag.full, head |-> bag.head \cup {n}]
    BY <1>3 DEF BagAdd, block
  <2> QED BY <1>1, <2>1 DEF Records, BlockBag
<1> QED BY <1>2, <1>3

\* A record added to a blockbag is either in a full block or in the head block.
LEMMA BagAddDisjoint ==
    ASSUME NEW bag \in BlockBag, NEW n \in Node, n \notin Records(bag),
           \A m \in bag.full : m \notin bag.head
    PROVE  \A m \in BagAdd(bag, n).full : m \notin BagAdd(bag, n).head
<1> DEFINE block == (bag.head \cap OfType(n)) \cup {n}
<1>1. block \subseteq bag.head \cup {n}
  OBVIOUS
<1>2. CASE Cardinality(block) = BlockSize
  <2>1. BagAdd(bag, n) = [full |-> bag.full \cup block, head |-> bag.head \ block]
    BY <1>2 DEF BagAdd
  <2> QED BY <1>1, <2>1 DEF Records
<1>3. CASE Cardinality(block) # BlockSize
  <2>1. BagAdd(bag, n) = [full |-> bag.full, head |-> bag.head \cup {n}]
    BY <1>3 DEF BagAdd
  <2> QED BY <2>1 DEF Records
<1> QED BY <1>2, <1>3

\* The neighbour in the ring, without the remainder.
LEMMA NextTidLinear == ASSUME NEW t \in Tid
                       PROVE  /\ NextTid(t) \in Tid
                              /\ NextTid(t) = IF t = N - 1 THEN 0 ELSE t + 1
BY DEF NextTid

---------------------------------------------------------------------------
(* Type correctness *)

LEMMA InitType == Init => TypeOK
BY NodeAssumption DEF Init, TypeOK, BlockBag, EmptyBag, Spi, Mode, Pc

LEMMA NextType == TypeOK /\ [Next]_vars => TypeOK'
<1> SUFFICES ASSUME TypeOK, [Next]_vars PROVE TypeOK'
  OBVIOUS
<1>1. CASE UNCHANGED vars
  BY <1>1 DEF TypeOK, vars, bags, pacing, client
<1>2. ASSUME NEW t \in Tid, Step(t) PROVE TypeOK'
  <2> USE DEF TypeOK, Goto, Pc
  <2>1. CASE InitThread(t)
    BY <2>1 DEF InitThread, bags, pacing, client
  <2>2. CASE StartOp(t)
    BY <2>2 DEF StartOp, bags, pacing, client
  <2>3. CASE ClearToken(t)
    BY <2>3 DEF ClearToken, bags, pacing, client
  <2>4. CASE PassToken(t)
    BY <2>4, NextTidLinear DEF PassToken, bags, pacing, client
  <2>5. CASE Rotate(t)
    BY <2>5, SpiAssumption DEF Rotate, RotateBags, BlockBag, client
  <2>6. CASE Drain(t)
    <3>1. pacer_select_mode_hyst(spi_ema[t], gc_mode[t]) \in Mode
      BY ModeType
    <3>2. TicksAfter(pacer_select_mode_hyst(spi_ema[t], gc_mode[t]), hold_ticks[t])
            \in 0 .. HoldLimit - 1
      BY <3>1, TicksType
    <3> QED BY <2>6, <3>1, <3>2 DEF Drain
  <2>7. ASSUME NEW old \in SUBSET tree \ {{}}, NEW new \in SUBSET pool, Scx(t, old, new)
        PROVE  TypeOK'
    BY <2>7 DEF Scx, bags, pacing
  <2>8. ASSUME NEW n \in unlinked[t], Retire(t, n) PROVE TypeOK'
    <3>1. BagAdd(curr[t], n) \in BlockBag
      BY BagAddRecords
    <3> QED BY <2>8, <3>1 DEF Retire, pacing
  <2>9. CASE EndOp(t)
    BY <2>9 DEF EndOp, bags, pacing
  <2>10. CASE DeinitThread(t)
    BY <2>10 DEF DeinitThread, pacing, client, Records, BlockBag, EmptyBag
  <2> QED BY <1>2, <2>1, <2>2, <2>3, <2>4, <2>5, <2>6, <2>7, <2>8, <2>9, <2>10 DEF Step
<1> QED BY <1>1, <1>2 DEF Next

\* Every variable keeps its type; in particular hold_ticks is reset by the
\* safety valve before it reaches PACER_HOLD_LIMIT.
THEOREM TypeCorrect == Spec => []TypeOK
BY InitType, NextType, PTL DEF Spec

---------------------------------------------------------------------------
(* The token *)

\* TokenUnique is not inductive by itself: that a thread between the two
\* stores of startOp has really cleared its own token has to go with it.
TokenInv == /\ TokenUnique
            /\ \A t \in Tid : /\ pc[t] = "clear" => token[t] = 1
                              /\ pc[t] = "pass" => token[t] = 0

LEMMA InitToken == Init => TokenInv
BY DEF Init, TokenInv, TokenUnique, Holds

LEMMA NextToken == TypeOK /\ TokenInv /\ [Next]_vars => TokenInv'
<1> SUFFICES ASSUME TypeOK, TokenInv, [Next]_vars PROVE TokenInv'
  OBVIOUS
<1> USE DEF TypeOK, TokenInv, TokenUnique, Holds, Goto
<1>1. CASE UNCHANGED vars
  BY <1>1 DEF vars, bags, pacing, client
<1>2. ASSUME NEW t \in Tid, Step(t) PROVE TokenInv'
  <2>1. CASE InitThread(t)
    BY <2>1 DEF InitThread
  <2>2. CASE StartOp(t)
    BY <2>2 DEF StartOp
  <2>3. CASE ClearToken(t)
    BY <2>3 DEF ClearToken
  <2>4. CASE PassToken(t)
    <3>1. PICK h \in Tid : h = NextTid(t)
      BY NextTidLinear
    <3>2. /\ pc[t] = "pass" /\ pc' = [pc EXCEPT ![t] = "rotate"]
          /\ token' = [token EXCEPT ![h] = 1]
      BY <2>4, <3>1 DEF PassToken
    <3>3. \A u \in Tid : u # t => token[u] = 0 /\ pc[u] # "pass"
      BY <3>2
    <3>4. \A u \in Tid : pc'[u] # "pass" /\ (token'[u] = 1 <=> u = h)
      BY <3>2, <3>3
    <3>5. TokenUnique'
      BY <3>4
    <3>6. \A u \in Tid : pc'[u] = "clear" => token'[u] = 1
      BY <3>2
    <3> QED BY <3>4, <3>5, <3>6
  <2>5. CASE Rotate(t)
    BY <2>5 DEF Rotate
  <2>6. CASE Drain(t)
    BY <2>6 DEF Drain
  <2>7. ASSUME NEW old \in SUBSET tree \ {{}}, NEW new \in SUBSET pool, Scx(t, old, new)
        PROVE  TokenInv'
    BY <2>7 DEF Scx
  <2>8. ASSUME NEW n \in unlinked[t], Retire(t, n) PROVE TokenInv'
    BY <2>8 DEF Retire
  <2>9. CASE EndOp(t)
    BY <2>9 DEF EndOp
  <2>10. CASE DeinitThread(t)
    BY <2>10 DEF DeinitThread
  <2> QED BY <1>2, <2>1, <2>2, <2>3, <2>4, <2>5, <2>6, <2>7, <2>8, <2>9, <2>10 DEF Step
<1> QED BY <1>1, <1>2 DEF Next

\* However the token stores of the threads' startOps interleave, there is never
\* a second token and the token is never lost.
THEOREM OneToken == Spec => []TokenUnique
<1>1. TokenInv => TokenUnique
  BY DEF TokenInv
<1> QED BY <1>1, InitToken, NextToken, TypeCorrect, PTL DEF Spec

---------------------------------------------------------------------------
(* Every record is in one place *)

\* No record is in two places: tree, pool, and for each thread its three bags
\* and what it has still to retire.
PlaceInv ==
    /\ \A n \in tree : n \notin pool
    /\ \A t \in Tid : \A n \in Owned(t) : n \notin tree /\ n \notin pool
    /\ \A t, u \in Tid : t # u => \A n \in Owned(t) : n \notin Owned(u)
    /\ \A t \in Tid : /\ \A n \in unlinked[t] : n \notin Limbo(t)
                      /\ \A n \in freeables[t] : /\ n \notin Records(curr[t])
                                                /\ n \notin Records(last[t])
                      /\ \A n \in Records(curr[t]) : n \notin Records(last[t])
                      /\ \A n \in curr[t].full : n \notin curr[t].head
                      /\ \A n \in last[t].full : n \notin last[t].head

LEMMA InitPlace == Init => PlaceInv
BY NodeAssumption DEF Init, PlaceInv, Owned, Limbo, Records, EmptyBag

LEMMA NextPlace == TypeOK /\ PlaceInv /\ [Next]_vars => PlaceInv'
<1> SUFFICES ASSUME TypeOK, PlaceInv, [Next]_vars PROVE PlaceInv'
  OBVIOUS
<1> USE DEF TypeOK, PlaceInv, Owned, Limbo, Goto
<1>1. CASE UNCHANGED vars
  BY <1>1 DEF vars, bags, pacing, client
<1>2. ASSUME NEW t \in Tid, Step(t) PROVE PlaceInv'
  <2>1. CASE InitThread(t)
    BY <2>1 DEF InitThread, bags, client
  <2>2. CASE StartOp(t)
    BY <2>2 DEF StartOp, bags, client
  <2>3. CASE ClearToken(t)
    BY <2>3 DEF ClearToken, bags, client
  <2>4. CASE PassToken(t)
    BY <2>4 DEF PassToken, bags, client
  <2>5. CASE Rotate(t)
    BY <2>5 DEF Rotate, RotateBags, Records, BlockBag, client
  <2>6. CASE Drain(t)
    BY <2>6 DEF Drain
  <2>7. ASSUME NEW old \in SUBSET tree \ {{}}, NEW new \in SUBSET pool, Scx(t, old, new)
        PROVE  PlaceInv'
    BY <2>7 DEF Scx, bags
  <2>8. ASSUME NEW n \in unlinked[t], Retire(t, n) PROVE PlaceInv'
    <3> DEFINE bag == BagAdd(curr[t], n)
    <3>1. /\ Records(bag) = Records(curr[t]) \cup {n}
          /\ \A m \in bag.full : m \notin bag.head
      BY BagAddRecords, BagAddDisjoint DEF Records
    <3>2. /\ unlinked' = [unlinked EXCEPT ![t] = @ \ {n}]
          /\ curr' = [curr EXCEPT ![t] = bag]
          /\ UNCHANGED <<last, freeables, pool, tree>>
      BY <2>8 DEF Retire
    <3> HIDE DEF bag
    <3>3. \A u \in Tid : u # t => /\ curr'[u] = curr[u] /\ last'[u] = last[u]
                                  /\ freeables'[u] = freeables[u]
                                  /\ unlinked'[u] = unlinked[u]
      BY <3>2
    <3>4. /\ curr'[t] = bag /\ last'[t] = last[t] /\ freeables'[t] = freeables[t]
          /\ unlinked'[t] = unlinked[t] \ {n}
      BY <3>2
    <3>5. \A u \in Tid : Owned(u)' = Owned(u)
      BY <3>1, <3>3, <3>4
    <3>6. \A u \in Tid : /\ \A m \in unlinked'[u] : m \notin Limbo(u)'
                         /\ \A m \in freeables'[u] : /\ m \notin Records(curr'[u])
                                                     /\ m \notin Records(last'[u])
                         /\ \A m \in Records(curr'[u]) : m \notin Records(last'[u])
                         /\ \A m \in curr'[u].full : m \notin curr'[u].head
                         /\ \A m \in last'[u].full : m \notin last'[u].head
      <4> SUFFICES ASSUME NEW u \in Tid
                   PROVE  /\ \A m \in unlinked'[u] : m \notin Limbo(u)'
                          /\ \A m \in freeables'[u] : /\ m \notin Records(curr'[u])
                                                      /\ m \notin Records(last'[u])
                          /\ \A m \in Records(curr'[u]) : m \notin Records(last'[u])
                          /\ \A m \in curr'[u].full : m \notin curr'[u].head
                          /\ \A m \in last'[u].full : m \notin last'[u].head
        OBVIOUS
      <4>1. CASE u = t
        BY <3>1, <3>4, <4>1
      <4>2. CASE u # t
        BY <3>3, <4>2
      <4> QED BY <4>1, <4>2
    <3> HIDE DEF Owned
    <3> QED BY <3>2, <3>5, <3>6
  <2>9. CASE EndOp(t)
    BY <2>9 DEF EndOp, bags
  <2>10. CASE DeinitThread(t)
    BY <2>10 DEF DeinitThread, client, Records, BlockBag, EmptyBag
  <2> QED BY <1>2, <2>1, <2>2, <2>3, <2>4, <2>5, <2>6, <2>7, <2>8, <2>9, <2>10 DEF Step
<1> QED BY <1>1, <1>2 DEF Next

---------------------------------------------------------------------------
(* The grace period *)

\* A thread dereferences records only inside a tree operation.
IdleInv == \A t \in Tid : pc[t] # "op" => reach[t] = {}

LEMMA InitIdle == Init => IdleInv
BY DEF Init, IdleInv

LEMMA NextIdle == TypeOK /\ IdleInv /\ [Next]_vars => IdleInv'
<1> SUFFICES ASSUME TypeOK, IdleInv, [Next]_vars PROVE IdleInv'
  OBVIOUS
<1> USE DEF TypeOK, IdleInv, Goto
<1>1. CASE UNCHANGED vars
  BY <1>1 DEF vars, client
<1>2. ASSUME NEW t \in Tid, Step(t) PROVE IdleInv'
  <2>1. CASE InitThread(t) \/ StartOp(t) \/ ClearToken(t) \/ PassToken(t)
    BY <2>1 DEF InitThread, StartOp, ClearToken, PassToken, client
  <2>2. CASE Rotate(t) \/ DeinitThread(t)
    BY <2>2 DEF Rotate, DeinitThread, client
  <2>3. CASE Drain(t)
    BY <2>3 DEF Drain
  <2>4. ASSUME NEW old \in SUBSET tree \ {{}}, NEW new \in SUBSET pool, Scx(t, old, new)
        PROVE  IdleInv'
    BY <2>4 DEF Scx
  <2>5. ASSUME NEW n \in unlinked[t], Retire(t, n) PROVE IdleInv'
    BY <2>5 DEF Retire
  <2>6. CASE EndOp(t)
    BY <2>6 DEF EndOp
  <2> QED BY <1>2, <2>1, <2>2, <2>3, <2>4, <2>5, <2>6 DEF Step
<1> QED BY <1>1, <1>2 DEF Next

\* A pass of the token takes one thread, the one that passes it, out of every
\* stretch of the ring that is still before it.
LEMMA DistStep == ASSUME NEW h \in Tid, NEW t \in Tid, NEW u \in Tid, u # h,
                         h = t \/ Dist(h, u) < Dist(h, t)
                  PROVE  Dist(NextTid(h), u) < Dist(NextTid(h), t)
BY NextTidLinear DEF Dist

\* The inductive invariant.
SafeInv == TypeOK /\ TokenInv /\ PlaceInv /\ IdleInv /\ GraceInv /\ NoUseAfterFree

LEMMA InitSafe == Init => SafeInv
<1>1. Init => GraceInv /\ NoUseAfterFree
  BY DEF Init, GraceInv, NoUseAfterFree
<1> QED BY <1>1, InitType, InitToken, InitPlace, InitIdle DEF SafeInv

LEMMA NextGrace == SafeInv /\ [Next]_vars => GraceInv' /\ NoUseAfterFree'
<1> SUFFICES ASSUME SafeInv, [Next]_vars PROVE GraceInv' /\ NoUseAfterFree'
  OBVIOUS
<1> USE DEF SafeInv, TypeOK, GraceInv, NoUseAfterFree, Goto
<1>1. CASE UNCHANGED vars
  BY <1>1 DEF vars, bags, client, Closed, Holds
<1>2. ASSUME NEW t \in Tid, Step(t) PROVE GraceInv' /\ NoUseAfterFree'
  \* Steps that change no bag and no reach, and leave the token where it is.
  <2>1. CASE InitThread(t) \/ StartOp(t) \/ ClearToken(t)
    <3>1. UNCHANGED <<curr, last, freeables, pool, tree, reach>>
      BY <2>1 DEF InitThread, StartOp, ClearToken, bags, client
    <3>2. \A u \in Tid : /\ pc'[u] = "rotate" <=> pc[u] = "rotate"
                         /\ Holds(u)' => Holds(u)
      BY <2>1 DEF InitThread, StartOp, ClearToken, Holds, TokenInv
    <3>3. \A u \in Tid : Closed(u)' = Closed(u)
      BY <3>1, <3>2 DEF Closed
    <3> QED BY <3>1, <3>2, <3>3
  <2>2. CASE PassToken(t)
    <3>1. /\ pc[t] = "pass" /\ pc' = [pc EXCEPT ![t] = "rotate"]
          /\ token' = [token EXCEPT ![NextTid(t)] = 1]
          /\ UNCHANGED <<curr, last, freeables, pool, tree, reach>>
      BY <2>2 DEF PassToken, bags, client
    <3>2. Holds(t) /\ \A u \in Tid : Holds(u)' => u = NextTid(t)
      BY <3>1, NextTidLinear DEF Holds, TokenInv, TokenUnique
    <3>3. reach[t] = {}
      BY <3>1 DEF IdleInv
    <3>4. \A u \in Tid : Records(last[t]) \cap reach[u] = {}
      <4> SUFFICES ASSUME NEW u \in Tid, NEW n \in Records(last[t]) \cap reach[u]
                   PROVE FALSE
        OBVIOUS
      <4>1. n \in Closed(t) \cap reach[u]
        BY <3>1 DEF Closed
      <4>2. Dist(t, u) < Dist(t, t)
        BY <3>2, <4>1
      <4> QED BY <4>2 DEF Dist
    <3>5. ASSUME NEW h \in Tid, NEW w \in Tid, NEW u \in Tid,
                 NEW n \in Closed(w)' \cap reach'[u], Holds(h)'
          PROVE  Dist(h, u) < Dist(h, w)
      <4>1. h = NextTid(t) /\ n \in reach[u]
        BY <3>1, <3>2, <3>5
      <4>2. u # t
        BY <4>1, <3>3
      <4>3. CASE w = t
        BY <4>1, <4>2, <4>3, DistStep
      <4>4. CASE w # t
        <5>1. n \in Closed(w) \cap reach[u]
          BY <3>1, <3>5, <4>1, <4>4 DEF Closed
        <5>2. Dist(t, u) < Dist(t, w)
          BY <3>2, <5>1
        <5> QED BY <4>1, <4>2, <5>2, DistStep
      <4> QED BY <4>3, <4>4
    <3> QED BY <3>1, <3>4, <3>5
  <2>3. CASE Rotate(t)
    <3>1. /\ pc[t] = "rotate" /\ pc' = [pc EXCEPT ![t] = "drain"]
          /\ freeables' = [freeables EXCEPT ![t] = @ \cup last[t].full]
          /\ last' = [last EXCEPT ![t] = curr[t]]
          /\ curr' = [curr EXCEPT ![t] = [full |-> {}, head |-> last[t].head]]
          /\ UNCHANGED <<token, pool, tree, reach>>
      BY <2>3 DEF Rotate, RotateBags, client
    <3>2. \A u \in Tid : Holds(u)' => Holds(u)
      BY <3>1 DEF Holds
    <3>3. \A u \in Tid : Closed(u)' = Closed(u)
      BY <3>1 DEF Closed
    <3>4. \A u \in Tid : last[t].full \cap reach[u] = {}
      BY <3>1 DEF Records
    <3> QED BY <3>1, <3>2, <3>3, <3>4
  <2>4. CASE Drain(t)
    <3>1. PICK S \in SUBSET (freeables[t] \cap FirstType) :
              /\ freeables' = [freeables EXCEPT ![t] = @ \ S]
              /\ pool' = pool \cup S
      BY <2>4 DEF Drain
    <3>2. /\ pc[t] = "drain" /\ pc' = [pc EXCEPT ![t] = "op"]
          /\ reach' = [reach EXCEPT ![t] = tree]
          /\ UNCHANGED <<token, curr, last, tree>>
      BY <2>4 DEF Drain
    <3>3. \A u \in Tid : (Holds(u)' => Holds(u)) /\ Closed(u)' = Closed(u)
      BY <3>2 DEF Holds, Closed
    <3>4. \A u \in Tid : /\ tree \cap Closed(u) = {} /\ tree \cap Records(last[u]) = {}
                         /\ tree \cap freeables[u] = {}
      BY DEF PlaceInv, Owned, Limbo, Closed
    <3>5. GraceInv'
      BY <3>1, <3>2, <3>3, <3>4
    <3>6. NoUseAfterFree'
      BY <3>1, <3>2, <3>4
    <3> QED BY <3>5, <3>6
  <2>5. ASSUME NEW old \in SUBSET tree \ {{}}, NEW new \in SUBSET pool, Scx(t, old, new)
        PROVE  GraceInv' /\ NoUseAfterFree'
    <3>1. /\ tree' = (tree \ old) \cup new
          /\ pool' = pool \ new
          /\ reach' = [u \in Tid |-> IF pc[u] = "op" THEN reach[u] \cup new
                                                     ELSE reach[u]]
          /\ UNCHANGED <<token, curr, last, freeables, pc>>
      BY <2>5 DEF Scx, bags
    <3>2. \A u \in Tid : (Holds(u)' => Holds(u)) /\ Closed(u)' = Closed(u)
      BY <3>1 DEF Holds, Closed
    <3>3. \A u \in Tid : /\ new \cap Closed(u) = {} /\ new \cap Records(last[u]) = {}
                         /\ new \cap freeables[u] = {}
      BY DEF PlaceInv, Owned, Limbo, Closed
    <3>4. GraceInv'
      BY <3>1, <3>2, <3>3
    <3>5. NoUseAfterFree'
      BY <3>1
    <3> QED BY <3>4, <3>5
  <2>6. ASSUME NEW n \in unlinked[t], Retire(t, n)
        PROVE  GraceInv' /\ NoUseAfterFree'
    <3>1. /\ pc[t] = "op" /\ curr' = [curr EXCEPT ![t] = BagAdd(@, n)]
          /\ UNCHANGED <<token, last, freeables, pool, pc, tree, reach>>
      BY <2>6 DEF Retire
    <3>2. \A u \in Tid : (Holds(u)' => Holds(u)) /\ Closed(u)' = Closed(u)
      BY <3>1 DEF Holds, Closed
    <3> QED BY <3>1, <3>2
  <2>7. CASE EndOp(t)
    <3>1. /\ pc[t] = "op" /\ pc' = [pc EXCEPT ![t] = "idle"]
          /\ reach' = [reach EXCEPT ![t] = {}]
          /\ UNCHANGED <<token, curr, last, freeables, pool, tree>>
      BY <2>7 DEF EndOp, bags
    <3>2. \A u \in Tid : (Holds(u)' => Holds(u)) /\ Closed(u)' = Closed(u)
      BY <3>1 DEF Holds, Closed
    <3> QED BY <3>1, <3>2
  <2>8. CASE DeinitThread(t)
    <3>1. \A u \in Tid : reach'[u] = {}
      BY <2>8 DEF DeinitThread, client, IdleInv
    <3>2. tree' = tree /\ pool' = pool \cup Limbo(t)
      BY <2>8 DEF DeinitThread, client, Limbo
    <3>3. tree \cap Limbo(t) = {}
      BY DEF PlaceInv, Owned
    <3> QED BY <3>1, <3>2, <3>3
  <2> QED BY <1>2, <2>1, <2>2, <2>3, <2>4, <2>5, <2>6, <2>7, <2>8 DEF Step
<1> QED BY <1>1, <1>2 DEF Next

LEMMA NextSafe == SafeInv /\ [Next]_vars => SafeInv'
BY NextType, NextToken, NextPlace, NextIdle, NextGrace DEF SafeInv

\* The inductive invariant holds throughout.
THEOREM Safe == Spec => []SafeInv
BY InitSafe, NextSafe, PTL DEF Spec

\* A record of a closed bag is within reach only of threads the token still has
\* to visit: what the comment on rotateEpochBags says of `last`.
THEOREM GracePeriod == Spec => []GraceInv
<1>1. SafeInv => GraceInv
  BY DEF SafeInv
<1> QED BY <1>1, Safe, PTL

\* No record handed to the pool is within reach of an operation in progress,
\* with any number of threads and however their steps interleave.
THEOREM FreedIsUnreachable == Spec => []NoUseAfterFree
<1>1. SafeInv => NoUseAfterFree
  BY DEF SafeInv
<1> QED BY <1>1, Safe, PTL

---------------------------------------------------------------------------
(* The reclaimer implements SafeReclamation *)

AllOwned == UNION {Owned(t) : t \in Tid}

InOp == {t \in Tid : pc[t] = "op"}

LEMMA InitRefines == Init => Promise!Init
BY DEF Init, Promise!Init, Owned, Limbo, Records, EmptyBag

\* A step that leaves each thread's owned records alone, or moves some out of
\* (or into) one thread's, changes limbo accordingly.
LEMMA OwnedSame == ASSUME \A u \in Tid : Owned(u)' = Owned(u)
                   PROVE  AllOwned' = AllOwned
BY DEF AllOwned

LEMMA OwnedLess ==
    ASSUME NEW t \in Tid, NEW S,
           \A u \in Tid : u # t => Owned(u)' = Owned(u) /\ Owned(u) \cap S = {},
           Owned(t)' = Owned(t) \ S, S \subseteq Owned(t)
    PROVE  AllOwned' = AllOwned \ S /\ S \subseteq AllOwned
<1>1. \A x : x \in AllOwned <=> \E u \in Tid : x \in Owned(u)
  BY DEF AllOwned
<1>2. \A x : x \in AllOwned' <=> \E u \in Tid : x \in Owned(u)'
  BY DEF AllOwned
<1>3. S \subseteq AllOwned
  BY <1>1
<1>4. ASSUME NEW x \in AllOwned' PROVE x \in AllOwned \ S
  <2>1. PICK u \in Tid : x \in Owned(u)'
    BY <1>2, <1>4
  <2>2. x \in Owned(u) \ S
    BY <2>1
  <2> QED BY <1>1, <2>2
<1>5. ASSUME NEW x \in AllOwned \ S PROVE x \in AllOwned'
  <2>1. PICK u \in Tid : x \in Owned(u)
    BY <1>1, <1>5
  <2>2. x \in Owned(u)'
    BY <1>5, <2>1
  <2> QED BY <1>2, <2>2
<1> QED BY <1>3, <1>4, <1>5

LEMMA NextRefines == SafeInv /\ [Next]_vars => [Promise!Next]_(Promise!vars)
<1> SUFFICES ASSUME SafeInv, [Next]_vars PROVE [Promise!Next]_(Promise!vars)
  OBVIOUS
<1> USE DEF SafeInv, TypeOK, Goto
<1>0. ASSUME UNCHANGED <<tree, pool, reach, AllOwned, InOp>>
      PROVE  UNCHANGED Promise!vars
  BY <1>0 DEF Promise!vars, AllOwned, InOp
<1>1. CASE UNCHANGED vars
  <2>1. \A u \in Tid : Owned(u)' = Owned(u)
    BY <1>1 DEF vars, bags, client, Owned, Limbo
  <2>2. UNCHANGED <<tree, pool, reach, AllOwned, InOp>>
    BY <1>1, <2>1, OwnedSame DEF vars, client, InOp
  <2> QED BY <1>0, <2>2
<1>2. ASSUME NEW t \in Tid, Step(t) PROVE [Promise!Next]_(Promise!vars)
  <2>1. CASE InitThread(t) \/ StartOp(t) \/ ClearToken(t) \/ PassToken(t)
    <3>1. /\ UNCHANGED <<curr, last, freeables, unlinked, tree, pool, reach>>
          /\ pc[t] # "op" /\ \E to \in Pc : to # "op" /\ pc' = [pc EXCEPT ![t] = to]
      BY <2>1 DEF InitThread, StartOp, ClearToken, PassToken, bags, client, Pc
    <3>2. \A u \in Tid : Owned(u)' = Owned(u)
      BY <3>1 DEF Owned, Limbo
    <3>3. InOp' = InOp
      BY <3>1 DEF InOp
    <3> QED BY <1>0, <3>1, <3>2, <3>3, OwnedSame
  <2>2. CASE Rotate(t)
    <3>1. /\ pc[t] = "rotate" /\ pc' = [pc EXCEPT ![t] = "drain"]
          /\ freeables' = [freeables EXCEPT ![t] = @ \cup last[t].full]
          /\ last' = [last EXCEPT ![t] = curr[t]]
          /\ curr' = [curr EXCEPT ![t] = [full |-> {}, head |-> last[t].head]]
          /\ UNCHANGED <<unlinked, pool, tree, reach>>
      BY <2>2 DEF Rotate, RotateBags, client
    <3>2. \A u \in Tid : Owned(u)' = Owned(u)
      BY <3>1 DEF Owned, Limbo, Records
    <3>3. InOp' = InOp
      BY <3>1 DEF InOp
    <3> QED BY <1>0, <3>1, <3>2, <3>3, OwnedSame
  <2>3. CASE Drain(t)
    <3>1. PICK S \in SUBSET (freeables[t] \cap FirstType) :
              /\ freeables' = [freeables EXCEPT ![t] = @ \ S]
              /\ pool' = pool \cup S
      BY <2>3 DEF Drain
    <3>2. /\ pc[t] = "drain" /\ pc' = [pc EXCEPT ![t] = "op"]
          /\ reach' = [reach EXCEPT ![t] = tree]
          /\ UNCHANGED <<curr, last, unlinked, tree>>
      BY <2>3 DEF Drain
    <3>3. \A u \in Tid : u # t => Owned(u)' = Owned(u) /\ Owned(u) \cap S = {}
      BY <3>1, <3>2 DEF Owned, Limbo, PlaceInv
    <3>4. Owned(t)' = Owned(t) \ S /\ S \subseteq Owned(t)
      BY <3>1, <3>2 DEF Owned, Limbo, PlaceInv
    <3>5. AllOwned' = AllOwned \ S /\ S \subseteq AllOwned
      BY <3>3, <3>4, OwnedLess
    <3>6. InOp' = InOp \cup {t} /\ t \notin InOp
      BY <3>2 DEF InOp
    <3>7. \A u \in Tid : reach[u] \cap S = {}
      BY <3>1 DEF GraceInv
    <3>8. Promise!Begin(t, S)
      BY <3>1, <3>2, <3>5, <3>6, <3>7
         DEF Promise!Begin, Promise!Unreachable, AllOwned, InOp
    <3> QED BY <3>5, <3>8 DEF Promise!Next, AllOwned
  <2>4. ASSUME NEW old \in SUBSET tree \ {{}}, NEW new \in SUBSET pool, Scx(t, old, new)
        PROVE  [Promise!Next]_(Promise!vars)
    <3>1. /\ pc[t] = "op" /\ unlinked[t] = {}
          /\ tree' = (tree \ old) \cup new
          /\ pool' = pool \ new
          /\ unlinked' = [unlinked EXCEPT ![t] = old]
          /\ reach' = [u \in Tid |-> IF pc[u] = "op" THEN reach[u] \cup new
                                                     ELSE reach[u]]
          /\ UNCHANGED <<curr, last, freeables, pc>>
      BY <2>4 DEF Scx, bags
    <3>2. \A u \in Tid : u # t => Owned(u)' = Owned(u)
      BY <3>1 DEF Owned, Limbo
    <3>3. Owned(t)' = Owned(t) \cup old
      BY <3>1 DEF Owned, Limbo
    <3>4. AllOwned' = AllOwned \cup old
      BY <3>2, <3>3 DEF AllOwned
    <3>5. InOp' = InOp /\ t \in InOp /\ \A u \in Tid : u \in InOp <=> pc[u] = "op"
      BY <3>1 DEF InOp
    <3>6. Promise!Replace(t, old, new)
      BY <3>1, <3>4, <3>5 DEF Promise!Replace, AllOwned, InOp
    <3> QED BY <3>6 DEF Promise!Next
  <2>5. ASSUME NEW n \in unlinked[t], Retire(t, n)
        PROVE  [Promise!Next]_(Promise!vars)
    <3>1. /\ unlinked' = [unlinked EXCEPT ![t] = @ \ {n}]
          /\ curr' = [curr EXCEPT ![t] = BagAdd(@, n)]
          /\ UNCHANGED <<last, freeables, pool, pc, tree, reach>>
      BY <2>5 DEF Retire
    <3>2. Records(BagAdd(curr[t], n)) = Records(curr[t]) \cup {n}
      BY BagAddRecords
    <3>3. \A u \in Tid : Owned(u)' = Owned(u)
      BY <3>1, <3>2 DEF Owned, Limbo
    <3> QED BY <1>0, <3>1, <3>3, OwnedSame DEF InOp
  <2>6. CASE EndOp(t)
    <3>1. /\ pc[t] = "op" /\ pc' = [pc EXCEPT ![t] = "idle"]
          /\ reach' = [reach EXCEPT ![t] = {}]
          /\ UNCHANGED <<curr, last, freeables, unlinked, pool, tree>>
      BY <2>6 DEF EndOp, bags
    <3>2. \A u \in Tid : Owned(u)' = Owned(u)
      BY <3>1 DEF Owned, Limbo
    <3>3. InOp' = InOp \ {t} /\ t \in InOp
      BY <3>1 DEF InOp
    <3>4. Promise!End(t)
      BY <3>1, <3>2, <3>3, OwnedSame DEF Promise!End, AllOwned, InOp
    <3> QED BY <3>4 DEF Promise!Next
  <2>7. CASE DeinitThread(t)
    <3>1. /\ \A u \in Tid : pc[u] \in {"out", "idle"}
          /\ pc' = [pc EXCEPT ![t] = "out"]
          /\ pool' = pool \cup Limbo(t)
          /\ curr' = [curr EXCEPT ![t] = EmptyBag]
          /\ last' = [last EXCEPT ![t] = EmptyBag]
          /\ freeables' = [freeables EXCEPT ![t] = {}]
          /\ UNCHANGED <<tree, unlinked, reach>>
      BY <2>7 DEF DeinitThread, client, Limbo
    <3>2. \A u \in Tid : u # t => Owned(u)' = Owned(u) /\ Owned(u) \cap Limbo(t) = {}
      BY <3>1 DEF Owned, Limbo, PlaceInv
    <3>3. Owned(t)' = Owned(t) \ Limbo(t) /\ Limbo(t) \subseteq Owned(t)
      <4>1. Owned(t)' = unlinked[t]
        BY <3>1 DEF Owned, Limbo, Records, EmptyBag
      <4>2. Owned(t) \ Limbo(t) = unlinked[t]
        BY DEF Owned, PlaceInv
      <4> QED BY <4>1, <4>2 DEF Owned
    <3>4. AllOwned' = AllOwned \ Limbo(t) /\ Limbo(t) \subseteq AllOwned
      BY <3>2, <3>3, OwnedLess
    <3>5. InOp' = InOp
      BY <3>1 DEF InOp
    <3>6. \A u \in Tid : reach[u] = {}
      BY <3>1 DEF IdleInv
    <3>7. Promise!Free(Limbo(t))
      BY <3>1, <3>4, <3>5, <3>6 DEF Promise!Free, Promise!Unreachable, AllOwned, InOp
    <3> QED BY <3>4, <3>7 DEF Promise!Next, AllOwned
  <2> QED BY <1>2, <2>1, <2>2, <2>3, <2>4, <2>5, <2>6, <2>7 DEF Step
<1> QED BY <1>1, <1>2 DEF Next

\* Every behaviour of the reclaimer is one of SafeReclamation: records are freed
\* only by startOp and deinitThread, and only when out of everybody's reach.
THEOREM Refines == Spec => KeepsPromise
<1>1. SafeInv /\ [Next]_vars => [Promise!Next]_(Promise!vars)
  BY NextRefines
<1> QED BY <1>1, InitRefines, Safe, PTL DEF Spec, KeepsPromise, Promise!Spec

\* No record is in two bags, or in a bag and in the tree or the pool: none can
\* be retired twice, rotated into two places or freed twice.
THEOREM OnePlace == Spec => []PlaceInv
<1>1. SafeInv => PlaceInv
  BY DEF SafeInv
<1> QED BY <1>1, Safe, PTL

---------------------------------------------------------------------------
(* No record is lost *)

\* Every record is somewhere.
CoverInv == \A n \in Node : n \in tree \/ n \in pool \/ \E t \in Tid : n \in Owned(t)

LEMMA InitCover == Init => CoverInv
BY DEF Init, CoverInv

LEMMA NextCover == TypeOK /\ CoverInv /\ [Next]_vars => CoverInv'
<1> SUFFICES ASSUME TypeOK, CoverInv, [Next]_vars PROVE CoverInv'
  OBVIOUS
<1> USE DEF TypeOK, Goto
<1>0. ASSUME \A n \in tree \cup pool : n \in tree' \/ n \in pool' \/ \E u \in Tid : n \in Owned(u)',
             \A u \in Tid : \A n \in Owned(u) : n \in pool' \/ n \in Owned(u)'
      PROVE  CoverInv'
  BY <1>0 DEF CoverInv
<1>1. CASE UNCHANGED <<tree, pool, bags, unlinked>>
  BY <1>0, <1>1 DEF bags, Owned, Limbo
<1>2. CASE UNCHANGED vars
  BY <1>1, <1>2 DEF vars, client
<1>3. ASSUME NEW t \in Tid, Step(t) PROVE CoverInv'
  <2>1. CASE InitThread(t) \/ StartOp(t) \/ ClearToken(t) \/ PassToken(t) \/ EndOp(t)
    BY <1>1, <2>1 DEF InitThread, StartOp, ClearToken, PassToken, EndOp, client
  <2>2. CASE Rotate(t)
    <3>1. /\ freeables' = [freeables EXCEPT ![t] = @ \cup last[t].full]
          /\ last' = [last EXCEPT ![t] = curr[t]]
          /\ curr' = [curr EXCEPT ![t] = [full |-> {}, head |-> last[t].head]]
          /\ UNCHANGED <<unlinked, pool, tree>>
      BY <2>2 DEF Rotate, RotateBags, client
    <3>2. \A u \in Tid : Owned(u)' = Owned(u)
      BY <3>1 DEF Owned, Limbo, Records
    <3> QED BY <1>0, <3>1, <3>2
  <2>3. CASE Drain(t)
    <3>1. PICK S \in SUBSET (freeables[t] \cap FirstType) :
              /\ freeables' = [freeables EXCEPT ![t] = @ \ S]
              /\ pool' = pool \cup S
      BY <2>3 DEF Drain
    <3>2. UNCHANGED <<curr, last, unlinked, tree>>
      BY <2>3 DEF Drain
    <3>3. \A u \in Tid : \A n \in Owned(u) : n \in pool' \/ n \in Owned(u)'
      BY <3>1, <3>2 DEF Owned, Limbo
    <3> QED BY <1>0, <3>1, <3>2, <3>3
  <2>4. ASSUME NEW old \in SUBSET tree \ {{}}, NEW new \in SUBSET pool, Scx(t, old, new)
        PROVE  CoverInv'
    <3>1. /\ unlinked[t] = {}
          /\ tree' = (tree \ old) \cup new
          /\ pool' = pool \ new
          /\ unlinked' = [unlinked EXCEPT ![t] = old]
          /\ UNCHANGED <<curr, last, freeables>>
      BY <2>4 DEF Scx, bags
    <3>2. old \subseteq Owned(t)'
      BY <3>1 DEF Owned
    <3>3. \A u \in Tid : \A n \in Owned(u) : n \in Owned(u)'
      BY <3>1 DEF Owned, Limbo
    <3> QED BY <1>0, <3>1, <3>2, <3>3
  <2>5. ASSUME NEW n \in unlinked[t], Retire(t, n) PROVE CoverInv'
    <3>1. /\ unlinked' = [unlinked EXCEPT ![t] = @ \ {n}]
          /\ curr' = [curr EXCEPT ![t] = BagAdd(@, n)]
          /\ UNCHANGED <<last, freeables, pool, tree>>
      BY <2>5 DEF Retire
    <3>2. Records(BagAdd(curr[t], n)) = Records(curr[t]) \cup {n}
      BY BagAddRecords
    <3>3. \A u \in Tid : Owned(u)' = Owned(u)
      BY <3>1, <3>2 DEF Owned, Limbo
    <3> QED BY <1>0, <3>1, <3>3
  <2>6. CASE DeinitThread(t)
    <3>1. /\ pool' = pool \cup Limbo(t)
          /\ curr' = [curr EXCEPT ![t] = EmptyBag]
          /\ last' = [last EXCEPT ![t] = EmptyBag]
          /\ freeables' = [freeables EXCEPT ![t] = {}]
          /\ UNCHANGED <<tree, unlinked>>
      BY <2>6 DEF DeinitThread, client, Limbo
    <3>2. \A u \in Tid : \A n \in Owned(u) : n \in pool' \/ n \in Owned(u)'
      BY <3>1 DEF Owned, Limbo
    <3> QED BY <1>0, <3>1, <3>2
  <2> QED BY <1>3, <2>1, <2>2, <2>3, <2>4, <2>5, <2>6 DEF Step
<1> QED BY <1>2, <1>3 DEF Next

\* The sizes that getSizeInNodes adds up for a thread are those of one set.
LEMMA LimboSize ==
    ASSUME TypeOK, PlaceInv, NEW t \in Tid
    PROVE  IsFiniteSet(Limbo(t)) /\ BagSizes[t] = Cardinality(Limbo(t))
<1> DEFINE a == curr[t].full
           b == curr[t].head
           c == last[t].full
           d == last[t].head
           e == freeables[t]
<1>1. IsFiniteSet(a) /\ IsFiniteSet(b) /\ IsFiniteSet(c) /\ IsFiniteSet(d) /\ IsFiniteSet(e)
  <2>1. /\ a \subseteq Node /\ b \subseteq Node /\ c \subseteq Node
        /\ d \subseteq Node /\ e \subseteq Node
    BY DEF TypeOK, BlockBag
  <2> HIDE DEF a, b, c, d, e
  <2> QED BY <2>1, NodeAssumption, FS_Subset
<1>2. /\ a \cap b = {} /\ (a \cup b) \cap c = {} /\ (a \cup b \cup c) \cap d = {}
      /\ (a \cup b \cup c \cup d) \cap e = {}
  BY DEF PlaceInv, Records
<1>3. /\ BagSizes[t] = Cardinality(a) + Cardinality(b) + Cardinality(c) + Cardinality(d)
                       + Cardinality(e)
      /\ Limbo(t) = a \cup b \cup c \cup d \cup e
  BY DEF BagSizes, Limbo, Records
<1> HIDE DEF a, b, c, d, e
<1>4. IsFiniteSet(a \cup b) /\ Cardinality(a \cup b) = Cardinality(a) + Cardinality(b)
  BY <1>1, <1>2, DisjointUnion
<1>5. /\ IsFiniteSet(a \cup b \cup c)
      /\ Cardinality(a \cup b \cup c) = Cardinality(a \cup b) + Cardinality(c)
  BY <1>1, <1>2, <1>4, DisjointUnion
<1>6. /\ IsFiniteSet(a \cup b \cup c \cup d)
      /\ Cardinality(a \cup b \cup c \cup d) = Cardinality(a \cup b \cup c) + Cardinality(d)
  BY <1>1, <1>2, <1>5, DisjointUnion
<1>7. /\ IsFiniteSet(a \cup b \cup c \cup d \cup e)
      /\ Cardinality(a \cup b \cup c \cup d \cup e) =
             Cardinality(a \cup b \cup c \cup d) + Cardinality(e)
  BY <1>1, <1>2, <1>6, DisjointUnion
<1> QED BY <1>3, <1>4, <1>5, <1>6, <1>7

\* Each record is counted once: in the tree, in the pool, by getSizeInNodes or
\* among those that a thread has still to retire.
LEMMA Counted == ASSUME TypeOK, PlaceInv, CoverInv PROVE Conservation
<1> DEFINE F == [t \in Tid |-> Limbo(t)]
           L == UNION {F[t] : t \in Tid}
           U == UNION {unlinked[t] : t \in Tid}
<1>0. IsFiniteSet(Tid) /\ IsFiniteSet(Node)
  BY FS_Interval, NodeAssumption
<1>1. /\ \A t \in Tid : IsFiniteSet(F[t]) /\ BagSizes[t] = Cardinality(F[t])
      /\ \A t \in Tid : F[t] = Limbo(t)
  BY LimboSize
<1> HIDE DEF F
<1>2. \A t \in Tid : IsFiniteSet(unlinked[t]) /\ ToRetire[t] = Cardinality(unlinked[t])
  BY <1>0, FS_Subset DEF TypeOK, ToRetire
<1>3. \A t, u \in Tid : t # u => F[t] \cap F[u] = {} /\ unlinked[t] \cap unlinked[u] = {}
  BY <1>1 DEF PlaceInv, Owned
<1>4. BagSizes \in [Tid -> Int] /\ ToRetire \in [Tid -> Int]
  <2>1. \A t \in Tid : BagSizes[t] \in Int /\ ToRetire[t] \in Int
    BY <1>1, <1>2, FS_CardinalityType
  <2> QED BY <2>1 DEF BagSizes, ToRetire
<1>5. IsFiniteSet(L) /\ Cardinality(L) = Sum(BagSizes, Tid)
  BY <1>0, <1>1, <1>3, <1>4, SumOfSizes
<1>6. IsFiniteSet(U) /\ Cardinality(U) = Sum(ToRetire, Tid)
  <2>1. \A t, u \in Tid : t # u => unlinked[t] \cap unlinked[u] = {}
    BY <1>3
  <2>2. ToRetire \in [Tid -> Int]
    BY <1>4
  <2> HIDE DEF PlaceInv, CoverInv
  <2> QED BY <1>0, <1>2, <2>1, <2>2, SumOfSizes
<1>7. \A n : /\ (n \in L <=> \E t \in Tid : n \in Limbo(t))
             /\ (n \in U <=> \E t \in Tid : n \in unlinked[t])
  BY <1>1
<1>8. Node = tree \cup pool \cup UNION {Limbo(t) \cup unlinked[t] : t \in Tid}
  <2>1. \A n \in Node : n \in tree \/ n \in pool \/ \E t \in Tid : n \in Limbo(t) \cup unlinked[t]
    BY DEF CoverInv, Owned
  <2>2. \A t \in Tid : Limbo(t) \cup unlinked[t] \subseteq Node
    BY DEF TypeOK, Limbo, Records, BlockBag
  <2>3. tree \subseteq Node /\ pool \subseteq Node
    BY DEF TypeOK
  <2> QED BY <2>1, <2>2, <2>3
<1> HIDE DEF L, U
<1>9. tree \cap pool = {} /\ (tree \cup pool) \cap L = {} /\ (tree \cup pool \cup L) \cap U = {}
  <2>1. \A t \in Tid : Limbo(t) \cap (tree \cup pool) = {} /\ unlinked[t] \cap (tree \cup pool) = {}
    BY DEF PlaceInv, Owned
  <2>2. ASSUME NEW t \in Tid, NEW u \in Tid PROVE Limbo(t) \cap unlinked[u] = {}
    <3>1. CASE t = u
      BY <3>1 DEF PlaceInv
    <3>2. CASE t # u
      BY <3>2 DEF PlaceInv, Owned
    <3> QED BY <3>1, <3>2
  <2>3. tree \cap pool = {}
    BY DEF PlaceInv
  <2> QED BY <1>7, <2>1, <2>2, <2>3
<1>10. Node = tree \cup pool \cup L \cup U
  BY <1>7, <1>8
<1>11. IsFiniteSet(tree) /\ IsFiniteSet(pool)
  BY <1>0, FS_Subset DEF TypeOK
<1>12. /\ IsFiniteSet(tree \cup pool)
       /\ Cardinality(tree \cup pool) = Cardinality(tree) + Cardinality(pool)
  BY <1>9, <1>11, DisjointUnion
<1>13. /\ IsFiniteSet(tree \cup pool \cup L)
       /\ Cardinality(tree \cup pool \cup L) = Cardinality(tree \cup pool) + Cardinality(L)
  BY <1>5, <1>9, <1>12, DisjointUnion
<1>14. Cardinality(tree \cup pool \cup L \cup U) =
           Cardinality(tree \cup pool \cup L) + Cardinality(U)
  BY <1>6, <1>9, <1>13, DisjointUnion
<1>15. Cardinality(Node) = Cardinality(tree) + Cardinality(pool)
                           + Sum(BagSizes, Tid) + Sum(ToRetire, Tid)
  BY <1>5, <1>6, <1>10, <1>12, <1>13, <1>14
<1> QED BY <1>8, <1>15 DEF Conservation, getSizeInNodes, Sum

\* Rotating, draining and retiring only move records: none is lost, and the sum
\* of getSizeInNodes has each record in limbo once.
THEOREM Conserved == Spec => []Conservation
<1>1. SafeInv => TypeOK /\ PlaceInv
  BY DEF SafeInv
<1>2. TypeOK /\ PlaceInv /\ CoverInv => Conservation
  BY Counted
<1>3. TypeOK /\ CoverInv /\ [Next]_vars => CoverInv'
  BY NextCover
<1> QED BY <1>1, <1>2, <1>3, InitCover, Safe, PTL DEF Spec
=============================================================================
