--------------------------- MODULE ReclaimerPacer ---------------------------
(***************************************************************************)
(* The C++ reclaimer of pacer/reclaimer_pacer.h: token-ring epoch          *)
(* reclamation with SPI-gated draining.  Every startOp of the thread that  *)
(* holds the token passes the token on and rotates that thread's bags;     *)
(* every startOp then frees a few nodes whose grace period is over.        *)
(*                                                                         *)
(* One action per shared-memory access of startOp (reading td.token,       *)
(* clearing it, setting the neighbour's), and one for each stretch of      *)
(* thread-local work between them.  The tree that calls the reclaimer is   *)
(* there as its SCXs, each followed by a retire of every node it removed.  *)
(*                                                                         *)
(* A thread has one reclaimer object, hence one set of bags, per record    *)
(* type.  Here a node carries its type and a thread's bags of all types    *)
(* are one bag, split by the type of its nodes where the code looks at     *)
(* one type only.                                                          *)
(***************************************************************************)
EXTENDS GcMode, FiniteSets, FiniteSetsExt

CONSTANTS N,          \* NUM_PROCESSES
          Node,       \* the records
          InitTree,   \* the records linked in the tree at the start
          FirstType,  \* the records of the first record type of the manager
          BlockSize,  \* the records a block of a blockbag holds
          HoldLimit,  \* PACER_HOLD_LIMIT
          SpiSample,  \* the values a resampled spi_ema may take
          Exiting     \* whether threads deinitialise (and initialise again)

ASSUME NAssumption == N \in Nat \ {0}
ASSUME NodeAssumption == /\ InitTree \subseteq Node /\ FirstType \subseteq Node
                         /\ IsFiniteSet(Node)
ASSUME LimitAssumption == BlockSize \in Nat \ {0} /\ HoldLimit \in Nat \ {0}
ASSUME SpiAssumption == SpiSample \subseteq Spi
ASSUME ExitingAssumption == Exiting \in BOOLEAN

Tid == 0 .. N - 1

\* The thread after t in the ring.
NextTid(t) == (t + 1) % N

VARIABLES
    token,      \* td.token
    curr,       \* td.curr, the bag retire adds to
    last,       \* td.last, the bag closed at the previous rotation
    freeables,  \* td.deamortizedFreeables
    spi_ema,    \* td.spi_ema
    hold_ticks, \* td.hold_ticks
    gc_mode,    \* td.gc_mode
    pool,       \* records handed to pool->add (and not allocated again)
    pc,         \* where the thread is
    tree,       \* records linked in the tree
    unlinked,   \* unlinked[t]: removed by t's last SCX, not retired yet
    reach       \* reach[t]: records t's operation may dereference

bags == <<curr, last, freeables>>
pacing == <<spi_ema, hold_ticks, gc_mode>>
client == <<tree, unlinked, reach>>
vars == <<token, bags, pacing, pool, pc, client>>

---------------------------------------------------------------------------
(* blockbag: full blocks, and a head block that is never full *)

BlockBag == [full : SUBSET Node, head : SUBSET Node]

EmptyBag == [full |-> {}, head |-> {}]

Records(bag) == bag.full \cup bag.head

OfType(n) == IF n \in FirstType THEN FirstType ELSE Node \ FirstType

BagAdd(bag, n) ==
    LET block == (bag.head \cap OfType(n)) \cup {n}
    IN  IF Cardinality(block) = BlockSize
        THEN [full |-> bag.full \cup block, head |-> bag.head \ block]
        ELSE [full |-> bag.full, head |-> bag.head \cup {n}]

---------------------------------------------------------------------------
(* Where a thread is: not initialised; between operations; about to clear  *)
(* its token, to pass it, to rotate, to drain; inside a tree operation.    *)

Pc == {"out", "idle", "clear", "pass", "rotate", "drain", "op"}

Goto(t, from, to) == pc[t] = from /\ pc' = [pc EXCEPT ![t] = to]

Init == /\ token = [t \in Tid |-> IF t = 0 THEN 1 ELSE 0]
        /\ curr = [t \in Tid |-> EmptyBag]
        /\ last = [t \in Tid |-> EmptyBag]
        /\ freeables = [t \in Tid |-> {}]
        /\ spi_ema = [t \in Tid |-> 0]
        /\ hold_ticks = [t \in Tid |-> 0]
        /\ gc_mode = [t \in Tid |-> "AggressiveEbr"]
        /\ pool = Node \ InitTree
        /\ pc = [t \in Tid |-> "out"]
        /\ tree = InitTree
        /\ unlinked = [t \in Tid |-> {}]
        /\ reach = [t \in Tid |-> {}]

InitThread(t) == /\ Goto(t, "out", "idle")
                 /\ UNCHANGED <<token, bags, pacing, pool, client>>

---------------------------------------------------------------------------
(* startOp *)

\* The test of td.token.
StartOp(t) == /\ Goto(t, "idle", IF token[t] = 1 THEN "clear" ELSE "drain")
              /\ UNCHANGED <<token, bags, pacing, pool, client>>

\* Faulty: td.token = 0 is missing.
ClearToken_Kept(t) == /\ Goto(t, "clear", "pass")
                      /\ UNCHANGED <<token, bags, pacing, pool, client>>

ClearToken(t) == /\ Goto(t, "clear", "pass")
                 /\ token' = [token EXCEPT ![t] = 0]
                 /\ UNCHANGED <<bags, pacing, pool, client>>

\* Faulty: the ring is not closed, the last thread drops the token.
PassToken_NoWrap(t) == /\ Goto(t, "pass", "rotate")
                       /\ token' = [u \in Tid |-> IF u = t + 1 THEN 1 ELSE token[u]]
                       /\ UNCHANGED <<bags, pacing, pool, client>>

PassToken(t) == /\ Goto(t, "pass", "rotate")
                /\ token' = [token EXCEPT ![NextTid(t)] = 1]
                /\ UNCHANGED <<bags, pacing, pool, client>>

\* Faulty: the variant the comment on rotateEpochBags tells of; the bag that
\* has just been closed is the one whose records become freeable.
RotateBags_JustClosed(t) ==
    /\ freeables' = [freeables EXCEPT ![t] = @ \cup curr[t].full]
    /\ last' = [last EXCEPT ![t] = [full |-> {}, head |-> curr[t].head]]
    /\ curr' = [curr EXCEPT ![t] = last[t]]

\* Faulty: the full blocks are copied where they should be moved.
RotateBags_Copy(t) ==
    /\ freeables' = [freeables EXCEPT ![t] = @ \cup last[t].full]
    /\ last' = [last EXCEPT ![t] = curr[t]]
    /\ curr' = [curr EXCEPT ![t] = last[t]]

\* Faulty: curr and last are not exchanged.
RotateBags_NoSwap(t) ==
    /\ freeables' = [freeables EXCEPT ![t] = @ \cup last[t].full]
    /\ last' = [last EXCEPT ![t] = [full |-> {}, head |-> last[t].head]]
    /\ UNCHANGED curr

\* rotateEpochBags for every record type.
RotateBags(t) ==
    /\ freeables' = [freeables EXCEPT ![t] = @ \cup last[t].full]
    /\ last' = [last EXCEPT ![t] = curr[t]]
    /\ curr' = [curr EXCEPT ![t] = [full |-> {}, head |-> last[t].head]]

\* The resampling of spi_ema (startOp has counted at least one operation, so
\* the window is never empty) and the rotation.
Rotate(t) == /\ Goto(t, "rotate", "drain")
             /\ \E spi \in SpiSample : spi_ema' = [spi_ema EXCEPT ![t] = spi]
             /\ RotateBags(t)
             /\ UNCHANGED <<token, hold_ticks, gc_mode, pool, client>>

\* Faulty: the safety valve of ConservativeHold never opens.
DrainBudget_NoValve(mode, ticks) == IF mode # "ConservativeHold" THEN 1 ELSE 0

\* Faulty: hold_ticks is not reset when the valve opens.
TicksAfter_NoReset(mode, ticks) ==
    IF mode = "ConservativeHold" THEN ticks + 1 ELSE 0

\* How many records startOp frees, and hold_ticks after it.
DrainBudget(mode, ticks) ==
    IF mode # "ConservativeHold" THEN 1
    ELSE IF ticks + 1 >= HoldLimit THEN HoldLimit ELSE 0

TicksAfter(mode, ticks) ==
    IF mode = "ConservativeHold" /\ ticks + 1 < HoldLimit THEN ticks + 1 ELSE 0

\* The rest of startOp: select the mode, free records of the first type up
\* to the budget, and return to the tree, which reads its entry point.
Drain(t) ==
    LET mode == pacer_select_mode_hyst(spi_ema[t], gc_mode[t])
        mine == freeables[t] \cap FirstType
        budget == DrainBudget(mode, hold_ticks[t])
    IN  /\ Goto(t, "drain", "op")
        /\ gc_mode' = [gc_mode EXCEPT ![t] = mode]
        /\ hold_ticks' = [hold_ticks EXCEPT ![t] = TicksAfter(mode, @)]
        /\ \E S \in SUBSET mine :
              /\ S = mine \/ Cardinality(S) = budget
              /\ Cardinality(S) <= budget
              /\ freeables' = [freeables EXCEPT ![t] = @ \ S]
              /\ pool' = pool \cup S
        /\ reach' = [reach EXCEPT ![t] = tree]
        /\ UNCHANGED <<token, curr, last, spi_ema, tree, unlinked>>

---------------------------------------------------------------------------
(* The tree operation *)

\* A successful SCX of t: old is removed from the tree and new, fresh from
\* the allocator, takes its place.  Every operation in progress may come by.
Scx(t, old, new) ==
    /\ pc[t] = "op"
    /\ unlinked[t] = {}
    /\ tree' = (tree \ old) \cup new
    /\ pool' = pool \ new
    /\ unlinked' = [unlinked EXCEPT ![t] = old]
    /\ reach' = [u \in Tid |-> IF pc[u] = "op" THEN reach[u] \cup new
                                               ELSE reach[u]]
    /\ UNCHANGED <<token, bags, pacing, pc>>

Retire(t, n) == /\ pc[t] = "op"
                /\ unlinked' = [unlinked EXCEPT ![t] = @ \ {n}]
                /\ curr' = [curr EXCEPT ![t] = BagAdd(@, n)]
                /\ UNCHANGED <<token, last, freeables, pacing, pool, pc, tree,
                               reach>>

EndOp(t) == /\ Goto(t, "op", "idle")
            /\ unlinked[t] = {}
            /\ reach' = [reach EXCEPT ![t] = {}]
            /\ UNCHANGED <<token, bags, pacing, pool, tree, unlinked>>

\* Faulty: called while other threads' operations are still in progress.
DeinitThread_Unjoined(t) ==
    /\ Exiting
    /\ Goto(t, "idle", "out")
    /\ pool' = pool \cup Records(curr[t]) \cup Records(last[t]) \cup freeables[t]
    /\ curr' = [curr EXCEPT ![t] = EmptyBag]
    /\ last' = [last EXCEPT ![t] = EmptyBag]
    /\ freeables' = [freeables EXCEPT ![t] = {}]
    /\ UNCHANGED <<token, pacing, client>>

\* deinitThread hands all three bags to the pool with no grace period.  Its
\* caller has joined every operation before.
DeinitThread(t) ==
    /\ Exiting
    /\ \A u \in Tid : pc[u] \in {"out", "idle"}
    /\ Goto(t, "idle", "out")
    /\ pool' = pool \cup Records(curr[t]) \cup Records(last[t]) \cup freeables[t]
    /\ curr' = [curr EXCEPT ![t] = EmptyBag]
    /\ last' = [last EXCEPT ![t] = EmptyBag]
    /\ freeables' = [freeables EXCEPT ![t] = {}]
    /\ UNCHANGED <<token, pacing, client>>

---------------------------------------------------------------------------

Step(t) == \/ InitThread(t)
           \/ StartOp(t)
           \/ ClearToken(t)
           \/ PassToken(t)
           \/ Rotate(t)
           \/ Drain(t)
           \/ \E old \in SUBSET tree \ {{}}, new \in SUBSET pool : Scx(t, old, new)
           \/ \E n \in unlinked[t] : Retire(t, n)
           \/ EndOp(t)
           \/ DeinitThread(t)

Next == \E t \in Tid : Step(t)

Spec == Init /\ [][Next]_vars

\* Every thread is scheduled, keeps calling operations, and each of its
\* operations ends (the tree is lock-free: that a given operation ends is an
\* assumption on the schedule, hence strong fairness).
Fairness == \A t \in Tid :
    /\ WF_vars(InitThread(t))
    /\ WF_vars(StartOp(t))
    /\ WF_vars(ClearToken(t))
    /\ WF_vars(PassToken(t))
    /\ WF_vars(Rotate(t))
    /\ WF_vars(Drain(t))
    /\ WF_vars(\E n \in unlinked[t] : Retire(t, n))
    /\ SF_vars(EndOp(t))

FairSpec == Spec /\ Fairness

---------------------------------------------------------------------------
(* Properties *)

TypeOK == /\ token \in [Tid -> {0, 1}]
          /\ curr \in [Tid -> BlockBag]
          /\ last \in [Tid -> BlockBag]
          /\ freeables \in [Tid -> SUBSET Node]
          /\ spi_ema \in [Tid -> Spi]
          /\ hold_ticks \in [Tid -> 0 .. HoldLimit - 1]
          /\ gc_mode \in [Tid -> Mode]
          /\ pool \subseteq Node
          /\ pc \in [Tid -> Pc]
          /\ tree \subseteq Node
          /\ unlinked \in [Tid -> SUBSET Node]
          /\ reach \in [Tid -> SUBSET Node]

\* No record that startOp or deinitThread has handed to pool->add can still be
\* dereferenced by an operation in progress, nor is it linked in the tree.
NoUseAfterFree == /\ tree \cap pool = {}
                  /\ \A t \in Tid : reach[t] \cap pool = {}

\* There is one token: at any time exactly one thread has td.token set or is
\* between clearing its own and setting its neighbour's.
Holds(t) == token[t] = 1 \/ pc[t] = "pass"

TokenUnique == \E t \in Tid : Holds(t) /\ \A u \in Tid : Holds(u) => u = t

\* The records in t's bags.
Limbo(t) == Records(curr[t]) \cup Records(last[t]) \cup freeables[t]

\* The sum that getSizeInNodes adds up over the bags of one thread.
BagSizes == [t \in Tid |-> Cardinality(curr[t].full) + Cardinality(curr[t].head)
                           + Cardinality(last[t].full) + Cardinality(last[t].head)
                           + Cardinality(freeables[t])]

\* getSizeInNodes.
getSizeInNodes == MapThenSumSet(LAMBDA t : BagSizes[t], Tid)

\* How many records each thread has still to retire.
ToRetire == [t \in Tid |-> Cardinality(unlinked[t])]

\* Rotation, draining and retiring only move records: none is lost and none is
\* in two bags, or twice in the sum of getSizeInNodes, so none is freed twice.
Conservation ==
    Cardinality(Node) = Cardinality(tree) + Cardinality(pool) + getSizeInNodes
                        + MapThenSumSet(LAMBDA t : ToRetire[t], Tid)
    /\ Node = tree \cup pool \cup UNION {Limbo(t) \cup unlinked[t] : t \in Tid}

---------------------------------------------------------------------------
(* The argument that the token ring is a grace period.                     *)

\* How many passes bring the token from h to u.
Dist(h, u) == IF u >= h THEN u - h ELSE u - h + N

\* The bag that t's next rotation puts behind the one it makes freeable: last,
\* or, once t has passed the token and is about to rotate, already curr.
Closed(t) == IF pc[t] = "rotate" THEN Records(curr[t]) ELSE Records(last[t])

\* A record of t's closed bag can be dereferenced only by threads that the
\* token reaches before it comes to t: when it has come to t, and t has passed
\* it on and is to rotate, nobody can.
GraceInv == /\ \A h, t, u \in Tid : \A n \in Closed(t) \cap reach[u] :
                   Holds(h) => Dist(h, u) < Dist(h, t)
            /\ \A t, u \in Tid : pc[t] = "rotate" => Records(last[t]) \cap reach[u] = {}
            /\ \A t, u \in Tid : freeables[t] \cap reach[u] = {}

---------------------------------------------------------------------------

\* The records t has taken from the tree and not given to the pool.
Owned(t) == Limbo(t) \cup unlinked[t]

\* The reclaimer keeps the promise of SafeReclamation.
Promise == INSTANCE SafeReclamation
           WITH linked <- tree,
                limbo <- UNION {Owned(t) : t \in Tid},
                free <- pool,
                active <- {t \in Tid : pc[t] = "op"}

KeepsPromise == Promise!Spec

\* The token comes round: every thread rotates its bags again and again.
TokenCirculates == \A t \in Tid : []<>(pc[t] = "rotate")

\* A record retired into a full block becomes freeable, however the rotations
\* of the threads interleave with retires.
Ripens == \A t \in Tid, n \in Node :
             n \in curr[t].full ~> n \in freeables[t] \cup pool

\* K = 1, or the safety valve in ConservativeHold: a thread cannot keep
\* freeable records of the first type for ever without freeing any.
DrainProgress == \A t \in Tid :
    \/ []<>(freeables[t] \cap FirstType = {})
    \/ []<><<freeables[t] \ freeables'[t] # {}>>_vars

\* "a partially-filled head block stays in freeable (which becomes curr) and
\* is freed a rotation later" (reclaimer_pacer.h:129): what is in the head
\* block of last becomes freeable.
HeadBlockFreed == \A t \in Tid, n \in Node :
                     n \in last[t].head ~> n \in freeables[t] \cup pool

\* "Per-op K=1 drain: always runs, guarantees memory is reclaimed"
\* (reclaimer_pacer.h:183), for the records of every type that rotate.
AllTypesReclaimed == \A t \in Tid, n \in Node :
                        n \in freeables[t] ~> n \in pool
=============================================================================
