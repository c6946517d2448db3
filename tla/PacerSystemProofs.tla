-------------------------- MODULE PacerSystemProofs --------------------------
(***************************************************************************)
(* Proofs about the announcement table, the limbo bags and their drains,   *)
(* for any number of threads, any window, hold limit and drain, and any    *)
(* SPI samples.                                                            *)
(***************************************************************************)
EXTENDS PacerSystem, SharedLemmas, FiniteSetTheorems

USE BenchAssumption, WindowAssumption, DrainAssumption, SpiSampleAssumption, EpochAssumption,
    ThreadAssumption, ControlAssumption

---------------------------------------------------------------------------
(* The inductive invariant *)

Pc == {"start", "idle", "snapping", "announce", "snapped", "retire", "tick", "resample",
       "window", "load_epoch", "cas_epoch"}

ControlInv == bench \in Bench /\ pc \in [Thread -> Pc]

Registered == {t \in Thread : pc[t] # "start"}

\* Registered threads have slots of their own, and a slot that is announced
\* belongs to a thread that holds a snapshot.
TableInv == /\ active_count = Cardinality(Registered)
            /\ slot \in [Thread -> Slot]
            /\ \A t \in Registered : slot[t] < active_count
            /\ \A t, u \in Registered : slot[t] = slot[u] => t = u
            /\ snap \in [Thread -> 0 .. MaxEpoch]
            /\ \A t \in Thread : pc[t] = "announce" => snap[t] # 0
            /\ active_ts \in [Slot -> 0 .. MaxEpoch]
            /\ \A s \in Slot : active_ts[s] # 0 =>
                  \E u \in Registered : slot[u] = s /\ pc[u] = "snapped"

\* Each write, and each failure to advance the epoch, has an epoch of its own.
EpochInv == /\ global_epoch \in 1 .. MaxEpoch
            /\ op_counter \in [Thread -> Nat]
            /\ fail_streak \in [Thread -> Nat]
            /\ cur \in [Thread -> Nat]
            /\ \A t \in Thread :
                  /\ op_counter[t] < global_epoch
                  /\ fail_streak[t] < global_epoch
                  /\ pc[t] = "cas_epoch" => cur[t] <= global_epoch /\ fail_streak[t] < cur[t]

Nodes(t) == Elements(limbo[t])

\* A node that is written and not retired yet is younger than its writer's bag,
\* and nobody else has it.
BagInv == /\ limbo \in [Thread -> Seq(1 .. MaxEpoch)]
          /\ birth \in [Thread -> 0 .. MaxEpoch]
          /\ \A t \in Thread : Sorted(limbo[t])
          /\ \A t \in Thread : \A n \in Nodes(t) : n < global_epoch
          /\ \A t, u \in Thread : t # u => Nodes(t) \cap Nodes(u) = {}
          /\ \A t \in Thread : pc[t] = "retire" =>
                /\ birth[t] \in 1 .. MaxEpoch /\ birth[t] < global_epoch
                /\ \A n \in Nodes(t) : n < birth[t]
                /\ \A u \in Thread \ {t} : /\ birth[t] \notin Nodes(u)
                                           /\ pc[u] = "retire" => birth[u] # birth[t]

Scan == [n : 0 .. Cardinality(Thread), i : 0 .. Cardinality(Thread), min : 1 .. MAX]

\* The minimum is not above a pinned slot that the scan has passed, and the
\* scan will pass all pinned slots.
ScanInv == /\ scan \in [Thread -> Scan]
           /\ pinned \in [Thread -> SUBSET Slot]
           /\ \A t \in Thread : scan[t].i <= scan[t].n
           /\ \A t \in Thread : \A s \in pinned[t] :
                 /\ active_ts[s] # 0
                 /\ s < scan[t].n
                 /\ s < scan[t].i => scan[t].min <= active_ts[s]

\* The writes that the drains have seen.
Ticked(t) == IF pc[t] \in {"retire", "tick"} THEN op_counter[t] - 1 ELSE op_counter[t]

\* In ConservativeHold the ticks count the writes modulo HoldLimit, so that none
\* are left at the end of a window.
HoldInv == /\ hold_ticks \in [Thread -> 0 .. HoldLimit - 1]
           /\ gc_mode \in [Thread -> Mode]
           /\ spi_ema \in [Thread -> Spi]
           /\ \A t \in Thread :
                 /\ pc[t] \in {"retire", "tick"} => op_counter[t] > 0
                 /\ pc[t] = "resample" => AtWindow(t)
                 /\ strategy = "PacerDiscrete" =>
                      hold_ticks[t] = IF gc_mode[t] = "ConservativeHold"
                                      THEN Ticked(t) % HoldLimit ELSE 0

\* Without snapshots every node is old enough.
BacklogInv == ~bench.snapshots =>
    /\ \A t \in Thread : pc[t] \notin {"snapping", "announce", "snapped"}
    /\ \A t \in Thread : scan[t].min = MAX
    /\ BacklogBounded

PacerInv == /\ ControlInv /\ TableInv /\ EpochInv /\ BagInv /\ ScanInv /\ HoldInv /\ BacklogInv

---------------------------------------------------------------------------
(* Facts about the model's operators *)

LEMMA ThreadCount == Cardinality(Thread) \in Nat
BY FS_CardinalityType

LEMMA ZeroInSlot == ASSUME NEW t \in Thread PROVE 0 \in Slot
<1>1. Cardinality(Thread) # 0
  BY FS_EmptySet
<1> QED BY <1>1, ThreadCount DEF Slot

LEMMA BenchFields == ASSUME ControlInv
                     PROVE  /\ bench.epochs \in 1 .. MaxEpoch
                            /\ bench.snapshots \in BOOLEAN
                            /\ strategy \in {"PacerDiscrete", "PacerContinuous", "TokenAf",
                                            "BatchEbr"}
BY DEF ControlInv, strategy

\* The steps in which no thread registers, announces or releases.
Quiet(t) == \/ WriteOpPrepare(t) \/ Retire(t) \/ ScanSlot(t) \/ DrainTick(t)
            \/ ReclaimDiscrete(t) \/ ReclaimContinuous(t) \/ DrainWindow(t)
            \/ LoadEpoch(t) \/ CasEpoch(t)

LEMMA QuietFrame ==
    ASSUME NEW t \in Thread, ControlInv, Quiet(t)
    PROVE  /\ UNCHANGED <<active_count, active_ts, slot, snap>>
           /\ pc' \in [Thread -> Pc]
           /\ pc[t] \notin {"start", "snapping", "announce", "snapped"}
           /\ pc'[t] \notin {"start", "snapping", "announce", "snapped"}
           /\ \A u \in Thread : u # t => pc'[u] = pc[u]
<1> USE DEF ControlInv, table, snapvars, Pc, Goto
<1>1. CASE WriteOpPrepare(t)
  BY <1>1 DEF WriteOpPrepare, Advance, Clock!Advance
<1>2. CASE Retire(t)
  BY <1>2 DEF Retire, ScanBegin
<1>3. CASE ScanSlot(t)
  BY <1>3 DEF ScanSlot
<1>4. CASE DrainTick(t)
  BY <1>4 DEF DrainTick
<1>5. CASE ReclaimDiscrete(t)
  BY <1>5 DEF ReclaimDiscrete
<1>6. CASE ReclaimContinuous(t)
  BY <1>6 DEF ReclaimContinuous, ScanBegin
<1>7. CASE DrainWindow(t)
  BY <1>7 DEF DrainWindow
<1>8. CASE LoadEpoch(t)
  BY <1>8 DEF LoadEpoch
<1>9. CASE CasEpoch(t)
  BY <1>9 DEF CasEpoch, Advance, Clock!Advance
<1> QED BY <1>1, <1>2, <1>3, <1>4, <1>5, <1>6, <1>7, <1>8, <1>9 DEF Quiet

---------------------------------------------------------------------------
(* Each part is preserved *)

LEMMA InitPacerInv == Init => PacerInv
<1> SUFFICES ASSUME Init PROVE PacerInv
  OBVIOUS
<1> USE DEF Init, Clock!Init, EmptyTable, FreshThreads
<1>1. ControlInv
  BY DEF ControlInv, Pc
<1>2. TableInv
  <2>1. Registered = {}
    BY DEF Registered
  <2>2. slot \in [Thread -> Slot]
    BY ZeroInSlot
  <2> QED BY <2>1, <2>2, FS_EmptySet DEF TableInv
<1>3. EpochInv
  BY DEF EpochInv
<1>4. BagInv
  <2>1. \A t \in Thread : limbo[t] = <<>> /\ Nodes(t) = {} /\ Sorted(limbo[t])
    BY EmptyElements DEF Nodes
  <2>2. limbo \in [Thread -> Seq(1 .. MaxEpoch)] /\ birth \in [Thread -> 0 .. MaxEpoch]
    OBVIOUS
  <2> QED BY <2>1, <2>2 DEF BagInv
<1>5. ScanInv
  BY ThreadCount DEF ScanInv, Scan, NoScan, MAX
<1>6. HoldInv
  BY DEF HoldInv, Mode, Spi, Ticked
<1>7. BacklogInv
  BY DEF BacklogInv, BacklogBounded, NoScan
<1> QED BY <1>1, <1>2, <1>3, <1>4, <1>5, <1>6, <1>7 DEF PacerInv

LEMMA NextControl == ASSUME PacerInv, NEW t \in Thread, Step(t) PROVE ControlInv'
<1>0. ControlInv
  BY DEF PacerInv
<1>1. CASE Quiet(t)
  <2>1. pc' \in [Thread -> Pc]
    BY <1>0, <1>1, QuietFrame
  <2>2. bench' = bench
    BY <1>1 DEF Quiet, WriteOpPrepare, Retire, ScanSlot, DrainTick, ReclaimDiscrete,
                ReclaimContinuous, DrainWindow, LoadEpoch, CasEpoch
  <2> QED BY <1>0, <2>1, <2>2 DEF ControlInv
<1>2. CASE Register(t) \/ CallSnapshot(t) \/ Announce(t) \/ Release(t)
  BY <1>0, <1>2 DEF ControlInv, Pc, Goto, Register, CallSnapshot, Announce, Release
<1>3. ASSUME NEW ts \in 1 .. MaxEpoch, AnswerSnapshot(t, ts) PROVE ControlInv'
  BY <1>0, <1>3 DEF ControlInv, Pc, Goto, AnswerSnapshot
<1> QED BY <1>1, <1>2, <1>3 DEF Step, Quiet

LEMMA NextTable == ASSUME PacerInv, NEW t \in Thread, Step(t) PROVE TableInv'
<1>0. ControlInv /\ TableInv /\ pc \in [Thread -> Pc]
  BY DEF PacerInv, ControlInv
<1>1. CASE Quiet(t)
  <2>1. /\ UNCHANGED <<active_count, active_ts, slot, snap>>
        /\ pc[t] \notin {"start", "snapping", "announce", "snapped"}
        /\ pc'[t] \notin {"start", "snapping", "announce", "snapped"}
        /\ \A u \in Thread : u # t => pc'[u] = pc[u]
    BY <1>0, <1>1, QuietFrame
  <2>2. Registered' = Registered
    BY <2>1 DEF Registered
  <2>3. \A u \in Thread : /\ pc'[u] = "announce" <=> pc[u] = "announce"
                          /\ pc'[u] = "snapped" <=> pc[u] = "snapped"
    BY <2>1
  <2>4. Registered \subseteq Thread
    BY DEF Registered
  <2> QED BY <1>0, <2>1, <2>2, <2>3, <2>4 DEF TableInv
<1>2. CASE Register(t)
  <2>1. /\ pc[t] = "start" /\ pc' = [pc EXCEPT ![t] = "idle"]
        /\ slot' = [slot EXCEPT ![t] = active_count]
        /\ active_count' = active_count + 1
        /\ UNCHANGED <<active_ts, snap>>
    BY <1>2 DEF Register, Goto, snapvars
  <2>2. Registered' = Registered \cup {t} /\ t \notin Registered
    BY <1>0, <2>1 DEF Registered
  <2>3. IsFiniteSet(Registered)
    BY FS_Subset DEF Registered
  <2>4. Cardinality(Registered') = Cardinality(Registered) + 1 /\ Cardinality(Registered) \in Nat
    BY <2>2, <2>3, FS_AddElement, FS_CardinalityType
  <2>5. Cardinality(Registered') <= Cardinality(Thread)
    <3>1. Registered' \subseteq Thread
      BY DEF Registered
    <3> QED BY <3>1, FS_Subset
  <2>6. active_count \in Slot
    BY <1>0, <2>4, <2>5, ThreadCount DEF TableInv, Slot
  <2>7. /\ active_count' = Cardinality(Registered')
        /\ slot' \in [Thread -> Slot]
    BY <1>0, <2>1, <2>4, <2>6 DEF TableInv
  <2>8. \A u \in Registered : /\ u # t /\ slot'[u] = slot[u] /\ slot[u] < active_count
                              /\ pc'[u] = pc[u]
    BY <1>0, <2>1, <2>2 DEF TableInv, Registered
  <2>9. active_count \in Nat /\ slot'[t] = active_count /\ \A u \in Registered : slot[u] \in Nat
    BY <1>0, <2>1, <2>4 DEF TableInv, Slot, Registered
  <2>10. \A u \in Registered' : slot'[u] < active_count'
    BY <2>1, <2>2, <2>8, <2>9
  <2>11. \A u, v \in Registered' : slot'[u] = slot'[v] => u = v
    BY <1>0, <2>2, <2>8, <2>9 DEF TableInv
  <2>12. \A s \in Slot : active_ts'[s] # 0 =>
            \E u \in Registered' : slot'[u] = s /\ pc'[u] = "snapped"
    BY <1>0, <2>1, <2>2, <2>8 DEF TableInv
  <2>13. \A u \in Thread : pc'[u] = "announce" => snap'[u] # 0
    BY <1>0, <2>1 DEF TableInv
  <2> QED BY <1>0, <2>1, <2>7, <2>10, <2>11, <2>12, <2>13 DEF TableInv
<1>3. CASE CallSnapshot(t)
  <2>1. /\ pc[t] = "idle" /\ pc' = [pc EXCEPT ![t] = "snapping"]
        /\ UNCHANGED <<active_count, active_ts, slot, snap>>
    BY <1>3 DEF CallSnapshot, Goto, table, Clock!Call
  <2>2. Registered' = Registered
    BY <1>0, <2>1 DEF Registered
  <2> QED BY <1>0, <2>1, <2>2 DEF TableInv
<1>4. ASSUME NEW ts \in 1 .. MaxEpoch, AnswerSnapshot(t, ts) PROVE TableInv'
  <2>1. /\ pc[t] = "snapping" /\ pc' = [pc EXCEPT ![t] = "announce"]
        /\ snap' = [snap EXCEPT ![t] = ts]
        /\ UNCHANGED <<active_count, active_ts, slot>>
    BY <1>4 DEF AnswerSnapshot, Goto, table, Clock!Answer
  <2>2. Registered' = Registered
    BY <1>0, <2>1 DEF Registered
  <2> QED BY <1>0, <2>1, <2>2 DEF TableInv
<1>5. CASE Announce(t)
  <2>1. /\ pc[t] = "announce" /\ pc' = [pc EXCEPT ![t] = "snapped"]
        /\ active_ts' = [active_ts EXCEPT ![slot[t]] = snap[t]]
        /\ UNCHANGED <<active_count, slot, snap>>
    BY <1>5 DEF Announce, Goto, snapvars
  <2>2. Registered' = Registered /\ t \in Registered
    BY <1>0, <2>1 DEF Registered
  <2> QED BY <1>0, <2>1, <2>2 DEF TableInv
<1>6. CASE Release(t)
  <2>1. /\ pc[t] = "snapped" /\ pc' = [pc EXCEPT ![t] = "idle"]
        /\ active_ts' = [active_ts EXCEPT ![slot[t]] = 0]
        /\ snap' = [snap EXCEPT ![t] = 0]
        /\ UNCHANGED <<active_count, slot>>
    BY <1>6 DEF Release, Goto, Clock!Release
  <2>2. Registered' = Registered /\ t \in Registered
    BY <1>0, <2>1 DEF Registered
  <2> QED BY <1>0, <2>1, <2>2 DEF TableInv
<1> QED BY <1>1, <1>2, <1>3, <1>4, <1>5, <1>6 DEF Step, Quiet

LEMMA NextEpoch == ASSUME PacerInv, NEW t \in Thread, Step(t) PROVE EpochInv'
<1>0. EpochInv /\ pc \in [Thread -> Pc]
  BY DEF PacerInv, ControlInv
<1>1. CASE WriteOpPrepare(t)
  <2>1. /\ pc' = [pc EXCEPT ![t] = "retire"]
        /\ global_epoch < MaxEpoch /\ global_epoch' = global_epoch + 1
        /\ op_counter' = [op_counter EXCEPT ![t] = @ + 1]
        /\ UNCHANGED <<fail_streak, cur>>
    BY <1>1 DEF WriteOpPrepare, Goto, Advance, Clock!Advance
  <2> QED BY <1>0, <2>1 DEF EpochInv
<1>2. CASE LoadEpoch(t)
  <2>1. /\ pc' = [pc EXCEPT ![t] = "cas_epoch"]
        /\ cur' = [cur EXCEPT ![t] = global_epoch]
        /\ UNCHANGED <<global_epoch, op_counter, fail_streak>>
    BY <1>2 DEF LoadEpoch, Goto, pacing
  <2> QED BY <1>0, <2>1 DEF EpochInv
<1>3. CASE CasEpoch(t)
  <2>1. /\ pc[t] = "cas_epoch" /\ pc' = [pc EXCEPT ![t] = "idle"]
        /\ cur' = [cur EXCEPT ![t] = 0]
        /\ op_counter' = op_counter
    BY <1>3 DEF CasEpoch, Goto
  <2>2. CASE /\ global_epoch < MaxEpoch /\ global_epoch' = global_epoch + 1
             /\ fail_streak' = [fail_streak EXCEPT ![t] = 0]
    BY <1>0, <2>1, <2>2 DEF EpochInv
  <2>3. CASE /\ global_epoch # cur[t] /\ global_epoch' = global_epoch
             /\ fail_streak' = [fail_streak EXCEPT ![t] = @ + 1]
    BY <1>0, <2>1, <2>3 DEF EpochInv
  <2> QED BY <1>3, <2>2, <2>3 DEF CasEpoch, Advance, Clock!Advance
<1>4. ASSUME UNCHANGED <<global_epoch, op_counter, fail_streak, cur>>,
             \A u \in Thread : pc'[u] = "cas_epoch" => pc[u] = "cas_epoch"
      PROVE  EpochInv'
  BY <1>0, <1>4 DEF EpochInv
<1>5. CASE Register(t) \/ CallSnapshot(t) \/ Announce(t) \/ Release(t)
  BY <1>0, <1>4, <1>5 DEF Register, CallSnapshot, Announce, Release, Goto, pacing, Clock!Call,
                          Clock!Release
<1>6. ASSUME NEW ts \in 1 .. MaxEpoch, AnswerSnapshot(t, ts) PROVE EpochInv'
  BY <1>0, <1>4, <1>6 DEF AnswerSnapshot, Goto, pacing, Clock!Answer
<1>7. CASE Retire(t) \/ ScanSlot(t) \/ ReclaimContinuous(t)
  BY <1>0, <1>4, <1>7 DEF Retire, ScanSlot, ReclaimContinuous, ScanBegin, pacing
<1>8. CASE DrainTick(t) \/ DrainWindow(t)
  BY <1>0, <1>4, <1>8 DEF DrainTick, DrainWindow, Goto, pacing
<1>9. CASE ReclaimDiscrete(t)
  BY <1>0, <1>4, <1>9 DEF ReclaimDiscrete, Goto, pacing
<1> QED BY <1>1, <1>2, <1>3, <1>5, <1>6, <1>7, <1>8, <1>9 DEF Step

LEMMA BudgetNat ==
    ASSUME PacerInv, NEW t \in Thread
    PROVE  TickBudget(t) \in Nat
<1>1. limbo[t] \in Seq(1 .. MaxEpoch)
  BY DEF PacerInv, BagInv
<1>2. Len(limbo[t]) \in Nat
  BY <1>1, LenProperties
<1>3. strategy \in {"PacerDiscrete", "PacerContinuous", "TokenAf", "BatchEbr"}
  BY BenchFields DEF PacerInv
<1>4. gc_mode[t] \in Mode
  BY DEF PacerInv, HoldInv
<1> QED BY <1>2, <1>3, <1>4 DEF TickBudget, AF_BATCH_K, CONTINUOUS_DRAIN_PER_OP, Mode

LEMMA BatchNat ==
    ASSUME NEW spi \in Spi, NEW delta \in {0} \cup SpiSample
    PROVE  compute_batch_k(spi, delta) \in Nat
<1>1. spi \in Int /\ delta \in Int
  BY SMT DEF Spi
<1> DEFINE f == IF delta > 50 THEN 2000 - delta ELSE 2000
           q == MaxBatch * (1000 - spi) * f
<1>2. q \in Int
  BY SMT, <1>1
<1>3. compute_batch_k(spi, delta) = Larger(1, q \div 2000000)
  BY SMT DEF compute_batch_k
<1> HIDE DEF q
<1>4. q \div 2000000 \in Int
  BY SMT, <1>2
<1> QED BY SMT, <1>3, <1>4 DEF Larger

\* A drain leaves the bag sorted, and what it takes out is older than safe_ts.
LEMMA DrainKeeps ==
    ASSUME BagInv, NEW t \in Thread, NEW safe_ts \in Nat, NEW k \in Nat,
           limbo' = [limbo EXCEPT ![t] = Drained(@, safe_ts, k)],
           UNCHANGED <<global_epoch, birth>>,
           \A u \in Thread : pc'[u] = "retire" => pc[u] = "retire"
    PROVE  /\ BagInv'
           /\ \A n \in Nodes(t) : n \notin Nodes(t)' => n < safe_ts
<1> DEFINE rest == Drained(limbo[t], safe_ts, k)
<1>1. limbo[t] \in Seq(1 .. MaxEpoch) /\ Sorted(limbo[t]) /\ MaxEpoch \in Nat
  BY DEF BagInv
<1>2. /\ rest \in Seq(1 .. MaxEpoch)
      /\ Sorted(rest)
      /\ Elements(rest) \subseteq Nodes(t)
      /\ \A x \in Nodes(t) : x \notin Elements(rest) => x < safe_ts
  BY <1>1, DrainKeepsYoung DEF Nodes
<1>3. limbo'[t] = rest /\ \A u \in Thread : u # t => limbo'[u] = limbo[u]
  BY DEF BagInv
<1>4. limbo' \in [Thread -> Seq(1 .. MaxEpoch)]
  BY <1>2 DEF BagInv
<1> HIDE DEF rest
<1>5. \A u \in Thread : Sorted(limbo'[u])
  BY <1>2, <1>3 DEF BagInv
<1>6. Nodes(t)' = Elements(rest) /\ \A u \in Thread : Nodes(u)' \subseteq Nodes(u)
  BY <1>2, <1>3 DEF Nodes
<1>7. BagInv'
  BY <1>4, <1>5, <1>6 DEF BagInv
<1> QED BY <1>2, <1>6, <1>7

LEMMA NodesNat == ASSUME BagInv, NEW t \in Thread PROVE Nodes(t) \subseteq Nat
<1>1. Nodes(t) \subseteq 1 .. MaxEpoch
  BY ElementsType DEF BagInv, Nodes
<1> QED BY <1>1

LEMMA NextBag == ASSUME PacerInv, NEW t \in Thread, Step(t) PROVE BagInv'
<1>0. BagInv /\ EpochInv /\ pc \in [Thread -> Pc]
  BY DEF PacerInv, ControlInv
<1>1. CASE WriteOpPrepare(t)
  <2>1. /\ pc[t] = "idle" /\ pc' = [pc EXCEPT ![t] = "retire"]
        /\ global_epoch' = global_epoch + 1
        /\ birth' = [birth EXCEPT ![t] = global_epoch]
        /\ UNCHANGED limbo
    BY <1>1 DEF WriteOpPrepare, Goto, Advance, Clock!Advance
  <2>2. \A u \in Thread : Nodes(u)' = Nodes(u)
    BY <2>1 DEF Nodes
  <2>3. global_epoch \in 1 .. MaxEpoch /\ \A u \in Thread : Nodes(u) \subseteq Nat
    BY <1>0, NodesNat DEF EpochInv
  <2>4. \A u \in Thread : \A n \in Nodes(u) :
           n < global_epoch /\ n < global_epoch' /\ n # global_epoch
    BY <1>0, <2>1, <2>3 DEF BagInv
  <2>5. \A u \in Thread : u # t => /\ pc'[u] = pc[u] /\ birth'[u] = birth[u]
                                   /\ pc[u] = "retire" => birth[u] < global_epoch'
                                   /\ pc[u] = "retire" => birth[u] # global_epoch
    BY <1>0, <2>1, <2>3 DEF BagInv
  <2>6. birth'[t] = global_epoch /\ global_epoch < global_epoch'
        /\ birth' \in [Thread -> 0 .. MaxEpoch]
    BY <1>0, <2>1, <2>3 DEF BagInv
  <2>7. \A u \in Thread : pc'[u] = "retire" =>
                /\ birth'[u] \in 1 .. MaxEpoch /\ birth'[u] < global_epoch'
                /\ \A n \in Nodes(u) : n < birth'[u]
                /\ \A v \in Thread \ {u} : /\ birth'[u] \notin Nodes(v)
                                           /\ pc'[v] = "retire" => birth'[v] # birth'[u]
    BY <1>0, <2>3, <2>4, <2>5, <2>6 DEF BagInv
  <2> QED BY <1>0, <2>1, <2>2, <2>4, <2>6, <2>7 DEF BagInv
<1>2. CASE Retire(t)
  <2>1. /\ pc[t] = "retire" /\ pc'[t] # "retire"
        /\ \A u \in Thread : u # t => pc'[u] = pc[u]
        /\ limbo' = [limbo EXCEPT ![t] = Append(@, birth[t])]
        /\ birth' = [birth EXCEPT ![t] = 0]
        /\ UNCHANGED global_epoch
    BY <1>0, <1>2 DEF Retire, ScanBegin
  <2> DEFINE b == birth[t]
             new == Append(limbo[t], b)
  <2>2. /\ limbo[t] \in Seq(1 .. MaxEpoch) /\ Sorted(limbo[t]) /\ b \in 1 .. MaxEpoch
        /\ \A x \in Nodes(t) : x < b
        /\ \A u \in Thread : u # t => b \notin Nodes(u)
    BY <1>0, <2>1 DEF BagInv
  <2>3. /\ new \in Seq(1 .. MaxEpoch) /\ Sorted(new)
        /\ Elements(new) = Nodes(t) \cup {b}
    BY <2>2, PushYoungest DEF Nodes
  <2>4. limbo'[t] = new /\ \A u \in Thread : u # t => limbo'[u] = limbo[u]
    BY <1>0, <2>1 DEF BagInv
  <2>5. limbo' \in [Thread -> Seq(1 .. MaxEpoch)] /\ birth' \in [Thread -> 0 .. MaxEpoch]
    BY <1>0, <2>1, <2>3 DEF BagInv
  <2> HIDE DEF b, new
  <2>6. Nodes(t)' = Nodes(t) \cup {b}
    BY <2>3, <2>4 DEF Nodes
  <2>7. \A u \in Thread : u # t => Nodes(u)' = Nodes(u) /\ b \notin Nodes(u)
    BY <2>2, <2>4 DEF Nodes
  <2>8. \A u \in Thread : Sorted(limbo'[u])
    BY <1>0, <2>3, <2>4 DEF BagInv
  <2>9. \A u \in Thread : \A n \in Nodes(u)' : n < global_epoch
    BY <1>0, <2>1, <2>6, <2>7 DEF BagInv, b
  <2>10. ASSUME NEW u \in Thread, NEW v \in Thread, u # v PROVE Nodes(u)' \cap Nodes(v)' = {}
    <3>1. Nodes(u) \cap Nodes(v) = {}
      BY <1>0, <2>10 DEF BagInv
    <3>2. CASE u = t
      BY <2>6, <2>7, <2>10, <3>1, <3>2
    <3>3. CASE v = t
      BY <2>6, <2>7, <2>10, <3>1, <3>3
    <3>4. CASE u # t /\ v # t
      BY <2>7, <3>1, <3>4
    <3> QED BY <3>2, <3>3, <3>4
  <2>11. \A u \in Thread : u # t => birth'[u] = birth[u]
    BY <1>0, <2>1 DEF BagInv
  <2>12. ASSUME NEW u \in Thread, pc'[u] = "retire"
         PROVE  /\ birth'[u] \in 1 .. MaxEpoch /\ birth'[u] < global_epoch
                /\ \A n \in Nodes(u)' : n < birth'[u]
                /\ \A v \in Thread \ {u} : /\ birth'[u] \notin Nodes(v)'
                                           /\ pc'[v] = "retire" => birth'[v] # birth'[u]
    <3>1. u # t /\ pc[u] = "retire" /\ birth'[u] = birth[u]
      BY <2>1, <2>11, <2>12
    <3>2. /\ birth[u] \in 1 .. MaxEpoch /\ birth[u] < global_epoch
          /\ \A n \in Nodes(u) : n < birth[u]
          /\ \A v \in Thread \ {u} : /\ birth[u] \notin Nodes(v)
                                     /\ pc[v] = "retire" => birth[v] # birth[u]
      BY <1>0, <3>1 DEF BagInv
    <3>3. b # birth[u]
      BY <2>1, <3>1, <3>2 DEF b
    <3> QED BY <2>1, <2>6, <2>7, <2>11, <3>1, <3>2, <3>3
  <2> QED BY <2>1, <2>5, <2>8, <2>9, <2>12, <2>10 DEF BagInv
<1>3. CASE DrainTick(t)
  <2>1. scan[t].min \in Nat
    BY DEF PacerInv, ScanInv, Scan, MAX
  <2>2. /\ limbo' = [limbo EXCEPT ![t] = Drained(@, scan[t].min, TickBudget(t))]
        /\ UNCHANGED <<global_epoch, birth>>
        /\ \A u \in Thread : pc'[u] = "retire" => pc[u] = "retire"
    BY <1>0, <1>3 DEF DrainTick, Goto
  <2> QED BY <1>0, <2>1, <2>2, BudgetNat, DrainKeeps
<1>4. CASE DrainWindow(t)
  <2>1. scan[t].min \in Nat /\ spi_ema[t] \in Spi
    BY DEF PacerInv, ScanInv, Scan, MAX, HoldInv
  <2>2. PICK delta \in {0} \cup SpiSample :
             limbo' = [limbo EXCEPT ![t] =
                         Drained(@, scan[t].min, compute_batch_k(spi_ema[t], delta))]
    BY <1>4 DEF DrainWindow
  <2>3. /\ UNCHANGED <<global_epoch, birth>>
        /\ \A u \in Thread : pc'[u] = "retire" => pc[u] = "retire"
    BY <1>0, <1>4 DEF DrainWindow, Goto
  <2>4. compute_batch_k(spi_ema[t], delta) \in Nat
    BY <2>1, BatchNat
  <2> QED BY <1>0, <2>1, <2>2, <2>3, <2>4, DrainKeeps
<1>5. ASSUME UNCHANGED <<limbo, birth>>, global_epoch' \in Nat, global_epoch <= global_epoch',
             \A u \in Thread : pc'[u] = "retire" => pc[u] = "retire"
      PROVE  BagInv'
  <2>1. \A u \in Thread : Nodes(u)' = Nodes(u) /\ Nodes(u) \subseteq Nat
    BY <1>0, <1>5, NodesNat DEF Nodes
  <2>2. \A u \in Thread : \A n \in Nodes(u) : n < global_epoch'
    BY <1>0, <1>5, <2>1 DEF BagInv, EpochInv
  <2>3. \A u \in Thread : pc[u] = "retire" => birth[u] < global_epoch'
    BY <1>0, <1>5 DEF BagInv, EpochInv
  <2> QED BY <1>0, <1>5, <2>1, <2>2, <2>3 DEF BagInv
<1>6. CASE CasEpoch(t)
  <2>1. /\ UNCHANGED <<limbo, birth>> /\ pc' = [pc EXCEPT ![t] = "idle"]
        /\ global_epoch' = global_epoch + 1 \/ global_epoch' = global_epoch
    BY <1>6 DEF CasEpoch, Goto, Advance, Clock!Advance
  <2> QED BY <1>0, <1>5, <2>1 DEF EpochInv
<1>7. ASSUME UNCHANGED <<limbo, birth, global_epoch>>, NEW to \in Pc \ {"retire"},
             pc' = [pc EXCEPT ![t] = to]
      PROVE  BagInv'
  BY <1>0, <1>5, <1>7 DEF EpochInv
<1>8. CASE Register(t) \/ CallSnapshot(t) \/ Announce(t) \/ Release(t)
  BY <1>7, <1>8 DEF Register, CallSnapshot, Announce, Release, Goto, Clock!Call, Clock!Release, Pc
<1>9. ASSUME NEW ts \in 1 .. MaxEpoch, AnswerSnapshot(t, ts) PROVE BagInv'
  BY <1>7, <1>9 DEF AnswerSnapshot, Goto, Clock!Answer, Pc
<1>10. CASE ScanSlot(t)
  BY <1>0, <1>5, <1>10 DEF ScanSlot, EpochInv
<1>11. CASE ReclaimDiscrete(t) \/ ReclaimContinuous(t) \/ LoadEpoch(t)
  BY <1>7, <1>11 DEF ReclaimDiscrete, ReclaimContinuous, ScanBegin, LoadEpoch, Goto, Pc
<1> QED BY <1>1, <1>2, <1>3, <1>4, <1>6, <1>8, <1>9, <1>10, <1>11 DEF Step

LEMMA CountInRange == ASSUME TableInv PROVE active_count \in 0 .. Cardinality(Thread)
<1>1. Cardinality(Registered) <= Cardinality(Thread) /\ IsFiniteSet(Registered)
  BY FS_Subset DEF Registered
<1>2. Cardinality(Registered) \in Nat
  BY <1>1, FS_CardinalityType
<1> QED BY <1>1, <1>2, ThreadCount DEF TableInv

\* A scan begins with every announced slot before it.
LEMMA ScanBegins ==
    ASSUME PacerInv, NEW t \in Thread, UNCHANGED active_ts,
           scan' = [scan EXCEPT ![t] = [n |-> active_count, i |-> 0, min |-> MAX]],
           pinned' = [pinned EXCEPT ![t] = {s \in Slot : active_ts[s] # 0}]
    PROVE  ScanInv'
<1>1. [n |-> active_count, i |-> 0, min |-> MAX] \in Scan
  BY CountInRange, ThreadCount DEF PacerInv, Scan, MAX
<1>2. \A s \in Slot : active_ts[s] # 0 => s < active_count
  BY DEF PacerInv, TableInv
<1>3. \A s \in Slot : ~(s < 0)
  BY ThreadCount DEF Slot
<1>4. 0 <= active_count
  BY CountInRange, ThreadCount DEF PacerInv
<1> QED BY <1>1, <1>2, <1>3, <1>4 DEF PacerInv, ScanInv

LEMMA ScanEnds ==
    ASSUME PacerInv, NEW t \in Thread, UNCHANGED active_ts,
           scan' = [scan EXCEPT ![t] = NoScan], pinned' = [pinned EXCEPT ![t] = {}]
    PROVE  ScanInv'
<1>1. NoScan \in Scan
  BY ThreadCount DEF Scan, NoScan, MAX
<1> QED BY <1>1 DEF PacerInv, ScanInv, NoScan

LEMMA LowerType ==
    ASSUME NEW min \in 1 .. MAX, NEW ts \in 0 .. MaxEpoch
    PROVE  /\ Lower(min, ts) \in 1 .. MAX
           /\ Lower(min, ts) <= min
           /\ ts # 0 => Lower(min, ts) <= ts
BY DEF Lower, MAX

LEMMA NextScan == ASSUME PacerInv, NEW t \in Thread, Step(t) PROVE ScanInv'
<1>0. ScanInv /\ TableInv /\ pc \in [Thread -> Pc]
  BY DEF PacerInv, ControlInv
<1>1. ASSUME UNCHANGED <<scan, pinned, active_ts>> PROVE ScanInv'
  BY <1>0, <1>1 DEF ScanInv
<1>2. CASE Register(t) \/ CallSnapshot(t) \/ WriteOpPrepare(t) \/ ReclaimDiscrete(t) \/ LoadEpoch(t)
           \/ CasEpoch(t)
  BY <1>1, <1>2 DEF Register, CallSnapshot, WriteOpPrepare, ReclaimDiscrete, LoadEpoch,
     CasEpoch, table
<1>3. ASSUME NEW ts \in 1 .. MaxEpoch, AnswerSnapshot(t, ts) PROVE ScanInv'
  BY <1>1, <1>3 DEF AnswerSnapshot, table
<1>4. CASE Announce(t)
  <2>1. /\ pc[t] = "announce"
        /\ active_ts' = [active_ts EXCEPT ![slot[t]] = snap[t]]
        /\ UNCHANGED <<scan, pinned>>
    BY <1>4 DEF Announce, Goto
  <2>2. active_ts[slot[t]] = 0
    BY <1>0, <2>1 DEF TableInv, Registered
  <2>3. \A u \in Thread : \A s \in pinned[u] : active_ts'[s] = active_ts[s]
    BY <1>0, <2>1, <2>2 DEF TableInv, ScanInv
  <2> QED BY <1>0, <2>1, <2>3 DEF ScanInv
<1>5. CASE Release(t)
  <2>1. /\ active_ts' = [active_ts EXCEPT ![slot[t]] = 0]
        /\ pinned' = [u \in Thread |-> pinned[u] \ {slot[t]}]
        /\ UNCHANGED scan
    BY <1>5 DEF Release
  <2>2. \A u \in Thread : \A s \in pinned'[u] : s \in pinned[u] /\ active_ts'[s] = active_ts[s]
    BY <1>0, <2>1 DEF TableInv, ScanInv
  <2>3. pinned' \in [Thread -> SUBSET Slot]
    BY <1>0, <2>1 DEF ScanInv
  <2> QED BY <1>0, <2>1, <2>2, <2>3 DEF ScanInv
<1>6. CASE Retire(t)
  <2>1. CASE UNCHANGED <<scan, pinned>>
    BY <1>1, <1>6, <2>1 DEF Retire, table
  <2>2. CASE ScanBegin(t, "tick")
    BY <1>6, <2>2, ScanBegins DEF Retire, ScanBegin, table
  <2> QED BY <1>6, <2>1, <2>2 DEF Retire
<1>7. CASE ReclaimContinuous(t)
  BY <1>7, ScanBegins DEF ReclaimContinuous, ScanBegin, table
<1>8. CASE DrainTick(t) \/ DrainWindow(t)
  BY <1>8, ScanEnds DEF DrainTick, DrainWindow, table
<1>9. CASE ScanSlot(t)
  <2> DEFINE i == scan[t].i
             min == Lower(scan[t].min, active_ts[i])
             one == [scan[t] EXCEPT !.i = i + 1]
             next == [one EXCEPT !.min = min]
  <2>1. /\ i < scan[t].n
        /\ scan' = [scan EXCEPT ![t] = next]
        /\ UNCHANGED <<active_ts, pinned>>
    BY <1>9 DEF ScanSlot, table
  <2>2. /\ scan[t] \in Scan /\ i \in 0 .. Cardinality(Thread)
        /\ scan[t].n \in 0 .. Cardinality(Thread) /\ scan[t].min \in 1 .. MAX
    BY <1>0 DEF ScanInv, Scan
  <2>3. i \in Slot /\ i + 1 \in 0 .. Cardinality(Thread) /\ i + 1 <= scan[t].n
    BY <2>1, <2>2, ThreadCount DEF Slot
  <2>4. active_ts[i] \in 0 .. MaxEpoch
    BY <1>0, <2>3 DEF TableInv
  <2>5. min \in 1 .. MAX /\ min <= scan[t].min /\ (active_ts[i] # 0 => min <= active_ts[i])
    BY <2>2, <2>4, LowerType
  <2> HIDE DEF i, min
  <2>6. one \in Scan /\ one.n = scan[t].n /\ one.i = i + 1
    BY <2>2, <2>3 DEF Scan
  <2> HIDE DEF one
  <2>7. next \in Scan /\ next.n = one.n /\ next.i = one.i /\ next.min = min
    BY <2>5, <2>6 DEF Scan
  <2> HIDE DEF next
  <2>8. /\ scan' \in [Thread -> Scan] /\ scan'[t] = next
        /\ \A u \in Thread : u # t => scan'[u] = scan[u]
    BY <1>0, <2>1, <2>7 DEF ScanInv
  <2>9. ASSUME NEW s \in pinned[t], s < i + 1 PROVE min <= active_ts[s]
    <3>1. /\ s \in Nat /\ active_ts[s] \in Nat /\ active_ts[s] # 0
          /\ s < i => scan[t].min <= active_ts[s]
      BY <1>0, ThreadCount DEF ScanInv, TableInv, Slot, i
    <3>2. CASE s = i
      BY <2>5, <3>1, <3>2
    <3>3. CASE s < i
      BY <2>2, <2>5, <3>1, <3>3 DEF MAX
    <3> QED BY <2>2, <2>9, <3>1, <3>2, <3>3
  <2>10. \A u \in Thread : scan'[u].i <= scan'[u].n
    BY <1>0, <2>3, <2>6, <2>7, <2>8 DEF ScanInv
  <2>11. \A u \in Thread : \A s \in pinned[u] :
                 /\ active_ts[s] # 0
                 /\ s < scan'[u].n
                 /\ s < scan'[u].i => scan'[u].min <= active_ts[s]
    BY <1>0, <2>6, <2>7, <2>8, <2>9 DEF ScanInv
  <2> QED BY <1>0, <2>1, <2>8, <2>10, <2>11 DEF ScanInv
<1> QED BY <1>2, <1>3, <1>4, <1>5, <1>6, <1>7, <1>8, <1>9 DEF Step

---------------------------------------------------------------------------
(* Windows, holds and modes *)

LEMMA Divides ==
    ASSUME NEW H \in Nat \ {0}, NEW n \in Nat, n % H = 0
    PROVE  n = H * (n \div H) /\ n \div H \in Nat
OBVIOUS

LEMMA Multiple == ASSUME NEW H \in Nat \ {0}, NEW c \in Nat PROVE (H * c) % H = 0
OBVIOUS

LEMMA Remainder ==
    ASSUME NEW H \in Nat \ {0}, NEW q \in Nat, NEW r \in Nat, r < H
    PROVE  (H * q + r) % H = r
OBVIOUS

LEMMA Division ==
    ASSUME NEW H \in Nat \ {0}, NEW n \in Nat
    PROVE  n = H * (n \div H) + (n % H) /\ n \div H \in Nat /\ n % H \in Nat
OBVIOUS

\* The end of a window is the end of a hold.
LEMMA WindowEndsHold ==
    ASSUME NEW H \in Nat \ {0}, NEW W \in Nat \ {0}, W % H = 0,
           NEW n \in Nat, n % W = 0
    PROVE  n % H = 0
<1>1. PICK a \in Nat : n = W * a
  BY Divides
<1>2. PICK b \in Nat : W = H * b
  BY Divides
<1>3. n = H * (b * a) /\ b * a \in Nat
  BY <1>1, <1>2
<1>4. (H * (b * a)) % H = 0
  BY <1>3, Multiple
<1> QED BY <1>3, <1>4

\* One more write, modulo the hold limit.
LEMMA NextTick ==
    ASSUME NEW H \in Nat \ {0}, NEW n \in Nat
    PROVE  (n + 1) % H = IF (n % H) + 1 < H THEN (n % H) + 1 ELSE 0
<1>1. PICK q \in Nat, r \in Nat : n = H * q + r /\ n % H = r
  BY Division
<1>2. r < H
  BY <1>1
<1>3. CASE r + 1 < H
  <2>1. n + 1 = H * q + (r + 1)
    BY <1>1
  <2>2. (H * q + (r + 1)) % H = r + 1
    BY <1>3, Remainder
  <2> QED BY <1>1, <1>3, <2>1, <2>2
<1>4. CASE r + 1 = H
  <2>1. n + 1 = H * (q + 1)
    BY <1>1, <1>4
  <2>2. (H * (q + 1)) % H = 0
    BY Multiple
  <2> QED BY <1>1, <1>4, <2>1, <2>2
<1> QED BY <1>2, <1>3, <1>4

LEMMA SelectedMode ==
    ASSUME NEW spi \in Spi, NEW prev PROVE select_gc_mode_with_hysteresis(spi, prev) \in Mode
BY SMT DEF select_gc_mode_with_hysteresis, Spi, Mode, WriteHeavy, SnapHeavy, Hysteresis

\* A step that changes none of the pacing variables.
LEMMA HoldFrame ==
    ASSUME PacerInv, NEW t \in Thread, NEW to \in Pc \ {"retire", "tick", "resample"},
           pc[t] \notin {"retire", "tick", "resample"},
           pc' = [pc EXCEPT ![t] = to],
           UNCHANGED <<bench, op_counter, hold_ticks, gc_mode>>,
           spi_ema' \in [Thread -> Spi]
    PROVE  HoldInv'
<1>0. HoldInv /\ pc \in [Thread -> Pc]
  BY DEF PacerInv, ControlInv
<1>1. \A u \in Thread : Ticked(u)' = Ticked(u)
  BY <1>0 DEF Ticked
<1>2. \A u \in Thread : /\ pc'[u] \in {"retire", "tick"} => pc[u] \in {"retire", "tick"}
                        /\ pc'[u] = "resample" => pc[u] = "resample"
  BY <1>0
<1>3. \A u \in Thread : AtWindow(u)' = AtWindow(u)
  BY DEF AtWindow
<1>4. strategy' = strategy
  BY DEF strategy
<1> QED BY <1>0, <1>1, <1>2, <1>3, <1>4 DEF HoldInv

LEMMA NextHold == ASSUME PacerInv, NEW t \in Thread, Step(t) PROVE HoldInv'
<1>0. HoldInv /\ EpochInv /\ pc \in [Thread -> Pc]
  BY DEF PacerInv, ControlInv
<1>1. CASE WriteOpPrepare(t)
  <2>1. /\ pc[t] = "idle" /\ pc' = [pc EXCEPT ![t] = "retire"]
        /\ op_counter' = [op_counter EXCEPT ![t] = @ + 1]
        /\ UNCHANGED <<bench, hold_ticks, gc_mode, spi_ema>>
    BY <1>1 DEF WriteOpPrepare, Goto
  <2>2. op_counter[t] \in Nat /\ op_counter'[t] = op_counter[t] + 1 /\ pc'[t] = "retire"
    BY <1>0, <2>1 DEF EpochInv
  <2>3. \A u \in Thread : u # t => op_counter'[u] = op_counter[u] /\ pc'[u] = pc[u]
    BY <1>0, <2>1 DEF EpochInv
  <2>4. Ticked(t)' = Ticked(t)
    BY <2>1, <2>2 DEF Ticked
  <2>5. \A u \in Thread : u # t => Ticked(u)' = Ticked(u) /\ AtWindow(u)' = AtWindow(u)
    BY <2>3 DEF Ticked, AtWindow
  <2>6. strategy' = strategy
    BY <2>1 DEF strategy
  <2> QED BY <1>0, <2>1, <2>2, <2>3, <2>4, <2>5, <2>6 DEF HoldInv
<1>2. CASE Retire(t)
  <2>1. /\ pc[t] = "retire"
        /\ \/ strategy = "BatchEbr" /\ pc' = [pc EXCEPT ![t] = "idle"]
           \/ pc' = [pc EXCEPT ![t] = "tick"]
        /\ UNCHANGED <<bench, op_counter, hold_ticks, gc_mode, spi_ema>>
    BY <1>2 DEF Retire, ScanBegin, pacing
  <2>2. strategy' = strategy /\ \A u \in Thread : AtWindow(u)' = AtWindow(u)
    BY <2>1 DEF strategy, AtWindow
  <2>3. \A u \in Thread : /\ pc'[u] \in {"retire", "tick"} => pc[u] \in {"retire", "tick"}
                          /\ pc'[u] = "resample" => pc[u] = "resample"
    BY <1>0, <2>1
  <2>4. strategy = "PacerDiscrete" => \A u \in Thread : Ticked(u)' = Ticked(u)
    BY <1>0, <2>1 DEF Ticked
  <2> QED BY <1>0, <2>1, <2>2, <2>3, <2>4 DEF HoldInv
<1>3. CASE DrainTick(t)
  <2>1. /\ pc[t] = "tick" /\ pc' \in [Thread -> Pc]
        /\ pc'[t] = IF AtWindow(t) /\ strategy \in {"PacerDiscrete", "PacerContinuous"}
                    THEN "resample" ELSE "idle"
        /\ \A u \in Thread : u # t => pc'[u] = pc[u]
        /\ hold_ticks' = [hold_ticks EXCEPT ![t] = TicksAfter(t)]
        /\ UNCHANGED <<bench, op_counter, gc_mode, spi_ema>>
    BY <1>0, <1>3 DEF DrainTick, Goto, Pc
  <2>2. strategy' = strategy /\ \A u \in Thread : AtWindow(u)' = AtWindow(u)
    BY <2>1 DEF strategy, AtWindow
  <2>3. \A u \in Thread : u # t => Ticked(u)' = Ticked(u)
    BY <2>1 DEF Ticked
  <2> DEFINE n == op_counter[t] - 1
             h == hold_ticks[t]
  <2>4. n \in Nat /\ n + 1 = op_counter[t] /\ Ticked(t) = n /\ Ticked(t)' = n + 1
    BY <1>0, <2>1 DEF HoldInv, EpochInv, Ticked
  <2>5. h \in 0 .. HoldLimit - 1
    BY <1>0 DEF HoldInv
  <2>6. TicksAfter(t) \in 0 .. HoldLimit - 1
    BY <2>5 DEF TicksAfter
  <2>7. strategy = "PacerDiscrete" =>
          TicksAfter(t) = IF gc_mode[t] = "ConservativeHold" THEN (n + 1) % HoldLimit ELSE 0
    <3>1. (n + 1) % HoldLimit = IF (n % HoldLimit) + 1 < HoldLimit THEN (n % HoldLimit) + 1 ELSE 0
      BY <2>4, NextTick
    <3>2. strategy = "PacerDiscrete" /\ gc_mode[t] = "ConservativeHold" => h = n % HoldLimit
      BY <1>0, <2>4 DEF HoldInv
    <3> HIDE DEF n, h
    <3> QED BY <3>1, <3>2 DEF TicksAfter, h
  <2> HIDE DEF n, h
  <2>8. hold_ticks' \in [Thread -> 0 .. HoldLimit - 1] /\ hold_ticks'[t] = TicksAfter(t)
        /\ \A u \in Thread : u # t => hold_ticks'[u] = hold_ticks[u]
    BY <1>0, <2>1, <2>6 DEF HoldInv
  <2>9. ASSUME NEW u \in Thread
        PROVE  /\ pc'[u] \in {"retire", "tick"} => op_counter'[u] > 0
               /\ pc'[u] = "resample" => AtWindow(u)'
               /\ strategy' = "PacerDiscrete" =>
                      hold_ticks'[u] = IF gc_mode'[u] = "ConservativeHold"
                                       THEN Ticked(u)' % HoldLimit ELSE 0
    <3>1. CASE u = t
      BY <2>1, <2>2, <2>4, <2>7, <2>8, <3>1
    <3>2. CASE u # t
      BY <1>0, <2>1, <2>2, <2>3, <2>8, <3>2 DEF HoldInv
    <3> QED BY <3>1, <3>2
  <2> QED BY <1>0, <2>1, <2>8, <2>9 DEF HoldInv
<1>4. CASE ReclaimDiscrete(t)
  <2>1. PICK spi \in SpiSample :
          /\ spi_ema' = [spi_ema EXCEPT ![t] = spi]
          /\ gc_mode' = [gc_mode EXCEPT ![t] = select_gc_mode_with_hysteresis(spi, gc_mode[t])]
          /\ pc[t] = "resample"
          /\ \/ pc' = [pc EXCEPT ![t] = "load_epoch"]
             \/ pc' = [pc EXCEPT ![t] = "idle"]
    BY <1>4 DEF ReclaimDiscrete, Goto
  <2>2. strategy = "PacerDiscrete" /\ UNCHANGED <<bench, op_counter, hold_ticks>>
    BY <1>4 DEF ReclaimDiscrete
  <2>3. strategy' = strategy /\ \A u \in Thread : AtWindow(u)' = AtWindow(u)
    BY <2>2 DEF strategy, AtWindow
  <2>4. \A u \in Thread : Ticked(u)' = Ticked(u)
    BY <1>0, <2>1, <2>2 DEF Ticked
  <2>5. op_counter[t] % HoldLimit = 0
    <3>1. op_counter[t] \in Nat /\ op_counter[t] % WindowSize = 0
      BY <1>0, <2>1 DEF HoldInv, EpochInv, AtWindow
    <3> QED BY <3>1, WindowEndsHold
  <2>6. Ticked(t) = op_counter[t] /\ hold_ticks[t] = 0
    BY <1>0, <2>1, <2>2, <2>5 DEF HoldInv, Ticked
  <2>7. spi \in Spi /\ select_gc_mode_with_hysteresis(spi, gc_mode[t]) \in Mode
    BY SelectedMode
  <2>8. gc_mode' \in [Thread -> Mode] /\ \A u \in Thread : u # t => gc_mode'[u] = gc_mode[u]
    BY <1>0, <2>1, <2>7 DEF HoldInv
  <2>9. spi_ema' \in [Thread -> Spi]
    BY <1>0, <2>1, <2>7 DEF HoldInv
  <2>10. \A u \in Thread : /\ pc'[u] \in {"retire", "tick"} => pc[u] \in {"retire", "tick"}
                           /\ pc'[u] = "resample" => pc[u] = "resample"
    BY <1>0, <2>1
  <2>11. ASSUME NEW u \in Thread
         PROVE  hold_ticks'[u] = IF gc_mode'[u] = "ConservativeHold"
                                 THEN Ticked(u)' % HoldLimit ELSE 0
    <3>1. CASE u = t
      BY <2>2, <2>4, <2>5, <2>6, <3>1
    <3>2. CASE u # t
      BY <1>0, <2>2, <2>4, <2>8, <3>2 DEF HoldInv
    <3> QED BY <3>1, <3>2
  <2> QED BY <1>0, <2>2, <2>3, <2>8, <2>9, <2>10, <2>11 DEF HoldInv
<1>5. CASE ReclaimContinuous(t)
  <2>1. PICK spi \in SpiSample : spi_ema' = [spi_ema EXCEPT ![t] = spi]
    BY <1>5 DEF ReclaimContinuous
  <2>2. /\ strategy = "PacerContinuous" /\ pc[t] = "resample"
        /\ pc' = [pc EXCEPT ![t] = "window"]
        /\ UNCHANGED <<bench, op_counter, hold_ticks, gc_mode>>
    BY <1>5 DEF ReclaimContinuous, ScanBegin
  <2>3. spi_ema' \in [Thread -> Spi]
    BY <1>0, <2>1 DEF HoldInv
  <2>4. strategy' # "PacerDiscrete" /\ \A u \in Thread : AtWindow(u)' = AtWindow(u)
    BY <2>2 DEF strategy, AtWindow
  <2>5. \A u \in Thread : /\ pc'[u] \in {"retire", "tick"} => pc[u] \in {"retire", "tick"}
                          /\ pc'[u] = "resample" => pc[u] = "resample"
    BY <1>0, <2>2
  <2> QED BY <1>0, <2>2, <2>3, <2>4, <2>5 DEF HoldInv
<1>6. CASE Register(t) \/ CallSnapshot(t) \/ Announce(t) \/ Release(t)
  BY <1>0, <1>6, HoldFrame DEF Register, CallSnapshot, Announce, Release, Goto, pacing, Pc, HoldInv
<1>7. ASSUME NEW ts \in 1 .. MaxEpoch, AnswerSnapshot(t, ts) PROVE HoldInv'
  BY <1>0, <1>7, HoldFrame DEF AnswerSnapshot, Goto, pacing, Pc, HoldInv
<1>8. CASE DrainWindow(t) \/ LoadEpoch(t) \/ CasEpoch(t)
  BY <1>0, <1>8, HoldFrame DEF DrainWindow, LoadEpoch, CasEpoch, Goto, pacing, Pc, HoldInv
<1>9. CASE ScanSlot(t)
  <2>1. UNCHANGED <<bench, pc, op_counter, hold_ticks, gc_mode, spi_ema>>
    BY <1>9 DEF ScanSlot, pacing
  <2> QED BY <1>0, <2>1 DEF HoldInv, Ticked, AtWindow, strategy
<1> QED BY <1>1, <1>2, <1>3, <1>4, <1>5, <1>6, <1>7, <1>8, <1>9 DEF Step

---------------------------------------------------------------------------
(* The backlog without snapshots *)

\* What a tick leaves, in numbers: len nodes of at most h + 1 are drained by the
\* budget of the mode.
LEMMA TickLeaves ==
    ASSUME NEW len \in Nat, NEW h \in Nat, len <= h + 1, NEW k \in Nat,
           NEW H \in Nat \ {0}, h <= H - 1, NEW hold \in BOOLEAN,
           hold => k = IF h + 1 >= H THEN H ELSE 0,
           ~hold => h = 0 /\ k >= 1
    PROVE  (IF len < k THEN 0 ELSE len - k) <= IF hold /\ h + 1 < H THEN h + 1 ELSE 0
<1>1. CASE hold /\ h + 1 < H
  BY <1>1
<1>2. CASE hold /\ ~(h + 1 < H)
  BY <1>2
<1>3. CASE ~hold
  BY <1>3
<1> QED BY <1>1, <1>2, <1>3

LEMMA NextBacklog == ASSUME PacerInv, NEW t \in Thread, Step(t) PROVE BacklogInv'
<1>0. /\ BacklogInv /\ ControlInv /\ TableInv /\ BagInv /\ ScanInv /\ HoldInv
      /\ pc \in [Thread -> Pc] /\ ControlInv'
  BY NextControl DEF PacerInv, ControlInv
<1>1. bench' = bench
  <2>1. CASE Quiet(t)
    BY <2>1 DEF Quiet, WriteOpPrepare, Retire, ScanSlot, DrainTick, ReclaimDiscrete,
                ReclaimContinuous, DrainWindow, LoadEpoch, CasEpoch
  <2>2. CASE Register(t) \/ CallSnapshot(t) \/ Announce(t) \/ Release(t)
    BY <2>2 DEF Register, CallSnapshot, Announce, Release
  <2>3. ASSUME NEW ts \in 1 .. MaxEpoch, AnswerSnapshot(t, ts) PROVE bench' = bench
    BY <2>3 DEF AnswerSnapshot
  <2> QED BY <2>1, <2>2, <2>3 DEF Step, Quiet
<1> SUFFICES ASSUME ~bench.snapshots
             PROVE  /\ \A u \in Thread : pc'[u] \notin {"snapping", "announce", "snapped"}
                    /\ \A u \in Thread : scan'[u].min = MAX
                    /\ BacklogBounded'
  BY <1>1 DEF BacklogInv, MAX
<1>2. /\ \A u \in Thread : pc[u] \notin {"snapping", "announce", "snapped"}
      /\ \A u \in Thread : scan[u].min = MAX
      /\ BacklogBounded
  BY <1>0 DEF BacklogInv
<1>3. Register(t) \/ Quiet(t)
  BY <1>2 DEF Step, Quiet, CallSnapshot, AnswerSnapshot, Announce, Release, Goto
<1>4. \A u \in Thread : pc'[u] \notin {"snapping", "announce", "snapped"}
  <2>1. CASE Register(t)
    BY <1>0, <1>2, <2>1 DEF Register, Goto
  <2>2. CASE Quiet(t)
    BY <1>0, <1>2, <2>2, QuietFrame
  <2> QED BY <1>3, <2>1, <2>2
<1>5. \A u \in Thread : scan'[u].min = MAX
  <2>1. CASE ScanSlot(t)
    <3>1. scan[t] \in Scan /\ scan[t].i < scan[t].n
      BY <1>0, <2>1 DEF ScanInv, ScanSlot
    <3>2. scan[t].i \in Slot
      BY <3>1, ThreadCount DEF Scan, Slot
    <3>3. active_ts[scan[t].i] = 0
      BY <1>0, <1>2, <3>2 DEF TableInv, Registered
    <3>4. Lower(scan[t].min, active_ts[scan[t].i]) = MAX
      BY <1>2, <3>3 DEF Lower
    <3> DEFINE one == [scan[t] EXCEPT !.i = scan[t].i + 1]
               next == [one EXCEPT !.min = MAX]
    <3>5. scan' = [scan EXCEPT ![t] = next]
      BY <2>1, <3>4 DEF ScanSlot
    <3>6. next.min = MAX
      BY <3>1 DEF Scan
    <3> HIDE DEF next
    <3> QED BY <1>0, <1>2, <3>5, <3>6 DEF ScanInv
  <2>2. ASSUME NEW r, r.min = MAX, scan' = [scan EXCEPT ![t] = r]
        PROVE  \A u \in Thread : scan'[u].min = MAX
    BY <1>0, <1>2, <2>2 DEF ScanInv
  <2>3. CASE DrainTick(t) \/ DrainWindow(t)
    BY <2>2, <2>3 DEF DrainTick, DrainWindow, NoScan
  <2>4. ASSUME NEW to, ScanBegin(t, to) PROVE \A u \in Thread : scan'[u].min = MAX
    BY <2>2, <2>4 DEF ScanBegin
  <2>5. CASE Retire(t) \/ ReclaimContinuous(t)
    BY <1>2, <2>4, <2>5 DEF Retire, ReclaimContinuous
  <2>6. CASE Register(t) \/ WriteOpPrepare(t) \/ ReclaimDiscrete(t) \/ LoadEpoch(t) \/ CasEpoch(t)
    BY <1>2, <2>6 DEF Register, WriteOpPrepare, ReclaimDiscrete, LoadEpoch, CasEpoch
  <2> QED BY <1>3, <2>1, <2>3, <2>5, <2>6 DEF Quiet
<1>6. BacklogBounded'
  <2> SUFFICES ASSUME strategy = "PacerDiscrete", NEW u \in Thread
               PROVE  Len(limbo'[u]) <= IF pc'[u] = "tick" THEN hold_ticks'[u] + 1
                                                           ELSE hold_ticks'[u]
    BY <1>1 DEF BacklogBounded, strategy
  <2>0. /\ Len(limbo[u]) <= IF pc[u] = "tick" THEN hold_ticks[u] + 1 ELSE hold_ticks[u]
        /\ hold_ticks[u] \in 0 .. HoldLimit - 1 /\ hold_ticks[u] \in Nat
        /\ limbo[u] \in Seq(1 .. MaxEpoch) /\ Sorted(limbo[u]) /\ Len(limbo[u]) \in Nat
    BY <1>0, <1>2, LenProperties DEF BacklogBounded, HoldInv, BagInv
  <2>1. CASE UNCHANGED <<limbo, hold_ticks>> /\ (pc[u] = "tick" => pc'[u] = "tick")
    BY <2>0, <2>1
  <2>2. CASE Register(t) \/ WriteOpPrepare(t) \/ ReclaimDiscrete(t) \/ LoadEpoch(t) \/ CasEpoch(t)
    BY <1>0, <2>1, <2>2 DEF Register, WriteOpPrepare, ReclaimDiscrete, LoadEpoch, CasEpoch, Goto,
                            pacing
  <2>3. CASE ScanSlot(t)
    BY <2>1, <2>3 DEF ScanSlot, pacing
  <2>4. CASE ReclaimContinuous(t)
    BY <2>4 DEF ReclaimContinuous
  <2>5. CASE Retire(t)
    <3>1. /\ pc[t] = "retire" /\ pc' = [pc EXCEPT ![t] = "tick"]
          /\ limbo' = [limbo EXCEPT ![t] = Append(@, birth[t])]
          /\ UNCHANGED hold_ticks
      BY <2>5 DEF Retire, ScanBegin, pacing
    <3>2. CASE u = t
      <4>1. birth[t] \in 1 .. MaxEpoch
        BY <1>0, <3>1 DEF BagInv
      <4>2. Len(Append(limbo[t], birth[t])) = Len(limbo[t]) + 1
        BY <2>0, <3>2, <4>1, AppendProperties
      <4> QED BY <1>0, <2>0, <3>1, <3>2, <4>2 DEF BagInv
    <3>3. CASE u # t
      BY <1>0, <2>0, <3>1, <3>3 DEF BagInv
    <3> QED BY <3>2, <3>3
  <2>6. CASE DrainTick(t)
    <3>1. /\ pc[t] = "tick" /\ pc'[t] # "tick" /\ (u # t => pc'[u] = pc[u])
          /\ limbo' = [limbo EXCEPT ![t] = Drained(@, MAX, TickBudget(t))]
          /\ hold_ticks' = [hold_ticks EXCEPT ![t] = TicksAfter(t)]
      BY <1>0, <1>2, <2>6 DEF DrainTick, Goto
    <3>2. CASE u = t
      <4> DEFINE len == Len(limbo[t])
                 h == hold_ticks[t]
                 k == TickBudget(t)
                 hold == gc_mode[t] = "ConservativeHold"
      <4>1. k \in Nat
        BY BudgetNat
      <4>2. MAX \in Nat /\ MaxEpoch < MAX /\ MaxEpoch \in Nat
        BY DEF MAX
      <4>3. Len(Drained(limbo[t], MAX, k)) = IF len < k THEN 0 ELSE len - k
        <5>1. limbo[t] \in Seq(1 .. MaxEpoch)
          BY <2>0, <3>2
        <5> HIDE DEF k
        <5> QED BY <4>1, <4>2, <5>1, DrainLength
      <4>4. len \in Nat /\ h \in Nat /\ len <= h + 1 /\ h <= HoldLimit - 1
        BY <2>0, <3>1, <3>2
      <4>5. hold => k = IF h + 1 >= HoldLimit THEN HoldLimit ELSE 0
        BY DEF TickBudget
      <4>6. ~hold => h = 0
        BY <1>0 DEF HoldInv
      <4>7. gc_mode[t] \in Mode
        BY <1>0 DEF HoldInv
      <4>8. ~hold => k >= 1
        BY <4>7 DEF Mode, TickBudget, AF_BATCH_K
      <4>9. TicksAfter(t) = IF hold /\ h + 1 < HoldLimit THEN h + 1 ELSE 0
        BY DEF TicksAfter
      <4>10. hold \in BOOLEAN
        OBVIOUS
      <4>11. limbo'[t] = Drained(limbo[t], MAX, k) /\ hold_ticks'[t] = TicksAfter(t)
        BY <1>0, <3>1 DEF BagInv, HoldInv
      <4> HIDE DEF len, h, k, hold
      <4>12. (IF len < k THEN 0 ELSE len - k) <= IF hold /\ h + 1 < HoldLimit THEN h + 1 ELSE 0
        BY <4>1, <4>4, <4>5, <4>6, <4>8, <4>10, TickLeaves
      <4> QED BY <3>1, <3>2, <4>3, <4>9, <4>11, <4>12
    <3>3. CASE u # t
      BY <1>0, <2>0, <3>1, <3>3 DEF BagInv, HoldInv
    <3> QED BY <3>2, <3>3
  <2>7. CASE DrainWindow(t)
    <3>1. PICK delta \in {0} \cup SpiSample :
             limbo' = [limbo EXCEPT ![t] =
                         Drained(@, scan[t].min, compute_batch_k(spi_ema[t], delta))]
      BY <2>7 DEF DrainWindow
    <3>2. pc[t] = "window" /\ pc'[t] # "tick" /\ (u # t => pc'[u] = pc[u]) /\ UNCHANGED hold_ticks
      BY <1>0, <2>7 DEF DrainWindow, Goto, pacing
    <3>3. CASE u = t
      <4>1. scan[t].min \in Nat /\ spi_ema[t] \in Spi
        BY <1>0 DEF ScanInv, Scan, MAX, HoldInv
      <4> DEFINE k == compute_batch_k(spi_ema[t], delta)
                 rest == Drained(limbo[t], scan[t].min, k)
      <4>2. k \in Nat
        BY <4>1, BatchNat
      <4>3. Len(rest) <= Len(limbo[t]) /\ rest \in Seq(1 .. MaxEpoch)
        BY <2>0, <3>3, <4>1, <4>2, DrainLength, DrainKeepsYoung
      <4>4. limbo'[t] = rest
        BY <1>0, <3>1 DEF BagInv
      <4>5. Len(rest) \in Nat
        BY <4>3, LenProperties
      <4> HIDE DEF rest
      <4> QED BY <2>0, <3>2, <3>3, <4>3, <4>4, <4>5
    <3>4. CASE u # t
      BY <1>0, <2>0, <3>1, <3>2, <3>4 DEF BagInv
    <3> QED BY <3>3, <3>4
  <2> QED BY <1>3, <2>2, <2>3, <2>4, <2>5, <2>6, <2>7 DEF Quiet
<1> QED BY <1>4, <1>5, <1>6

---------------------------------------------------------------------------
(* The theorems *)

LEMMA StutterPacerInv == PacerInv /\ UNCHANGED vars => PacerInv'
<1> SUFFICES ASSUME PacerInv, UNCHANGED vars PROVE PacerInv'
  OBVIOUS
<1> USE DEF PacerInv, vars, snapvars, table, pacing
<1>1. ControlInv' /\ TableInv' /\ EpochInv'
  BY DEF ControlInv, TableInv, Registered, EpochInv
<1>2. BagInv'
  BY DEF BagInv, Nodes
<1>3. ScanInv'
  BY DEF ScanInv
<1>4. HoldInv'
  BY DEF HoldInv, Ticked, AtWindow, strategy
<1>5. BacklogInv'
  BY DEF BacklogInv, BacklogBounded, strategy
<1> QED BY <1>1, <1>2, <1>3, <1>4, <1>5

\* The parts of PacerInv are preserved together: each step keeps the announcement
\* table, the bags, the scans and the hold counters of all threads in agreement.
THEOREM Safe == Spec => []PacerInv
<1>1. Init => PacerInv
  BY InitPacerInv
<1>2. PacerInv /\ [Next]_vars => PacerInv'
  <2>1. ASSUME PacerInv, Next PROVE PacerInv'
    <3>1. PICK t \in Thread : Step(t)
      BY <2>1 DEF Next
    <3> QED BY <2>1, <3>1, NextControl, NextTable, NextEpoch, NextBag, NextScan, NextHold,
               NextBacklog DEF PacerInv
  <2> QED BY <2>1, StutterPacerInv
<1> QED BY <1>1, <1>2, PTL DEF Spec

\* Slots, timestamps, bags, hold counters and modes stay in their ranges: no thread
\* indexes the table out of bounds, and hold_ticks never reaches HOLD_LIMIT.
THEOREM TypeCorrect == Spec => []TypeOK
<1>1. PacerInv => TypeOK
  <2> SUFFICES ASSUME PacerInv PROVE TypeOK
    OBVIOUS
  <2>1. active_count \in 0 .. Cardinality(Thread)
    BY CountInRange DEF PacerInv
  <2>2. /\ global_epoch \in 1 .. MaxEpoch
        /\ op_counter \in [Thread -> 0 .. MaxEpoch]
        /\ fail_streak \in [Thread -> 0 .. MaxEpoch]
    BY DEF PacerInv, EpochInv
  <2>3. /\ active_ts \in [Slot -> 0 .. MaxEpoch]
        /\ slot \in [Thread -> Slot]
        /\ limbo \in [Thread -> Seq(1 .. MaxEpoch)]
        /\ hold_ticks \in [Thread -> 0 .. HoldLimit - 1]
        /\ gc_mode \in [Thread -> Mode]
        /\ spi_ema \in [Thread -> Spi]
    BY DEF PacerInv, TableInv, BagInv, HoldInv
  <2>4. scan \in [Thread -> Scan]
    BY DEF PacerInv, ScanInv
  <2> QED BY <2>1, <2>2, <2>3, <2>4 DEF TypeOK, Scan
<1> QED BY <1>1, Safe, PTL

\* The limbo bag of every thread is sorted by birth_ts, and no node is in two bags:
\* LimboBag::drain, which stops at the first node that is too young, leaves no
\* old node behind it.
THEOREM BagsSorted == Spec => []LimboSorted
<1>1. PacerInv => LimboSorted
  <2> SUFFICES ASSUME PacerInv PROVE LimboSorted
    OBVIOUS
  <2>1. BagInv
    BY DEF PacerInv
  <2>2. \A t \in Thread : DOMAIN limbo[t] = 1 .. Len(limbo[t])
    BY <2>1, LenProperties DEF BagInv
  <2>3. \A t \in Thread : \A i, j \in DOMAIN limbo[t] : i < j => limbo[t][i] < limbo[t][j]
    BY <2>1, <2>2 DEF BagInv, Sorted
  <2>4. \A t \in Thread : \A i \in DOMAIN limbo[t] : limbo[t][i] \in Nodes(t)
    BY <2>2 DEF Nodes, Elements
  <2>5. \A t, u \in Thread : t # u => Nodes(t) \cap Nodes(u) = {}
    BY <2>1 DEF BagInv
  <2>6. \A t, u \in Thread : t # u => \A i \in DOMAIN limbo[t], j \in DOMAIN limbo[u] :
                                        limbo[t][i] # limbo[u][j]
    BY <2>4, <2>5
  <2> QED BY <2>3, <2>6 DEF LimboSorted
<1> QED BY <1>1, Safe, PTL

\* Without snapshots a PacerDiscrete bag never holds more than hold_ticks + 1
\* nodes, whatever modes the SPI samples lead through: the backlog of the
\* hold mode is at most HOLD_LIMIT.
THEOREM Backlog == Spec => []BacklogBounded
<1>1. PacerInv => BacklogBounded
  BY DEF PacerInv, BacklogInv, BacklogBounded
<1> QED BY <1>1, Safe, PTL

\* Only a drain takes nodes out of a bag.
LEMMA FreedByDrain ==
    ASSUME PacerInv, NEW t \in Thread, Step(t), NEW u \in Thread, NEW x \in Nodes(u),
           x \notin Nodes(u)'
    PROVE  u = t /\ (DrainTick(t) \/ DrainWindow(t))
<1>0. BagInv /\ pc \in [Thread -> Pc]
  BY DEF PacerInv, ControlInv
<1>1. limbo' # limbo
  BY DEF Nodes
<1>2. Retire(t) \/ DrainTick(t) \/ DrainWindow(t)
  BY <1>1 DEF Step, Register, CallSnapshot, AnswerSnapshot, Announce, Release, WriteOpPrepare,
              ScanSlot, ReclaimDiscrete, ReclaimContinuous, LoadEpoch, CasEpoch
<1>3. u = t
  <2>1. \A v \in Thread : v # t => limbo'[v] = limbo[v]
    BY <1>0, <1>2 DEF Retire, DrainTick, DrainWindow, BagInv
  <2> QED BY <2>1 DEF Nodes
<1>4. ~Retire(t)
  <2> SUFFICES ASSUME Retire(t) PROVE FALSE
    OBVIOUS
  <2>1. pc[t] = "retire" /\ limbo'[t] = Append(limbo[t], birth[t])
    BY <1>0 DEF Retire, BagInv
  <2>2. /\ limbo[t] \in Seq(1 .. MaxEpoch) /\ Sorted(limbo[t]) /\ birth[t] \in 1 .. MaxEpoch
        /\ \A n \in Elements(limbo[t]) : n < birth[t]
    BY <1>0, <2>1 DEF BagInv, Nodes
  <2>3. Elements(Append(limbo[t], birth[t])) = Elements(limbo[t]) \cup {birth[t]}
    BY <2>2, PushYoungest
  <2> QED BY <1>3, <2>1, <2>3 DEF Nodes
<1> QED BY <1>2, <1>3, <1>4

\* What a step frees is older than each snapshot its scan had to respect.
LEMMA FreedIsUnpinned ==
    ASSUME PacerInv, NEW t \in Thread, Step(t), NEW u \in Thread, NEW x \in Nodes(u),
           x \notin Nodes(u)', NEW s \in pinned[u]
    PROVE  x < active_ts[s]
<1>0. BagInv /\ ScanInv /\ TableInv /\ pc \in [Thread -> Pc]
  BY DEF PacerInv, ControlInv
<1>1. u = t /\ (DrainTick(t) \/ DrainWindow(t))
  BY FreedByDrain
<1>2. scan[t] \in Scan /\ scan[t].min \in Nat /\ s \in Slot
  BY <1>0, <1>1 DEF ScanInv, Scan, MAX
<1>3. scan[t].i = scan[t].n
  BY <1>1 DEF DrainTick, DrainWindow, ScanDone
<1>4. scan[t].min <= active_ts[s]
  BY <1>0, <1>1, <1>3 DEF ScanInv
<1>5. x < scan[t].min
  <2>1. CASE DrainTick(t)
    <3>1. /\ limbo' = [limbo EXCEPT ![t] = Drained(@, scan[t].min, TickBudget(t))]
          /\ UNCHANGED <<global_epoch, birth>>
          /\ \A v \in Thread : pc'[v] = "retire" => pc[v] = "retire"
      BY <1>0, <2>1 DEF DrainTick, Goto
    <3>2. \A n \in Nodes(t) : n \notin Nodes(t)' => n < scan[t].min
      BY <1>0, <1>2, <3>1, BudgetNat, DrainKeeps
    <3> QED BY <1>1, <3>2
  <2>2. CASE DrainWindow(t)
    <3>1. PICK delta \in {0} \cup SpiSample :
             limbo' = [limbo EXCEPT ![t] =
                         Drained(@, scan[t].min, compute_batch_k(spi_ema[t], delta))]
      BY <2>2 DEF DrainWindow
    <3>2. /\ UNCHANGED <<global_epoch, birth>>
          /\ \A v \in Thread : pc'[v] = "retire" => pc[v] = "retire"
      BY <1>0, <2>2 DEF DrainWindow, Goto
    <3>3. compute_batch_k(spi_ema[t], delta) \in Nat
      BY BatchNat DEF PacerInv, HoldInv
    <3>4. \A n \in Nodes(t) : n \notin Nodes(t)' => n < scan[t].min
      BY <1>0, <1>2, <3>1, <3>2, <3>3, DrainKeeps
    <3> QED BY <1>1, <3>4
  <2> QED BY <1>1, <2>1, <2>2
<1>6. x \in Nat /\ active_ts[s] \in Nat
  BY <1>0, <1>2, NodesNat DEF TableInv
<1> QED BY <1>2, <1>4, <1>5, <1>6

\* min_active_ts loads the slots of the table one by one while other threads
\* announce and release; still, no drain frees a node that is not older than a
\* snapshot announced all through its scan.
THEOREM PinnedKept == Spec => PinnedIsKept
<1> DEFINE A == \A t \in Thread : \A n \in Freed(t) : \A s \in pinned[t] : n < active_ts[s]
<1>1. ASSUME PacerInv, PacerInv', Next PROVE A
  <2>1. PICK t \in Thread : Step(t)
    BY <1>1 DEF Next
  <2>2. ASSUME NEW u \in Thread, NEW n \in Freed(u) PROVE n \in Nodes(u) /\ n \notin Nodes(u)'
    <3>1. /\ DOMAIN limbo[u] = 1 .. Len(limbo[u])
          /\ DOMAIN limbo'[u] = 1 .. Len(limbo'[u])
      BY <1>1, LenProperties DEF PacerInv, BagInv
    <3>2. Nodes(u)' \subseteq 1 .. MaxEpoch
      BY <1>1, ElementsType DEF PacerInv, BagInv, Nodes
    <3> QED BY <3>1, <3>2 DEF Freed, Nodes, Elements
  <2> QED BY <1>1, <2>1, <2>2, FreedIsUnpinned
<1>2. PacerInv /\ PacerInv' /\ [Next]_vars => [A]_vars
  BY <1>1
<1> QED BY <1>2, Safe, PTL DEF Spec, PinnedIsKept
=============================================================================
