----------------------------- MODULE PacerSystem -----------------------------
(***************************************************************************)
(* PacerSystem of src/lib.rs and the client loop of run_bench_synthetic:   *)
(* registered threads that write (each write retires one node into the     *)
(* thread's limbo bag and drains the bag) and take snapshots (announced in *)
(* the announcement table until released).  One action per access to a     *)
(* shared atomic: the epoch, the table's count, and each slot of the table *)
(* that min_active_ts loads.                                               *)
(*                                                                         *)
(* A node is its birth_ts.  Scc is there as its contract, SnapshotClock.   *)
(***************************************************************************)
EXTENDS SpiControl, LimboBag, FiniteSets

CONSTANTS Thread,        \* the threads
          Bench,         \* the benchmarks: their strategy, whether the threads take
                         \* snapshots, and how many epochs they run for (epochs)
          WindowSize,    \* WINDOW_SIZE
          HoldLimit,     \* HOLD_LIMIT
          AggressiveDrain, \* AGGRESSIVE_DRAIN_PER_OP
          SpiSample,     \* the values a resampled spi_ema may take
          MaxEpoch       \* bound on the epoch

ASSUME BenchAssumption ==
    Bench \subseteq [strategy : {"PacerDiscrete", "PacerContinuous", "TokenAf", "BatchEbr"},
                     snapshots : BOOLEAN, epochs : 1 .. MaxEpoch]
\* 256 and 8 in the code; the backlog bound rests on the division.
ASSUME WindowAssumption == /\ WindowSize \in Nat \ {0} /\ HoldLimit \in Nat \ {0}
                           /\ WindowSize % HoldLimit = 0
ASSUME DrainAssumption == AggressiveDrain \in Nat \ {0}
ASSUME SpiSampleAssumption == SpiSample \subseteq Spi
ASSUME EpochAssumption == MaxEpoch \in Nat \ {0}
ASSUME ThreadAssumption == IsFiniteSet(Thread)

VARIABLES
    bench,               \* the arguments of run_bench_synthetic
    global_epoch,        \* PacerSystem::global_epoch
    answered, floor, calling, snap, \* of SnapshotClock
    active_count,        \* AnnouncementTable::active_count
    active_ts,           \* the slots of the table, 0 when there is no snapshot
    slot,                \* ThreadLocalState::tid
    limbo,               \* ThreadLocalState::limbo_bag, birth timestamps
    op_counter, hold_ticks, gc_mode, spi_ema, fail_streak, \* of ThreadLocalState
    pc,
    birth,               \* the ts that write_op_prepare returned
    scan,                \* the locals n, i and min of min_active_ts
    cur,                 \* the local of try_advance_epoch
    pinned               \* history: slots announced ever since t's scan began

snapvars == <<answered, floor, calling, snap>>
pacing == <<op_counter, hold_ticks, gc_mode, spi_ema, fail_streak>>
table == <<active_count, active_ts, slot>>
vars == <<bench, global_epoch, snapvars, table, limbo, pacing, pc, birth, scan, cur, pinned>>

Clock == INSTANCE SnapshotClock

strategy == bench.strategy

Slot == 0 .. Cardinality(Thread) - 1

\* u64::MAX: larger than every timestamp.
MAX == MaxEpoch + 1

NoScan == [n |-> 0, i |-> 0, min |-> MAX]

Goto(t, from, to) == pc[t] = from /\ pc' = [pc EXCEPT ![t] = to]

\* AnnouncementTable::new.
EmptyTable == active_count = 0 /\ active_ts = [s \in Slot |-> 0]

\* ThreadLocalState::new.
FreshThreads == /\ slot = [t \in Thread |-> 0]
                /\ limbo = [t \in Thread |-> <<>>]
                /\ op_counter = [t \in Thread |-> 0]
                /\ hold_ticks = [t \in Thread |-> 0]
                /\ gc_mode = [t \in Thread |-> "AggressiveEbr"]
                /\ spi_ema = [t \in Thread |-> 0]
                /\ fail_streak = [t \in Thread |-> 0]

Init == /\ bench \in Bench
        /\ Clock!Init
        /\ EmptyTable
        /\ FreshThreads
        /\ pc = [t \in Thread |-> "start"]
        /\ birth = [t \in Thread |-> 0]
        /\ scan = [t \in Thread |-> NoScan]
        /\ cur = [t \in Thread |-> 0]
        /\ pinned = [t \in Thread |-> {}]

---------------------------------------------------------------------------
(* Announcement table and snapshots *)

\* register: fetch_add on the count gives the thread its slot.
Register(t) == /\ Goto(t, "start", "idle")
               /\ slot' = [slot EXCEPT ![t] = active_count]
               /\ active_count' = active_count + 1
               /\ UNCHANGED <<bench, global_epoch, snapvars, active_ts, limbo, pacing, birth,
                              scan, cur, pinned>>

CallSnapshot(t) == /\ bench.snapshots
                   /\ Goto(t, "idle", "snapping")
                   /\ Clock!Call(t)
                   /\ UNCHANGED <<bench, table, limbo, pacing, birth, scan, cur, pinned>>

AnswerSnapshot(t, ts) == /\ Goto(t, "snapping", "announce")
                         /\ Clock!Answer(t, ts)
                         /\ UNCHANGED <<bench, table, limbo, pacing, birth, scan, cur, pinned>>

Announce(t) == /\ Goto(t, "announce", "snapped")
               /\ active_ts' = [active_ts EXCEPT ![slot[t]] = snap[t]]
               /\ UNCHANGED <<bench, global_epoch, snapvars, active_count, slot, limbo, pacing,
                              birth, scan, cur, pinned>>

Release(t) == /\ Goto(t, "snapped", "idle")
              /\ active_ts' = [active_ts EXCEPT ![slot[t]] = 0]
              /\ Clock!Release(t)
              /\ pinned' = [u \in Thread |-> pinned[u] \ {slot[t]}]
              /\ UNCHANGED <<bench, active_count, slot, limbo, pacing, birth, scan, cur>>

---------------------------------------------------------------------------
(* min_active_ts, on behalf of the drain that follows it *)

\* The load of active_count.
ScanBegin(t, to) ==
    /\ pc' = [pc EXCEPT ![t] = to]
    /\ scan' = [scan EXCEPT ![t] = [n |-> active_count, i |-> 0, min |-> MAX]]
    /\ pinned' = [pinned EXCEPT ![t] = {s \in Slot : active_ts[s] # 0}]

Lower(min, ts) == IF ts # 0 /\ ts < min THEN ts ELSE min

\* The load of the next slot.
ScanSlot(t) ==
    /\ pc[t] \in {"tick", "window"}
    /\ scan[t].i < scan[t].n
    /\ scan' = [scan EXCEPT ![t].i = @ + 1,
                            ![t].min = Lower(@, active_ts[scan[t].i])]
    /\ UNCHANGED <<bench, global_epoch, snapvars, table, limbo, pacing, pc, birth, cur,
                   pinned>>

ScanDone(t) == scan[t].i = scan[t].n

---------------------------------------------------------------------------
(* The write path *)

\* The epoch is advanced, until the benchmark is over.
Advance == global_epoch < bench.epochs /\ Clock!Advance

AtWindow(t) == op_counter[t] % WindowSize = 0

\* Faulty: the epoch is loaded, not incremented.
WriteOpPrepare_Load(t) ==
    /\ Goto(t, "idle", "retire")
    /\ global_epoch < bench.epochs
    /\ birth' = [birth EXCEPT ![t] = global_epoch]
    /\ op_counter[t] < MaxEpoch
    /\ op_counter' = [op_counter EXCEPT ![t] = @ + 1]
    /\ UNCHANGED <<bench, global_epoch, snapvars, table, limbo, hold_ticks, gc_mode,
                   spi_ema, fail_streak, scan, cur, pinned>>

WriteOpPrepare(t) ==
    /\ Goto(t, "idle", "retire")
    /\ Advance
    /\ birth' = [birth EXCEPT ![t] = global_epoch]
    /\ op_counter' = [op_counter EXCEPT ![t] = @ + 1]
    /\ UNCHANGED <<bench, table, limbo, hold_ticks, gc_mode, spi_ema,
                   fail_streak, scan, cur, pinned>>

\* limbo_bag.push, and, where the strategy drains now, the first load of the
\* scan.  BatchEbr drains at the end of a window only.
Retire(t) ==
    /\ pc[t] = "retire"
    /\ limbo' = [limbo EXCEPT ![t] = Append(@, birth[t])]
    /\ birth' = [birth EXCEPT ![t] = 0]
    /\ IF strategy = "BatchEbr" /\ ~AtWindow(t)
       THEN pc' = [pc EXCEPT ![t] = "idle"] /\ UNCHANGED <<scan, pinned>>
       ELSE ScanBegin(t, "tick")
    /\ UNCHANGED <<bench, global_epoch, snapvars, table, pacing, cur>>

\* Faulty: the safety valve frees one node.
TickBudget_One(t) ==
    IF strategy = "PacerDiscrete" /\ gc_mode[t] = "ConservativeHold"
    THEN IF hold_ticks[t] + 1 >= HoldLimit THEN 1 ELSE 0
    ELSE AggressiveDrain

\* Faulty: hold_ticks is not reset when the valve fires.
TicksAfter_NoReset(t) ==
    IF strategy = "PacerDiscrete" /\ gc_mode[t] = "ConservativeHold"
    THEN hold_ticks[t] + 1 ELSE 0

AF_BATCH_K == 1

CONTINUOUS_DRAIN_PER_OP == 1

\* How many nodes the drain of this write may free.
TickBudget(t) ==
    CASE strategy = "BatchEbr" -> Len(limbo[t])
      [] strategy = "TokenAf" -> AF_BATCH_K
      [] strategy = "PacerContinuous" -> CONTINUOUS_DRAIN_PER_OP
      [] strategy = "PacerDiscrete" ->
           CASE gc_mode[t] = "AggressiveEbr" -> AggressiveDrain
             [] gc_mode[t] = "AmortisedFree" -> AF_BATCH_K
             [] gc_mode[t] = "ConservativeHold" ->
                  IF hold_ticks[t] + 1 >= HoldLimit THEN HoldLimit ELSE 0

TicksAfter(t) ==
    IF strategy # "PacerDiscrete" THEN hold_ticks[t]
    ELSE IF gc_mode[t] = "ConservativeHold" /\ hold_ticks[t] + 1 < HoldLimit
         THEN hold_ticks[t] + 1 ELSE 0

\* drain_discrete_tick, drain_continuous_tick or the strategy's own drain.
DrainTick(t) ==
    /\ ScanDone(t)
    /\ Goto(t, "tick", IF AtWindow(t) /\ strategy \in {"PacerDiscrete", "PacerContinuous"}
                       THEN "resample" ELSE "idle")
    /\ limbo' = [limbo EXCEPT ![t] = Drained(@, scan[t].min, TickBudget(t))]
    /\ hold_ticks' = [hold_ticks EXCEPT ![t] = TicksAfter(t)]
    /\ scan' = [scan EXCEPT ![t] = NoScan]
    /\ pinned' = [pinned EXCEPT ![t] = {}]
    /\ UNCHANGED <<bench, global_epoch, snapvars, table, op_counter, gc_mode, spi_ema,
                   fail_streak, birth, cur>>

---------------------------------------------------------------------------
(* The end of a window *)

Strides(t, spi) == op_counter[t] % compute_epoch_stride(spi) = 0

\* resample_spi (the window holds at least this write) and reclaim_discrete.
ReclaimDiscrete(t) ==
    /\ strategy = "PacerDiscrete"
    /\ \E spi \in SpiSample :
         LET mode == select_gc_mode_with_hysteresis(spi, gc_mode[t])
         IN  /\ spi_ema' = [spi_ema EXCEPT ![t] = spi]
             /\ gc_mode' = [gc_mode EXCEPT ![t] = mode]
             /\ Goto(t, "resample", IF mode # "ConservativeHold" /\ Strides(t, spi)
                                    THEN "load_epoch" ELSE "idle")
    /\ UNCHANGED <<bench, global_epoch, snapvars, table, limbo, op_counter, hold_ticks,
                   fail_streak, birth, scan, cur, pinned>>

\* resample_spi and the first load of reclaim_continuous's scan.
ReclaimContinuous(t) ==
    /\ strategy = "PacerContinuous"
    /\ pc[t] = "resample"
    /\ \E spi \in SpiSample : spi_ema' = [spi_ema EXCEPT ![t] = spi]
    /\ ScanBegin(t, "window")
    /\ UNCHANGED <<bench, global_epoch, snapvars, table, limbo, op_counter, hold_ticks,
                   gc_mode, fail_streak, birth, cur>>

\* The drain of reclaim_continuous.  delta_spi is shared by all threads.
DrainWindow(t) ==
    /\ ScanDone(t)
    /\ Goto(t, "window", IF Strides(t, spi_ema[t]) THEN "load_epoch" ELSE "idle")
    /\ \E delta \in {0} \cup SpiSample :
          limbo' = [limbo EXCEPT ![t] =
                      Drained(@, scan[t].min, compute_batch_k(spi_ema[t], delta))]
    /\ scan' = [scan EXCEPT ![t] = NoScan]
    /\ pinned' = [pinned EXCEPT ![t] = {}]
    /\ UNCHANGED <<bench, global_epoch, snapvars, table, pacing, birth, cur>>

\* try_advance_epoch, from step_epoch.
LoadEpoch(t) == /\ Goto(t, "load_epoch", "cas_epoch")
                /\ cur' = [cur EXCEPT ![t] = global_epoch]
                /\ UNCHANGED <<bench, global_epoch, snapvars, table, limbo, pacing, birth, scan,
                               pinned>>

CasEpoch(t) == /\ Goto(t, "cas_epoch", "idle")
               /\ \/ /\ global_epoch = cur[t]
                     /\ Advance
                     /\ fail_streak' = [fail_streak EXCEPT ![t] = 0]
                  \/ /\ global_epoch # cur[t]
                     /\ fail_streak' = [fail_streak EXCEPT ![t] = @ + 1]
                     /\ UNCHANGED <<global_epoch, snapvars>>
               /\ cur' = [cur EXCEPT ![t] = 0]
               /\ UNCHANGED <<bench, table, limbo, op_counter, hold_ticks, gc_mode,
                              spi_ema, birth, scan, pinned>>

---------------------------------------------------------------------------

Step(t) == \/ Register(t)
           \/ CallSnapshot(t)
           \/ \E ts \in 1 .. MaxEpoch : AnswerSnapshot(t, ts)
           \/ Announce(t) \/ Release(t)
           \/ WriteOpPrepare(t) \/ Retire(t) \/ ScanSlot(t) \/ DrainTick(t)
           \/ ReclaimDiscrete(t) \/ ReclaimContinuous(t) \/ DrainWindow(t)
           \/ LoadEpoch(t) \/ CasEpoch(t)

Next == \E t \in Thread : Step(t)

Spec == Init /\ [][Next]_vars

---------------------------------------------------------------------------
(* Properties *)

TypeOK == /\ global_epoch \in 1 .. MaxEpoch
          /\ active_count \in 0 .. Cardinality(Thread)
          /\ active_ts \in [Slot -> 0 .. MaxEpoch]
          /\ slot \in [Thread -> Slot]
          /\ limbo \in [Thread -> Seq(1 .. MaxEpoch)]
          /\ op_counter \in [Thread -> 0 .. MaxEpoch]
          /\ hold_ticks \in [Thread -> 0 .. HoldLimit - 1]
          /\ gc_mode \in [Thread -> Mode]
          /\ spi_ema \in [Thread -> Spi]
          /\ fail_streak \in [Thread -> 0 .. MaxEpoch]
          /\ scan \in [Thread -> [n : 0 .. Cardinality(Thread),
                                  i : 0 .. Cardinality(Thread), min : 1 .. MAX]]

Freed(t) == {n \in 1 .. MaxEpoch : \E i \in DOMAIN limbo[t] : limbo[t][i] = n}
            \ {n \in 1 .. MaxEpoch : \E i \in DOMAIN limbo'[t] : limbo'[t][i] = n}

\* A snapshot that was announced when a drain's scan of the table began, and
\* that is not released yet, keeps every node born at or after it, although the
\* scan loads the slots one by one while other slots change.
PinnedIsKept ==
    [][\A t \in Thread : \A n \in Freed(t) : \A s \in pinned[t] : n < active_ts[s]]_vars

\* Each thread's bag is sorted by birth_ts and no two nodes have the same, so
\* that draining the front of the queue is draining the oldest first.
LimboSorted ==
    /\ \A t \in Thread : \A i, j \in DOMAIN limbo[t] : i < j => limbo[t][i] < limbo[t][j]
    /\ \A t, u \in Thread : t # u => \A i \in DOMAIN limbo[t], j \in DOMAIN limbo[u] :
                                        limbo[t][i] # limbo[u][j]

\* Without snapshots the bag stays bounded, whatever modes the SPI leads through:
\* the safety valve frees what accumulated since it fired, and a mode is left
\* only at the end of a window, when the valve has just fired.
BacklogBounded ==
    strategy = "PacerDiscrete" /\ ~bench.snapshots =>
        \A t \in Thread : Len(limbo[t]) <= IF pc[t] = "tick" THEN hold_ticks[t] + 1
                                                             ELSE hold_ticks[t]

\* "Called from LimboBag::drain on the Rust side once safe_reclaim_ts has passed
\* the node's birth_ts" (cpp/abtree_glue.cpp:181): no node is freed that is not
\* older than every snapshot announced at the time.
FreedIsOlder ==
    [][\A t \in Thread : \A n \in Freed(t) : \A s \in Slot :
          active_ts[s] # 0 => n < active_ts[s]]_vars
=============================================================================
