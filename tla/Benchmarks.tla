----------------------------- MODULE Benchmarks -----------------------------
(***************************************************************************)
(* The worker threads of the two benchmarks.  run_bench_synthetic of       *)
(* src/lib.rs writes nodes that it retires at once, takes snapshots and    *)
(* charges every drain to a simulated allocator.  run_once of src/bench.rs *)
(* updates Brown's tree through src/abtree_ffi.rs and cpp/abtree_glue.cpp, *)
(* whose retire callback puts nodes into the worker's limbo bag.           *)
(*                                                                         *)
(* Left to other modules: which nodes PacerSystem's drains find old        *)
(* enough, how Scc answers, and what the tree's nodes hold.  Here the tree *)
(* is the set of its nodes, of which an update replaces one after another; *)
(* a node is its place in the order of allocation.                         *)
(***************************************************************************)
EXTENDS LimboBag, FiniteSets, FiniteSetsExt

CONSTANTS Thread,         \* the workers
          Run,            \* the benchmarks: "synthetic" or a strategy of bench.rs
          Warmup,         \* WARMUP_SECS, before which bench.rs does not count
          Duration,       \* when the workers stop
          WindowSize,     \* WINDOW_SIZE
          AggressiveDrain,\* AGGRESSIVE_DRAIN_PER_OP
          BaseFree, ContendedFree, \* SIM_BASE_FREE_NS and SIM_CONTENDED_FREE_NS
          Latency,        \* how long a snapshot may take
          Filled,         \* how many nodes the prepopulated tree has
          Handle,         \* what the tree may store in the first word of a node
          MaxOps,         \* bound on the operations of a worker
          MaxNode         \* bound on the nodes allocated

Strategy == {"BatchEbr", "TokenAf", "PacerDiscrete"}

ASSUME RunAssumption == Run \subseteq Strategy \cup {"synthetic"}
ASSUME TimeAssumption == Warmup \in Nat /\ Duration \in Nat
ASSUME DrainAssumption == WindowSize \in Nat \ {0} /\ AggressiveDrain \in Nat
ASSUME CostAssumption == BaseFree \in Nat \ {0} /\ ContendedFree \in Nat
ASSUME LatencyAssumption == Latency \subseteq Nat
ASSUME NodeAssumption == Filled \in Nat /\ MaxOps \in Nat /\ MaxNode \in Nat /\ Filled <= MaxNode
ASSUME HandleAssumption == Handle \subseteq Nat /\ IsFiniteSet(Handle)
ASSUME ThreadAssumption == IsFiniteSet(Thread) /\ Thread # {}

VARIABLES
    run, clock, pc,
    begun, local, counting,    \* a worker's operations, those it counts, and whether it does
    bag,                       \* ThreadLocalState::limbo_bag
    allocated, live, freed,    \* the nodes allocated so far, in the tree, freed
    birth,                     \* the first word of a node, its birth_ts
    reach,                     \* the nodes a worker's tree operation may dereference
    epoch,                     \* AbtreeFFI::epoch or ebr_epoch, whichever stamps nodes
    ts,                        \* tl_epoch_ptr, and the local e of the compare_exchange
    concurrent_freers, total_free_ns, \* AllocatorPressure
    burst,                     \* n, total_ns and end of simulate_free_burst
    p99_ns, prev,              \* Scc::p99_ns and the local of record_latency_ns
    peak_limbo, total_ops,
    reported,                  \* the workers are joined and the result is made
    longest, slowest           \* history: longest bag counted, longest latency recorded

loop == <<begun, local, counting>>
heap == <<allocated, live, freed, birth, reach, epoch, ts>>
pressure == <<concurrent_freers, total_free_ns, burst>>
latency == <<p99_ns, prev, slowest>>
stats == <<peak_limbo, longest, total_ops>>
vars == <<run, clock, pc, loop, bag, heap, pressure, latency, stats, reported>>

Node == 1 .. MaxNode

\* u64::MAX: larger than every epoch and every word that the tree stores.
MAX == Max(Handle \cup {MaxNode + Cardinality(Thread) * 2 * MaxOps}) + 1

NoBurst == [n |-> 0, total_ns |-> 0, end |-> 0]

Goto(t, from, to) == pc[t] = from /\ pc' = [pc EXCEPT ![t] = to]

Larger(a, b) == IF a > b THEN a ELSE b

saturating_sub(a, b) == IF a > b THEN a - b ELSE 0

\* The workers when they have registered.
WorkersStart == /\ pc = [t \in Thread |-> "loop"]
                /\ begun = [t \in Thread |-> 0]
                /\ local = [t \in Thread |-> 0]
                /\ counting = [t \in Thread |-> FALSE]
                /\ bag = [t \in Thread |-> <<>>]
                /\ burst = [t \in Thread |-> NoBurst]
                /\ prev = [t \in Thread |-> 0]
                /\ reach = [t \in Thread |-> {}]
                /\ ts = [t \in Thread |-> 0]

\* Prepopulating the tree advanced AbtreeFFI::epoch, from which its nodes have
\* their stamps, freed what it retired, and left ebr_epoch at 1.
TreeFilled == /\ allocated = IF run = "synthetic" THEN 0 ELSE Filled
              /\ live = 1 .. allocated
              /\ freed = {}
              /\ birth = [n \in Node |-> IF n \in live THEN n ELSE 0]
              /\ epoch = IF run = "PacerDiscrete" THEN Filled + 1 ELSE 1

NoPressure == concurrent_freers = 0 /\ total_free_ns = 0

Init == /\ run \in Run
        /\ WorkersStart /\ TreeFilled /\ NoPressure
        /\ clock = 0
        /\ p99_ns = 0 /\ slowest = 0
        /\ peak_limbo = 0 /\ longest = 0
        /\ total_ops = 0
        /\ reported = FALSE

\* Time passes; past the end only as long as somebody waits for it.
Tick == /\ clock < Duration \/ \E t \in Thread : pc[t] = "spin" /\ clock < burst[t].end
        /\ clock' = clock + 1
        /\ UNCHANGED <<run, pc, loop, bag, heap, pressure, latency, stats, reported>>

---------------------------------------------------------------------------
(* The loop of both benchmarks *)

\* There is time for another operation; which one is random.
Begin(t) == /\ clock < Duration /\ begun[t] < MaxOps
            /\ Goto(t, "loop", "op")
            /\ begun' = [begun EXCEPT ![t] = @ + 1]
            /\ counting' = [counting EXCEPT ![t] = run = "synthetic" \/ clock >= Warmup]
            /\ UNCHANGED <<run, clock, local, bag, heap, pressure, latency, stats, reported>>

\* The operation is counted and the length of the bag compared with the peak.
Count(t) == LET len == Len(bag[t])
            IN  /\ Goto(t, "count", IF len > peak_limbo THEN "peak" ELSE "loop")
                /\ local' = [local EXCEPT ![t] = IF counting[t] THEN @ + 1 ELSE @]
                /\ counting' = [counting EXCEPT ![t] = FALSE]
                /\ longest' = Larger(longest, len)
                /\ UNCHANGED <<run, clock, begun, bag, heap, pressure, latency,
                               peak_limbo, total_ops, reported>>

\* Faulty: a store instead of fetch_max.
RaisePeak_Store(t) == /\ Goto(t, "peak", "loop")
                      /\ peak_limbo' = Len(bag[t])
                      /\ UNCHANGED <<run, clock, loop, bag, heap, pressure, latency, longest,
                                     total_ops, reported>>

RaisePeak(t) == /\ Goto(t, "peak", "loop")
                /\ peak_limbo' = Larger(peak_limbo, Len(bag[t]))
                /\ UNCHANGED <<run, clock, loop, bag, heap, pressure, latency, longest,
                               total_ops, reported>>

---------------------------------------------------------------------------
(* Draining a bag of nodes *)

\* t's bag after drain(safe_ts, k), and the nodes this frees.
Drain(t, safe_ts, k) ==
    LET n == DrainCount([i \in 1 .. Len(bag[t]) |-> birth[bag[t][i]]], safe_ts, k)
    IN  /\ bag' = [bag EXCEPT ![t] = SubSeq(@, n + 1, Len(@))]
        /\ freed' = freed \cup {bag[t][i] : i \in 1 .. n}

---------------------------------------------------------------------------
(* run_bench_synthetic *)

\* take_snapshot has its answer: record_latency_ns loads the average.
Snapshot(t) == /\ run = "synthetic"
               /\ Goto(t, "op", "latency")
               /\ prev' = [prev EXCEPT ![t] = p99_ns]
               /\ UNCHANGED <<run, clock, loop, bag, heap, pressure, p99_ns, slowest, stats,
                              reported>>

\* Faulty: the sample has its whole weight.
Smoothed_Sum(old, ns) == (9 * old + 10 * ns) \div 10

Smoothed(old, ns) == (9 * old + ns) \div 10

\* record_latency_ns stores the average.
RecordLatency(t) == /\ Goto(t, "latency", "count")
                    /\ \E ns \in Latency : /\ p99_ns' = Smoothed(prev[t], ns)
                                           /\ slowest' = Larger(slowest, ns)
                    /\ prev' = [prev EXCEPT ![t] = 0]
                    /\ UNCHANGED <<run, clock, loop, bag, heap, pressure, stats, reported>>

\* A write: the new node is retired at once, and n nodes of the bag are drained.
Write(t) == /\ run = "synthetic"
            /\ pc[t] = "op"
            /\ allocated < MaxNode
            /\ allocated' = allocated + 1
            /\ LET filled == Append(bag[t], allocated + 1)
               IN \E n \in 0 .. Len(filled) :
                     /\ bag' = [bag EXCEPT ![t] = SubSeq(filled, n + 1, Len(filled))]
                     /\ freed' = freed \cup {filled[i] : i \in 1 .. n}
                     /\ burst' = [burst EXCEPT ![t].n = n]
            /\ pc' = [pc EXCEPT ![t] = "burst"]
            /\ UNCHANGED <<run, clock, loop, live, birth, reach, epoch, ts, concurrent_freers,
                           total_free_ns, latency, stats, reported>>

\* Faulty: the thread counts itself before it finds that there is nothing to free.
EnterBurst_Empty(t) ==
    /\ Goto(t, "burst", IF burst[t].n = 0 THEN "count" ELSE "clock")
    /\ burst' = [burst EXCEPT ![t].total_ns = @]
    /\ concurrent_freers' = concurrent_freers + 1
    /\ UNCHANGED <<run, clock, loop, bag, heap, total_free_ns, latency, stats, reported>>

\* simulate_free_burst: the cost of a node grows with the threads that are inside.
EnterBurst(t) ==
    /\ \/ /\ burst[t].n = 0
          /\ Goto(t, "burst", "count")
          /\ UNCHANGED <<burst, concurrent_freers>>
       \/ /\ burst[t].n > 0
          /\ Goto(t, "burst", "clock")
          /\ concurrent_freers' = concurrent_freers + 1
          /\ burst' = [burst EXCEPT ![t].total_ns =
                          (BaseFree + ContendedFree * concurrent_freers) * burst[t].n]
    /\ UNCHANGED <<run, clock, loop, bag, heap, total_free_ns, latency, stats, reported>>

StartSpin(t) == /\ Goto(t, "clock", "spin")
                /\ burst' = [burst EXCEPT ![t].end = clock + burst[t].total_ns]
                /\ UNCHANGED <<run, clock, loop, bag, heap, concurrent_freers, total_free_ns,
                               latency, stats, reported>>

\* Faulty: the time is charged and not spent.
EndSpin_Early(t) == /\ Goto(t, "spin", "leave")
                    /\ total_free_ns' = total_free_ns + burst[t].total_ns
                    /\ UNCHANGED <<run, clock, loop, bag, heap, concurrent_freers, burst,
                                   latency, stats, reported>>

\* Faulty: the end is computed anew in each turn of the waiting loop.
EndSpin_Never(t) == /\ clock >= clock + burst[t].total_ns
                    /\ EndSpin_Early(t)

EndSpin(t) == /\ clock >= burst[t].end
              /\ Goto(t, "spin", "leave")
              /\ total_free_ns' = total_free_ns + burst[t].total_ns
              /\ UNCHANGED <<run, clock, loop, bag, heap, concurrent_freers, burst, latency,
                             stats, reported>>

\* Faulty: the thread is taken off the count in the waiting branch too.
LeaveBurst_Twice(t) == /\ Goto(t, "leave", "count")
                       /\ concurrent_freers' = concurrent_freers - 2
                       /\ burst' = [burst EXCEPT ![t] = NoBurst]
                       /\ UNCHANGED <<run, clock, loop, bag, heap, total_free_ns, latency, stats,
                                      reported>>

LeaveBurst(t) == /\ Goto(t, "leave", "count")
                 /\ concurrent_freers' = concurrent_freers - 1
                 /\ burst' = [burst EXCEPT ![t] = NoBurst]
                 /\ UNCHANGED <<run, clock, loop, bag, heap, total_free_ns, latency, stats,
                                reported>>

---------------------------------------------------------------------------
(* run_once: operations of the tree *)

\* fetch_add on the epoch stamps the operation; then the tree is searched.
Search(t) == /\ run \in Strategy
             /\ Goto(t, "op", "tree")
             /\ ts' = [ts EXCEPT ![t] = epoch]
             /\ epoch' = epoch + 1
             /\ reach' = [reach EXCEPT ![t] = live]
             /\ UNCHANGED <<run, clock, loop, bag, allocated, live, freed, birth, pressure,
                            latency, stats, reported>>

\* Faulty: a node is retired although the SCX that replaces it failed.
Replace_Failed(t) ==
    /\ pc[t] = "tree"
    /\ \E old \in live : bag' = [bag EXCEPT ![t] = Append(@, old)]
    /\ UNCHANGED <<run, clock, pc, loop, heap, pressure, latency, stats, reported>>

\* pacer_retire_cb, in the thread that removed the node.
pacer_retire_cb(t, node) == bag' = [bag EXCEPT ![t] = Append(@, node)]

\* The SCX of an update or of rebalancing replaces a node by one that
\* PacerAllocator::allocate has stamped.  PacerReclaimer::retire takes the first
\* word of the old node for its birth_ts: the stamp, or what the tree put there.
Replace(t) ==
    /\ pc[t] = "tree"
    /\ allocated < MaxNode
    /\ allocated' = allocated + 1
    /\ \E old \in live :
         \E word \in {birth[old]} \cup Handle :
            /\ live' = (live \ {old}) \cup {allocated + 1}
            /\ birth' = [birth EXCEPT ![allocated + 1] = ts[t], ![old] = word]
            /\ pacer_retire_cb(t, old)
    /\ reach' = [u \in Thread |-> IF pc[u] = "tree" THEN reach[u] \cup {allocated + 1}
                                                    ELSE reach[u]]
    /\ UNCHANGED <<run, clock, pc, loop, freed, epoch, ts, pressure, latency, stats, reported>>

AtWindow(t) == begun[t] % WindowSize = 0

\* The tree's insert or erase returns.  BatchEbr drains at the end of a window.
Return(t) == /\ Goto(t, "tree", IF run = "BatchEbr" /\ ~AtWindow(t) THEN "count" ELSE "drain")
             /\ reach' = [reach EXCEPT ![t] = {}]
             /\ ts' = [ts EXCEPT ![t] = 0]
             /\ UNCHANGED <<run, clock, loop, bag, allocated, live, freed, birth, epoch,
                            pressure, latency, stats, reported>>

\* Nobody announces a snapshot, so that safe_reclaim_ts is u64::MAX, and with an
\* SPI of 0 the mode stays AggressiveEbr.
drain_discrete_tick(t) == run = "PacerDiscrete" /\ Drain(t, MAX, AggressiveDrain)

FlushBag(t) == run = "BatchEbr" /\ Drain(t, saturating_sub(epoch, 2), Len(bag[t]))

DrainOne(t) == run = "TokenAf" /\ Drain(t, saturating_sub(epoch, 2), 1)

\* The drain of the operation.
DrainAfter(t) ==
    /\ Goto(t, "drain", IF run # "PacerDiscrete" /\ AtWindow(t) THEN "load_epoch" ELSE "count")
    /\ drain_discrete_tick(t) \/ FlushBag(t) \/ DrainOne(t)
    /\ UNCHANGED <<run, clock, loop, allocated, live, birth, reach, epoch, ts, pressure,
                   latency, stats, reported>>

LoadEpoch(t) == /\ Goto(t, "load_epoch", "cas_epoch")
                /\ ts' = [ts EXCEPT ![t] = epoch]
                /\ UNCHANGED <<run, clock, loop, bag, allocated, live, freed, birth, reach, epoch,
                               pressure, latency, stats, reported>>

CasEpoch(t) == /\ Goto(t, "cas_epoch", "count")
               /\ epoch' = IF epoch = ts[t] THEN epoch + 1 ELSE epoch
               /\ ts' = [ts EXCEPT ![t] = 0]
               /\ UNCHANGED <<run, clock, loop, bag, allocated, live, freed, birth, reach,
                              pressure, latency, stats, reported>>

---------------------------------------------------------------------------
(* The end *)

\* Faulty: the worker drains what its strategy finds old enough.
ExitDrain_Safe(t) == Drain(t, saturating_sub(epoch, 2), Len(bag[t]))

\* bench.rs drains everything; the bags of run_bench_synthetic are dropped as
\* they are, and LimboBag has no destructor.
ExitDrain(t) == IF run = "synthetic" THEN UNCHANGED <<bag, freed>>
                                     ELSE Drain(t, MAX, Len(bag[t]))

Exit(t) == /\ clock >= Duration
           /\ Goto(t, "loop", "done")
           /\ ExitDrain(t)
           /\ total_ops' = total_ops + local[t]
           /\ UNCHANGED <<run, clock, loop, allocated, live, birth, reach, epoch, ts, pressure,
                          latency, peak_limbo, longest, reported>>

\* The workers are joined and the result is made.  Dropping AbtreeFFI destroys
\* the tree with the nodes that are still in it.
Report == /\ ~reported
          /\ \A t \in Thread : pc[t] = "done"
          /\ reported' = TRUE
          /\ freed' = freed \cup live
          /\ live' = {}
          /\ UNCHANGED <<run, clock, pc, loop, bag, allocated, birth, reach, epoch, ts, pressure,
                         latency, stats>>

Step(t) == \/ Begin(t) \/ Count(t) \/ RaisePeak(t) \/ Exit(t)
           \/ Snapshot(t) \/ RecordLatency(t)
           \/ Write(t) \/ EnterBurst(t) \/ StartSpin(t) \/ EndSpin(t) \/ LeaveBurst(t)
           \/ Search(t) \/ Replace(t) \/ Return(t) \/ DrainAfter(t)
           \/ LoadEpoch(t) \/ CasEpoch(t)

Next == Tick \/ Report \/ \E t \in Thread : Step(t)

Spec == Init /\ [][Next]_vars

\* Time passes, every worker is scheduled, and the main thread joins them.
FairSpec == Spec /\ WF_vars(Tick) /\ WF_vars(Report) /\ \A t \in Thread : WF_vars(Step(t))

---------------------------------------------------------------------------
(* Properties *)

Pc == {"loop", "op", "count", "peak", "latency", "burst", "clock", "spin", "leave", "tree",
       "drain", "load_epoch", "cas_epoch", "done"}

InBurst(t) == pc[t] \in {"clock", "spin", "leave"}

TypeOK == /\ run \in Run /\ clock \in Nat /\ pc \in [Thread -> Pc]
          /\ begun \in [Thread -> Nat] /\ local \in [Thread -> Nat]
          /\ counting \in [Thread -> BOOLEAN]
          /\ bag \in [Thread -> Seq(Node)]
          /\ allocated \in 0 .. MaxNode
          /\ live \subseteq Node /\ freed \subseteq Node
          /\ birth \in [Node -> Nat]
          /\ reach \in [Thread -> SUBSET Node]
          /\ epoch \in Nat /\ ts \in [Thread -> Nat]
          /\ concurrent_freers \in Nat /\ total_free_ns \in Nat
          /\ burst \in [Thread -> [n : Nat, total_ns : Nat, end : Nat]]
          /\ p99_ns \in Nat /\ prev \in [Thread -> Nat]
          /\ peak_limbo \in Nat /\ total_ops \in Nat /\ longest \in Nat /\ slowest \in Nat
          /\ reported \in BOOLEAN

InBag(t) == {bag[t][i] : i \in DOMAIN bag[t]}

\* Every node is in the tree, in one bag in one place, or freed: between the SCX,
\* the retire callback and the drains of two allocators none is lost, none is in
\* two bags and none is freed twice.
OneFate ==
    /\ \A t \in Thread : \A i, j \in DOMAIN bag[t] : bag[t][i] = bag[t][j] => i = j
    /\ \A t, u \in Thread : t # u => InBag(t) \cap InBag(u) = {}
    /\ \A t \in Thread : InBag(t) \cap (live \cup freed) = {}
    /\ live \cap freed = {}
    /\ 1 .. allocated = live \cup freed \cup UNION {InBag(t) : t \in Thread}

\* When run_once is over everything it allocated is freed, also the nodes that
\* a drain never reached because an unripe one, or one with a word of the tree
\* for a birth_ts, was before them in the bag.
NothingLeft == reported /\ run \in Strategy => freed = 1 .. allocated

\* The result has the peak of all workers' bags, although the peak is compared
\* and raised in two accesses, and the operations of all workers.
ResultExact == reported => /\ peak_limbo = longest
                           /\ total_ops = MapThenSumSet(LAMBDA t : local[t], Thread)

\* concurrent_freers counts the threads inside simulate_free_burst, no more and no
\* less, whatever path they leave it by.
FreersExact == concurrent_freers = Cardinality({t \in Thread : InBurst(t)})

\* BenchResult::new: the percentage of the workers' time spent in free().
pct_time_in_free == IF clock > 0
                    THEN (100 * total_free_ns) \div (clock * Cardinality(Thread)) ELSE 0

\* The percentage is one: bursts of different threads overlap and make each other
\* longer, but no thread is charged for time that it did not wait.
PercentageIsOne == pct_time_in_free \in 0 .. 100 /\ (clock = 0 => total_free_ns = 0)

\* The average latency is never above the longest latency recorded, although
\* threads overwrite each other's samples, and 0 when there are no snapshots.
LatencyBounded == p99_ns <= slowest

\* The benchmark ends: no worker waits for ever in a burst, and main joins all.
Reports == <>reported

\* "the rest are no-ops because PACER handles epoch tracking on the Rust side via
\* the announcement table" (cpp/abtree_glue.cpp:67): no node is freed that an
\* operation of the tree, which begin_op and end_op would bracket, can reach.
FreedIsUnreachable == \A t \in Thread : reach[t] \cap freed = {}
=============================================================================
