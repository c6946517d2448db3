# PACER: a verification project

PACER is a memory reclaimer for concurrent data structures that adapts how fast
it frees to the share of snapshots (read-only operations) in the workload, the
*SPI*. The repository holds it twice: as a C++ reclaimer for the SetBench
harness (`pacer/reclaimer_pacer.h`), which is driven by a lock-free (a,b)-tree
(`cpp/brown_ext_abtree_lf_impl.h`), and as a Rust library (`src/lib.rs`) with
timestamps, a snapshot cache and a synthetic benchmark. This project models the
two reclaimers, the snapshot cache, the control loop that they share, the tree
and the workers of the two Rust benchmarks, checks them with TLC on small
instances, and proves with TLAPS, for any number of threads, every safety property
and every refinement that the runs check.

## Inventory

| part | state | operations | what makes it correct |
|---|---|---|---|
| `reclaimer_pacer` (C++) | per thread: token, bags `curr`, `last`, `deamortizedFreeables`, SPI average, mode, `hold_ticks` | `initThread`, `startOp`, `endOp`, `retire`, `rotateEpochBags`, `deinitThread` | a record is freed only when no operation can reach it; the token goes round; what is retired is freed |
| (a,b)-tree (C++) | nodes, linked by child pointers; weight 0 or 1 | `find`, `insert`, `insertIfAbsent`, `erase`, `fixWeightViolation`, `fixDegreeViolation` | a linearizable dictionary; ordered and balanced up to its weights; what is removed is retired, once |
| SPI control (both) | average, its last change, mode | `resample_spi`, the two classifiers, `compute_*` | no flapping; both copies agree; parameters in range |
| `Scc` (Rust) | generation, timestamp, opening time and length of the current window | `take_snapshot` | answers never go back in time; a window begins when the one before it is over; openers do not keep a call in its loop |
| `AnnouncementTable`, `LimboBag`, `PacerSystem` (Rust) | epoch, one slot per thread, one queue of retired nodes per thread | `register`, `announce`, `release`, `min_active_ts`, `write_op_prepare`, `post_write`, `drain`, `reclaim_*`, `try_advance_epoch` | an announced snapshot protects nodes; the backlog is bounded |
| synthetic benchmark (Rust) | strategy, `AllocatorPressure`, latency average, peak, counts | `run_bench_synthetic`, `simulate_free_burst`, `record_latency_ns`, `BenchResult::new` | the result says what happened; the run ends |
| FFI test bed (`cpp/abtree_glue.cpp`, `src/abtree_ffi.rs`, `src/bench.rs`) | the tree, a stamp in the first word of each node, one limbo bag per worker, two epochs | `insert`, `remove` and their `no_gc` forms, `retire`, `allocate`, `pacer_retire_cb`, `run_once` | nodes freed once and after their last reader; nothing left at the end |
| instrumentation | `pacer/pacer_instr.h` | histograms | measurement only |

How they interact. A tree operation calls `startOp`, searches the tree, replaces
nodes with an SCX, calls `retire` on each node it removed, and `endOp`. In
`startOp` the holder of the token passes it to its neighbour and rotates its
bags; every `startOp` then frees some records. On the Rust side a write takes a
timestamp from the epoch, puts the replaced node into the limbo bag and drains
the bag up to the smallest announced snapshot; a snapshot asks `Scc` for a
timestamp and announces it until it is released. `Scc` reads the epoch. The
control loop of both sides turns counts of reads and writes into a mode.

What is hard here. The stores that pass the token, and the rotation, interleave
with every other thread's operations, and the grace period is nowhere written
down as a condition. `Scc` is a seqlock whose readers do not look at the
generation a second time. The table is scanned slot by slot. The tree is changed
under the feet of its searches, and rebalancing hands violations from thread to
thread. `hazards` in `PROJECT.json` lists these places by line, with the
properties that are about them.

## Modules

| module | models | kind |
|---|---|---|
| `GcMode` | the modes, thresholds and both classifiers | operators |
| `SpiControl` | averaging and pacing parameters | operators |
| `MCSpiControl` | one thread's control loop over arbitrary windows | state machine |
| `SafeReclamation` | what a grace-period reclaimer promises | abstract specification |
| `ReclaimerPacer` | `reclaimer_pacer.h` with the tree's SCXs as client | state machine |
| `SnapshotClock` | what users of `take_snapshot` rely on | abstract specification |
| `Scc` | `take_snapshot` | state machine |
| `LimboBag` | which nodes `drain` takes from the front of a bag | operators |
| `PacerSystem` | the Rust library and the benchmark's worker, with `SnapshotClock` in the place of `Scc` | composition |
| `Dictionary` | a linearizable map | abstract specification |
| `ABtree` | the tree | state machine |
| `Benchmarks` | the workers of `run_bench_synthetic` and of `bench.rs`, the latter with bindings and glue | composition |
| `ReclaimerPacerProofs`, `SccProofs`, `SpiControlProofs`, `PacerSystemProofs`, `BenchmarksProofs`, `ABtreeProofs` | theorems about the module in the name | proofs |
| `ABtreeSearchProofs` | theorems about what searches through `ABtree` find | proofs |
| `SharedLemmas` | finite sets and sums, and `LimboBag`, for the proofs | proofs |
| `MC*` | values for TLC | |

The three abstract specifications are the joints. `ReclaimerPacer` implements
`SafeReclamation`, which `ABtree` assumes when it never reuses a node. `Scc`
implements `SnapshotClock`, whose actions `PacerSystem` takes as steps of its
own. `ABtree` implements `Dictionary`. Definitions named `X_Something` under a
comment that begins with "Faulty" are deliberate errors in `X`, used to see that
a property can fail; no specification uses them.

### ReclaimerPacer

One action per access to the shared token: `StartOp` tests it, `ClearToken` and
`PassToken` are the two stores, `Rotate` is the thread-local work behind them
(resampling and `rotateEpochBags` of every record type), `Drain` the rest of
`startOp`. `Scx`, `Retire` and `EndOp` are the tree operation.

- `reach[t]` is what t's operation may dereference: every record that was in the
  tree at some time since the operation began. This is more than a search meets,
  so what is safe for it is safe for the tree.
- `blockbag` and the pool are external. A bag is a set of records in full blocks
  and a set in its head block; `remove` takes any record.
- Records carry their type. All types rotate; `Drain` frees records of the first
  type only, as the code does.
- `spi_ema` becomes any value of `SpiSample` at a rotation.
- `deinitThread` frees without a grace period. `DeinitThread` needs every thread
  to be outside `startOp`..`endOp`, which the harness establishes by joining the
  threads' work before; `initThread` may follow.
- Threads interleave at single accesses in program order. The token is
  `volatile`, so this is what a compiler for x86 makes of it; other memory orders
  are not modelled.

The file's header says `AggressiveEbr: drain entire bag at rotation`; the code
drains nothing at rotation (line 134) and the model follows the code.

### Scc

One action per load, store and compare-and-swap of `take_snapshot`. Spinning on
an odd generation is a load that is not enabled. `now_ns` is read from a clock at
the call and is old by the time it is used. A thread keeps its answer until it
releases the snapshot and calls again, as the benchmark's workers do. The counters and the latency feed
only `compute_w`, so the new window is any of `Window`. The orderings in the code
are Acquire and Release on everything that carries a timestamp, so a reader sees
what its generation load synchronised with or something newer, which interleaving
covers. `windows` and `lost` are history: the timestamp, opening time and length of
each window that was published, and how often a call has lost its compare-and-swap.

### PacerSystem

One action per access to the epoch, the table's count and each slot. A node is
its birth timestamp. `bench` is what `run_bench_synthetic` is called with; its
`epochs` is a bound. The drains of the four strategies are one action, `DrainTick`,
with a budget by strategy and mode. Calls, answers and releases of snapshots are
the steps of `SnapshotClock`. `pinned` is history: the snapshots that were
announced when a scan began and have not been released since.

### ABtree

A search takes one child pointer per step (`Enter`, `Descend`); the locals `gp`,
`p`, `l` and their indices are `pos`. LLX and SCX are external: an SCX succeeds
only if nothing passed to it has changed since its LLX, so the LLXs, the tests
after them and the SCX are one step that looks at the nodes as they are then, and
`Retry` is an attempt that fails, for whatever reason, at any time. `todo` is the
stack of calls of the fix functions. Addresses grow and are never reused.
`seen[t]` and `givenUp` are history. A workload fills the tree with one thread
and then lets all threads call.

`rangeQuery` is not implemented in the code; the destructor and the statistics
walk a tree that nobody changes.

### Benchmarks

One module for two programs, because their worker loops are the same: look at
the time, do one operation, count it, compare the bag with the peak, and at the
end hand in the count. `run` says which program it is: `"synthetic"` or one of
the three strategies of `bench.rs`.

- *Synthetic*: `Write` and `Snapshot` are the two operations. How many nodes a
  write frees is `PacerSystem`'s subject; here it is any number. `EnterBurst`,
  `StartSpin`, `EndSpin` and `LeaveBurst` are `simulate_free_burst` access by
  access, in units of the clock that the wait looks at. `Snapshot` and
  `RecordLatency` are the load and the store of `record_latency_ns`.
- *Test bed*: `Search` takes the stamp and enters the tree, `Replace` is an SCX of
  an update or of rebalancing with the allocation before it and the retirement
  after it, `Return` leaves the tree, `DrainAfter` is the strategy's drain, `LoadEpoch`
  and `CasEpoch` step `ebr_epoch`. The tree is the set of its nodes, and `reach[t]`
  is what a search of t may meet, as in `ReclaimerPacer`. `Replace` retires one node
  and is repeated for steps that remove more.
- `PacerAllocator` writes the stamp to offset 0 of a node and `PacerReclaimer::retire`
  reads it back from there. The tree's `Node` begins with `scxPtr`, so what is read
  may be a word of the tree: `Replace` chooses between the stamp and a word of
  `Handle`.
- A bag of the test bed is not sorted: nodes are retired in another order than they
  were stamped. So a drain of BatchEbr does not "flush entire limbo bag"
  (`bench.rs`, line 86), and not even all that is old enough. With nodes of stamps 1
  and 2 in the prepopulated tree, an update that retires the second and then the first
  leaves both in the bag at epoch 4, where safe is 2, for the first in the bag is not
  below 2. A stamp far above `ebr_epoch`, or a word of the tree, keeps all that is behind
  it until the worker exits; `NothingLeft` is that it is freed then.
- Prepopulating counts up `AbtreeFFI::epoch`, the strategies EBR and token_af stamp
  from `ebr_epoch`, which starts at 1 (`TreeFilled`).
- `PacerSystem`'s epoch and mode in the test bed are left out: nothing there reads
  that epoch, and with no snapshots the SPI is 0 and the mode stays AggressiveEbr.

The repository's README calls the test bed unfinished, for want of SetBench headers;
the model is of what the glue's code does with a tree that calls it the way its
comments describe.

### GcMode, SpiControl

SPI and rates are in thousandths. `WindowSpi`, `Ema` and the parameters keep the
formula and the truncation or rounding of the code on that grid.

## Runs

Passing runs check all interleavings of the instance; each property is also
checked to fail for a plausible mistake in the code (`mutants`).

| run | shows |
|---|---|
| `reclaimer_ring` | `NoUseAfterFree`, `GraceInv`, `TokenUnique`, `Conservation`, and the refinement `KeepsPromise`, with three threads that also exit and come back |
| `reclaimer_live` | `TokenCirculates`, `Ripens`, `DrainProgress`: the ring does not stop, retired records become freeable, freeable records are freed also in ConservativeHold |
| `scc_contract` | the refinement `KeepsContract`, `OneWriter`, `WindowsDisjoint` (each window begins when the one before it is over, by its own length), `FewRetries` (a call loses the race for a window at most as often as there are threads), and `SomeCallAnswers` (while there are calls, calls answer) |
| `pacer_bags` | `PinnedIsKept`, `LimboSorted` under all strategies; `BacklogBounded` for writes only |
| `spi_control` | `NoFlapping`, `SelectorsAgree`, `ParametersInRange` |
| `abtree` | `Ordered`, `Balanced`, `RetiredIsRemoved`, `HasGrandparent`, `ViolationsOwned`, and the refinement `KeepsDictionary` |
| `benchmarks` | `OneFate`, `NothingLeft`, `ResultExact`, `FreersExact`, `PercentageIsOne`, `LatencyBounded`, and `Reports`, for both programs |

Five runs end in a violation. Each is a sentence of the repository that the code
does not keep; `findings` quotes it.

| run | the code |
|---|---|
| `reclaimer_head_block` | a partly filled block is not "freed a rotation later" but when later retirements have filled it |
| `reclaimer_rest_types` | the drain that "guarantees memory is reclaimed" serves one record type of those that rotate |
| `scc_torn_window` | a hit may combine two windows; `scc_contract` shows that no caller can tell |
| `pacer_late_announce` | a node may be freed that is not older than a snapshot announced by then; `PinnedIsKept` is what does hold |
| `testbed_unprotected` | tree operations of the test bed announce nothing, so "epoch tracking on the Rust side via the announcement table" protects no node from being freed under a search |

`ViolationsOwned` has an exception, a degree violation that `fixDegreeViolation`
gives up because the parent has one child ("must be resolved at a higher level",
line 1006). It may stay in the tree after all calls have returned: the fix of the
parent merges it with its sibling and does not look at its child again. The tree
stays correct, a little less dense than its comments say.

### Bounds

- `reclaimer_ring`: three threads is the smallest ring in which the token's way to
  a thread and its way back differ. Three records: one in the tree and two to
  replace it in turn, so that one is in `last` and one in `curr` of the same
  thread. Blocks of one record, so that every retirement can be freed;
  the record that is in the tree first is of a second type.
- `reclaimer_live`: two threads, two records, `HoldLimit` 2 (8 in the code); the
  SPI alternates freely between AmortisedFree and ConservativeHold.
- `scc_contract`: two threads, three epochs, clock 0 to 2, windows of 1 and 2:
  three windows one after the other, with a thread that is two windows late; and a
  window of 2 that is asked about after 1. The clock's bound allows finitely many
  windows, and neither claim about progress leans on it: `FewRetries` counts, and
  `FewLost` proves it for every bound; a behaviour that refutes `SomeCallAnswers` has
  no answers from some point on, so it opens finitely many windows under any clock.
- `pacer_bags`: two threads; windows of two writes and a valve at two (256 and 8
  in the code; the model assumes that the second divides the first, and
  `BacklogBounded` rests on it). Up to four writes with
  snapshots, eleven without.
- `spi_control`: windows of up to three reads and three writes move the average
  through the whole range; it is the complete set of reachable averages.
- `abtree`: DEGREE 3 gives a = 2 and b = 3, the smallest legal tree, where each
  structural case comes up after a few calls. Six ascending keys make a tree whose
  next insertions split, eight make one with three levels, so that merges below
  the root and at the root both happen. Two updates at the ends and in the middle
  of these; three erasures, the fewest that leave a node with one child; all
  operations on two keys in different leaves with two values, and three calls on
  one key.
- `benchmarks`, `testbed_unprotected`: two workers with two operations each, time 0
  to 2 with a warmup of 1, windows of two operations. Three nodes: with one in the
  tree at first, each worker may replace what the other one put there. A burst of
  one node costs 1, and 1 more with a rival, so bursts overlap and reach past the
  end. A node's word is its stamp or 1000, above every epoch.

Deadlock is not checked where the bound on epochs or calls ends every behaviour
(`PacerSystem`, `ABtree`), and in `Benchmarks`, which is over when it has reported.

### Fairness

- `ReclaimerPacer`: weak fairness for each step of `startOp` and `retire`, which
  have no loops and no waiting, and for starting the next operation (a thread that
  stops calling keeps the token, and the ring stops: this is so in the code).
  Strong fairness for `EndOp`: the tree is lock-free, so that a given operation
  ends is an assumption on the schedule. `DeinitThread` is excluded.
- `Scc`: weak fairness for the steps of each thread inside `take_snapshot`; none
  for calling, for the clock or for the epoch. That every call answers does not
  follow and is not claimed: a reader whose loads all fall between a compare-and-swap
  and the store that publishes spins for ever, while windows come and go. Strong
  fairness would exclude this, but nothing in the code gives it, and a comment in its
  tests (lib.rs:936) says that progress under contention needs a fairness that cannot be
  assumed. `SomeCallAnswers` is lock-freedom: some call answers, unless at times nobody is
  in a call.
- `Benchmarks`: weak fairness for the clock (time passes), for each worker (the
  system schedules it; its loops end by the clock, and an operation of the tree may
  end at any time and runs out of nodes to replace) and for the main thread's join.

## Proofs

TLAPS checks the theorems below to their last step, for every value of the
constants that the assumptions of the modules allow. Each is of the form
`Spec => []P` or `Spec => P`, where P is a property that a run checks, unless the
table says otherwise. `Safe` (for the tree `SpecInv`, and the proofs of
`TreeIsDictionary` and `EachViolationOwned`) is the theorem that a module's inductive
invariant holds. TLC checked these invariants on the run's instance first; of the
tree's, which begin with a quantifier over a function on addresses, it checked what
they say of the properties.

| module | theorem | property |
|---|---|---|
| `ReclaimerPacerProofs` | `TypeCorrect` | `TypeOK` |
| | `OneToken` | `TokenUnique` |
| | `GracePeriod` | `GraceInv` |
| | `FreedIsUnreachable` | `NoUseAfterFree` |
| | `OnePlace` | a record is in one place only, `PlaceInv` |
| | `Conserved` | `Conservation` |
| | `Refines` | `KeepsPromise`: the reclaimer implements `SafeReclamation` |
| `SccProofs` | `TypeCorrect`, `SingleWriter`, `Disjoint`, `FewLost` | `TypeOK`, `OneWriter`, `WindowsDisjoint`, `FewRetries` |
| | `Refines` | `KeepsContract`: `take_snapshot` implements `SnapshotClock` |
| `SpiControlProofs` | `Agree`, `InRange`, `DeadBand` | `SelectorsAgree`, `ParametersInRange`, `NoFlapping` |
| | `SameSelector` | both classifiers are one function |
| | `WindowInRange` | `compute_w` for every argument |
| `SharedLemmas` | `DrainExact`, `DrainKeepsYoung` | what `drain` takes and leaves, for every bag |
| `PacerSystemProofs` | `TypeCorrect`, `BagsSorted`, `Backlog` | `TypeOK`, `LimboSorted`, `BacklogBounded` |
| | `PinnedKept` | `PinnedIsKept` |
| `BenchmarksProofs` | `TypeCorrect`, `Fate`, `Emptied` | `TypeOK`, `OneFate`, `NothingLeft` |
| | `Result`, `Freers`, `Percentage`, `LatencyCorrect` | `ResultExact`, `FreersExact`, `PercentageIsOne`, `LatencyBounded` |
| `ABtreeProofs` | `TypesKept`, `AlwaysOrdered`, `AlwaysBalanced` | `TypeOK`, `Ordered`, `Balanced` |
| | `RetiresWhatItRemoves`, `FixHasGrandparent` | `RetiredIsRemoved`, `HasGrandparent` |
| `ABtreeSearchProofs` | `TreeIsDictionary` | `KeepsDictionary`: the tree implements `Dictionary` |
| | `EachViolationOwned` | `ViolationsOwned` |

### The token ring

The inductive invariant `SafeInv` is the conjunction of `TypeOK`, `TokenInv`,
`PlaceInv`, `IdleInv`, `GraceInv` and `NoUseAfterFree`. `NoUseAfterFree` is not
inductive: `Drain` moves freeable records to the pool, so these must be out of
reach; `Rotate` makes the blocks of `last` freeable, so at that point `last` must
be out of reach. The comment in the code gives the reason: since `last` was
closed, the token has visited every thread. `GraceInv` says what is true in
between: a record of t's closed bag is in reach only of threads that the token
visits before it comes to t (`Dist`, the distance along the ring). A thread that
passes the token is at the start of an operation, so it reaches nothing
(`IdleInv`), and the distance of everyone else shrinks by one. When the token
comes to t nobody is left. That the records of `curr`, which may be in reach of
everyone, become the closed bag only when the token has just left t, at the
largest distance from it, makes the step from one round to the next. `TokenInv`
says that this token is one. `PlaceInv` keeps the places of a record apart, so
that a record that is put into a bag is not in another bag that is nearer to the
pool.

`Conservation` follows from `PlaceInv` (no record in two places) and `CoverInv`
(every record in one): the tree, the pool, the bags and what is still to be
retired are disjoint and make up `Node`, so their sizes add up (`SumOfSizes`).

### take_snapshot

`SccInv`. The generation is a lock (`GenInv`: the writer is the thread whose loaded
generation is one below the odd one). The current timestamp is at least every
answer (`ClockInv`), and what a reader has loaded is not older than its call's
floor (`ReaderInv`); this is why a torn window does no harm. The step that
matters is the store of a new timestamp: it must not be smaller than the one it
replaces. An opener loads the epoch after the generation, and its
compare-and-swap succeeds only if the generation is still that one, that is, if
no window was opened in between; so the epoch it has is at least the current
timestamp (`OpenerInv`). `WindowInv` says the same for the windows: at an even
generation the fields are those of the last window published, so an opener whose
compare-and-swap succeeds has tested that very window, length included, and nobody
publishes another before it does.

`FewRetries` is not about one step. A call that was in progress when t's began
(`Earlier`) may open a window whose time is before t's `now_ns`; then it is over and
does so no more, and no call joins these later, since the clock does not go back. A window of any
other call is `Young`: t, once it has loaded its generation, hits it. So t loses once to each of
the first and once more to the first of the others. `RetryInv` counts: losses so
far, one to come if t already holds a generation that was replaced (`Doomed`), and the
calls of `Earlier`. That a call which misses has seen only windows opened before it,
although it may have read a torn window, is `SightInv`: opening times only grow, so an
opening time loaded after the generation is at least that of its window.

### Table and bags

`PacerInv`. `PinnedIsKept` rests on `ScanInv`: the scan's minimum is at most every
pinned slot that it has passed, and no pinned slot is at or behind the count that
it started with, which needs the slots of `TableInv`. That bags are sorted
(`BagInv`) needs that a node between `write_op_prepare` and its retirement is
younger than everything in its writer's bag, and that no two writers have the
same timestamp. `BacklogBounded` rests on `HoldInv`: in ConservativeHold the
counter is the number of writes modulo `HoldLimit`, so it is 0 at the end of a
window, where the mode may change, because `HoldLimit` divides `WindowSize`.

### Benchmarks

`BenchInv`, one part per property.

- The percentage: what has been charged is at most the sum, over all workers, of
  the time at which the wait a worker is in began, or of now if it is in none
  (`start`). Ending a wait moves a worker's term from the start of the wait to now,
  by at least what is charged.
- The peak: if it is below the longest bag counted, a worker that counted the
  longest is about to raise it.
- The operations: `total_ops` is the sum of the counts of the workers that are done.
- The nodes: `FateInv` is `OneFate` node by node, with the bags that the last drain
  has emptied. That it empties them needs that every `birth_ts` is below u64::MAX:
  stamps are epochs, and an operation advances the epoch at most twice (`advances`);
  other words of a node are smaller by assumption.

### The tree

`Ordered`, `Balanced` and `RetiredIsRemoved` look at the whole tree, and an SCX
changes it in one place. The proof replaces them by facts about single nodes. A
ghost `g` gives each address the keys it is for (`lo` to `hi`) and its height
(`ht`, nodes of weight 0 not counted). `Fine` says that each node is `Sound`: its
keys, its searchKey and its children's ranges split its own range in order, and its
children have its height less its weight; that each node that is not retired, except
`entry`, has exactly one parent that is not retired (`LinkOK`); and that a node is
marked just when it is retired. Retired nodes stay sound: they are not changed any
more, and neither is `g` at an old address. So an SCX extends `g` by the new nodes,
whose ranges together are that of the child they replace, and everything else
stays as it is. What is below a node is a recursive function; its values are those of the
smallest closed set, for which the height and the width of the range are a measure
that decreases (`Rank`). The invariant `Inv` is that such a `g` exists and that
what threads remember agrees with it: `PosOK` says that the node of a search is one
for its key, and that a fix call whose `gp` is `NULL` is not at the node that it
looks for, which gives `HasGrandparent`. (Such a node has weight 0 or was seen not to
be the root as the call began (`Entered`); the root has weight 1, and no old node
becomes the root later.)

Each update is a case of its own, with lemmas for the array operations it is made
of: `Overflow` and `Distribute` for how `Halves` splits (both halves at least a and
at most b), `Absorb`, `Split`, `AbsorbSibling` for splices and joins.

`KeepsDictionary`: `DInv` adds to `Inv` that a search under way for k is at a node
of a set that is `Guarded`. This is a set of addresses closed under the child for k
in which each leaf has for k a value from `seen`, the values of k since the call
began. The set may contain retired nodes; none of them changes, so their part of
the set stays as it is. At the call it is the set of the nodes of the tree for k.
An SCX adds its new nodes for k to the guarded sets that contain their parent; each
leaf among them has the value that k has now, and this is in `seen` (`SeenOK`). So what a
leaf says is a value of `seen`, however old the leaf. An update of a leaf happens
while the leaf is in the tree, where it says what the dictionary says, since two
leaves of the tree have no key in common; `SamePairs` says of each rebalancing step
that the pairs it removes are those it adds.

`ViolationsOwned`: `VInv` adds to `Inv` that a node with a violation, below the
root, has a call in some thread's `todo` (`Owns`). A fix call ends in four ways. It
finds no violation at its node; or the SCX that repairs it removes its node; or it
gives up a degree violation, which is the exception of the property; or it does not
meet its node and takes it for removed. The last needs that a search for the
searchKey of a node in the tree cannot miss the node: every set that contains where
the search is, and is closed under the child for the key, contains the node
(`Finds`, kept for each thread by `Seeking`). When an SCX removes a node with a
violation, the new nodes that have one are in the calls of the thread that made it
(`Answers`).

### Assumptions

Constants have the types that the code gives them: numbers are naturals, costs,
windows and limits not 0 where the code's are not. `Thread`, `Node` and `Handle`
are finite, as threads, records and 64-bit words are; `ABtree` needs no bound on the
threads. Its keys are a finite set of integers, as those of the code are, and its
DEGREE is at least 3, for an internal node must be split into two that have two
children. `NO_VALUE` is not a value that is inserted, as the code takes
(void *) -1 for it, and a workload is made of the operations' calls. `Benchmarks` has at least one
worker (with none the percentage would divide by 0). `MAX` of `Benchmarks` is a
number above every epoch of the instance and every word of the tree, which is what
u64::MAX is for a real run. `PacerSystem` assumes that `HoldLimit` divides
`WindowSize`, as 8 divides 256. Of the bounds on clock, epochs, operations and
nodes the proofs assume only that they are numbers.

### Induction

The library's induction rules take an operator and cannot be used with the
installed provers. `SharedLemmas` derives induction over subsets of a finite set from
the well-foundedness of the naturals with the set of counterexamples in the place
of the operator, then that the recursion of `MapThenSumSet` has a solution, and from
that how a sum changes. In the same way, with a counterexample of least rank, `ABtreeProofs`
shows that the recursive functions `Below` and `Depths` have values (`LeastRank`).

### Only model-checked

Liveness: `TokenCirculates`, `Ripens`, `DrainProgress`, `SomeCallAnswers`, `Reports`.
Fairness is out of the prover's reach. So are the five runs that end in a violation:
each is a behaviour, which TLC shows.

## Plan

Done: the modules above, in this order: reclaimer with its promise and its proof,
`Scc` with its contract, control loop, `PacerSystem`, tree, benchmarks and test bed;
then the proofs, the tree's last. What may follow:

1. A composition of tree and reclaimer: `ABtree`'s retirements into
   `ReclaimerPacer`'s bags, with addresses that are reused.
2. A client of `PacerSystem` that follows version chains, to say which snapshots
   the late announcement can hurt. No such client is in the repository.

Not modelled: instrumentation (nothing reads it back while the program runs), the
random numbers behind keys and operations (a nondeterministic choice in the
models), `contains` of the bindings (no caller), the immediate free of a thread
that has not registered a callback (every worker registers first), build files,
`main` and `examples/sweep.rs`, which start runs and print tables, scripts and
results.
