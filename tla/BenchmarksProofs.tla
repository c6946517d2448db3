--------------------------- MODULE BenchmarksProofs ---------------------------
(***************************************************************************)
(* Proofs about the workers of both benchmarks, for any number of them,    *)
(* any durations, costs and latencies, and any words that the tree stores  *)
(* in its nodes.                                                           *)
(***************************************************************************)
EXTENDS Benchmarks, SharedLemmas

USE RunAssumption, TimeAssumption, DrainAssumption, CostAssumption, LatencyAssumption,
    NodeAssumption, HandleAssumption, ThreadAssumption

---------------------------------------------------------------------------
(* The inductive invariant *)

LoopInv == /\ run \in Run /\ clock \in Nat /\ pc \in [Thread -> Pc]
           /\ begun \in [Thread -> 0 .. MaxOps] /\ local \in [Thread -> Nat]
           /\ counting \in [Thread -> BOOLEAN]
           /\ reported \in BOOLEAN
           /\ reported => \A t \in Thread : pc[t] = "done"

\* When a worker began the wait that it is in, for which it is not charged yet.
start == [t \in Thread |-> IF pc[t] = "spin" THEN burst[t].end - burst[t].total_ns ELSE clock]

Burst == [n : Nat, total_ns : Nat, end : Nat]

PressureInv == /\ FreersExact
               /\ total_free_ns \in Nat
               /\ burst \in [Thread -> Burst]
               /\ \A t \in Thread : start[t] \in 0 .. clock
               /\ total_free_ns <= Sum(start, Thread)

LatencyInv == /\ p99_ns \in Nat /\ slowest \in Nat /\ prev \in [Thread -> Nat]
              /\ p99_ns <= slowest
              /\ \A t \in Thread : prev[t] <= slowest

\* A longer bag than the peak belongs to a worker that will raise the peak.
PeakInv == /\ peak_limbo \in Nat /\ longest \in Nat
           /\ peak_limbo <= longest
           /\ \A t \in Thread : pc[t] = "peak" => Len(bag[t]) <= longest
           /\ \/ peak_limbo = longest
              \/ \E t \in Thread : pc[t] = "peak" /\ Len(bag[t]) = longest

\* What a worker has added to total_ops.
added == [t \in Thread |-> IF pc[t] = "done" THEN local[t] ELSE 0]

OpsInv == total_ops = Sum(added, Thread)

Nodes(t) == Elements(bag[t])
Distinct(s) == \A i, j \in 1 .. Len(s) : s[i] = s[j] => i = j

\* OneFate, node by node; and the bags that are empty at the end.
FateInv == /\ bag \in [Thread -> Seq(Node)]
           /\ allocated \in 0 .. MaxNode
           /\ live \subseteq 1 .. allocated /\ freed \subseteq 1 .. allocated
           /\ \A t \in Thread : Distinct(bag[t]) /\ Nodes(t) \subseteq 1 .. allocated
           /\ \A t, u \in Thread : t # u => Nodes(t) \cap Nodes(u) = {}
           /\ \A t \in Thread : Nodes(t) \cap (live \cup freed) = {}
           /\ live \cap freed = {}
           /\ \A x \in 1 .. allocated :
                 x \in live \/ x \in freed \/ \E t \in Thread : x \in Nodes(t)
           /\ reported => live = {}
           /\ \A t \in Thread : run \in Strategy /\ pc[t] = "done" => bag[t] = <<>>

\* How often a worker may have advanced the epoch: twice in each operation.
advances == [t \in Thread |->
               IF pc[t] = "op" THEN 2 * begun[t] - 2
               ELSE IF pc[t] \in {"tree", "drain", "load_epoch", "cas_epoch"}
                    THEN 2 * begun[t] - 1 ELSE 2 * begun[t]]

\* Every birth_ts is below u64::MAX, so that the last drain leaves nothing.
EpochInv == /\ reach \in [Thread -> SUBSET Node]
            /\ epoch \in Nat /\ ts \in [Thread -> Nat] /\ birth \in [Node -> Nat]
            /\ \A n \in Node : birth[n] < MAX
            /\ \A t \in Thread : pc[t] = "tree" => ts[t] < MAX
            /\ epoch <= MaxNode + 1 + Sum(advances, Thread)

BenchInv == LoopInv /\ PressureInv /\ LatencyInv /\ PeakInv /\ OpsInv /\ FateInv /\ EpochInv

---------------------------------------------------------------------------
(* Facts about bags, nodes and epochs *)

LEMMA ThreadCount == Cardinality(Thread) \in Nat \ {0}
BY FS_CardinalityType, FS_EmptySet

\* The epochs that fit below u64::MAX.
EpochLimit == MaxNode + Cardinality(Thread) * 2 * MaxOps

LEMMA MaxIsLarge == MAX \in Nat /\ EpochLimit < MAX /\ MaxNode < MAX /\ \A w \in Handle : w < MAX
<1> DEFINE H == Handle \cup {EpochLimit}
<1>1. EpochLimit \in Nat /\ MaxNode <= EpochLimit
  BY ThreadCount DEF EpochLimit
<1> HIDE DEF EpochLimit
<1>2. H \in SUBSET Nat /\ H # {} /\ IsFiniteSet(H)
  BY <1>1, FS_AddElement
<1>3. Max(H) \in H /\ \A y \in H : y <= Max(H)
  BY <1>2, MaxExists
<1>4. MAX = Max(H) + 1
  BY DEF MAX, EpochLimit
<1>5. Max(H) \in Nat /\ EpochLimit <= Max(H) /\ \A w \in Handle : w \in Nat /\ w <= Max(H)
  BY <1>2, <1>3
<1> HIDE DEF H
<1> QED BY <1>1, <1>4, <1>5

LEMMA PushNew ==
    ASSUME NEW S, NEW q \in Seq(S), NEW x \in S, Distinct(q), x \notin Elements(q)
    PROVE  /\ Append(q, x) \in Seq(S)
           /\ Len(Append(q, x)) = Len(q) + 1
           /\ Distinct(Append(q, x))
           /\ Elements(Append(q, x)) = Elements(q) \cup {x}
<1> DEFINE r == Append(q, x)
<1>0. Len(q) \in Nat
  BY LenProperties
<1>1. /\ r \in Seq(S)
      /\ Len(r) = Len(q) + 1
      /\ \A i \in 1 .. Len(q) : r[i] = q[i]
      /\ r[Len(q) + 1] = x
  BY AppendProperties
<1> HIDE DEF r
<1>2. \A i \in 1 .. Len(r) : i \in 1 .. Len(q) \/ i = Len(q) + 1
  BY <1>0, <1>1
<1>3. (\A i \in 1 .. Len(q) : i \in 1 .. Len(r)) /\ Len(q) + 1 \in 1 .. Len(r)
  BY <1>0, <1>1
<1>4. \A i \in 1 .. Len(q) : r[i] # x
  BY <1>1 DEF Elements
<1>5. Distinct(r)
  BY <1>1, <1>2, <1>4 DEF Distinct
<1>6. Elements(r) = Elements(q) \cup {x}
  BY <1>1, <1>2, <1>3 DEF Elements
<1> QED BY <1>1, <1>5, <1>6 DEF r

\* A bag is cut in two.
LEMMA CutBag ==
    ASSUME NEW S, NEW q \in Seq(S), Distinct(q), NEW n \in 0 .. Len(q)
    PROVE  LET rest == SubSeq(q, n + 1, Len(q))
               out == {q[i] : i \in 1 .. n}
           IN  /\ rest \in Seq(S)
               /\ Distinct(rest)
               /\ Elements(rest) \cup out = Elements(q)
               /\ Elements(rest) \cap out = {}
               /\ n = Len(q) => rest = <<>>
<1> DEFINE rest == SubSeq(q, n + 1, Len(q))
           out == {q[i] : i \in 1 .. n}
<1>0. Len(q) \in Nat
  BY LenProperties
<1>1. /\ rest \in Seq(S)
      /\ Len(rest) = Len(q) - n
      /\ \A i \in 1 .. Len(rest) : rest[i] = q[n + i]
  BY RestOfBag
<1> HIDE DEF rest
<1>2. \A i \in 1 .. Len(rest) : n + i \in 1 .. Len(q) /\ ~(n + i \in 1 .. n)
  BY <1>0, <1>1
<1>3. \A i, j \in 1 .. Len(rest) : n + i = n + j => i = j
  BY <1>0, <1>1
<1>4. Distinct(rest)
  BY <1>1, <1>2, <1>3 DEF Distinct
<1>5. \A i \in 1 .. n : i \in 1 .. Len(q)
  BY <1>0
<1>6. Elements(rest) \cap out = {}
  <2>1. ASSUME NEW i \in 1 .. Len(rest), NEW j \in 1 .. n PROVE rest[i] # q[j]
    <3>1. n + i # j /\ n + i \in 1 .. Len(q) /\ j \in 1 .. Len(q)
      BY <1>2, <1>5
    <3> QED BY <1>1, <3>1 DEF Distinct
  <2> QED BY <2>1 DEF Elements
<1>7. ASSUME NEW i \in 1 .. Len(q) PROVE q[i] \in Elements(rest) \/ q[i] \in out
  <2>1. CASE i <= n
    BY <1>0, <2>1
  <2>2. CASE i > n
    <3>1. i - n \in 1 .. Len(rest) /\ n + (i - n) = i
      BY <1>0, <1>1, <2>2
    <3> QED BY <1>1, <3>1 DEF Elements
  <2> QED BY <1>0, <2>1, <2>2
<1>8. Elements(rest) \cup out = Elements(q)
  BY <1>1, <1>2, <1>5, <1>7 DEF Elements
<1>9. n = Len(q) => rest = <<>>
  <2>1. n = Len(q) => Len(rest) = 0
    BY <1>0, <1>1
  <2> QED BY <1>1, <2>1, EmptySeq
<1> QED BY <1>1, <1>4, <1>6, <1>8, <1>9 DEF rest

---------------------------------------------------------------------------
(* The loop *)

LEMMA InitBenchInv == Init => BenchInv
<1> SUFFICES ASSUME Init PROVE BenchInv
  OBVIOUS
<1> USE DEF Init, WorkersStart, NoPressure
<1>1. LoopInv
  <2>1. pc \in [Thread -> Pc] /\ begun \in [Thread -> 0 .. MaxOps] /\ local \in [Thread -> Nat]
    BY DEF Pc
  <2>2. counting \in [Thread -> BOOLEAN] /\ reported = FALSE /\ run \in Run /\ clock = 0
    OBVIOUS
  <2> QED BY <2>1, <2>2 DEF LoopInv
<1>2. PressureInv
  <2>1. {t \in Thread : InBurst(t)} = {}
    BY DEF InBurst
  <2>2. FreersExact
    BY <2>1, FS_EmptySet DEF FreersExact
  <2>3. start \in [Thread -> Int] /\ \A t \in Thread : start[t] = 0
    BY DEF start
  <2>4. Sum(start, Thread) = 0
    BY <2>3, ZeroSum
  <2> QED BY <2>2, <2>3, <2>4 DEF PressureInv, Burst, NoBurst
<1>3. LatencyInv
  BY DEF LatencyInv
<1>4. PeakInv
  BY DEF PeakInv
<1>5. OpsInv
  <2>1. added \in [Thread -> Int] /\ \A t \in Thread : added[t] = 0
    BY DEF added
  <2> QED BY <2>1, ZeroSum DEF OpsInv
<1>6. TreeFilled
  OBVIOUS
<1>7. FateInv
  <2>1. \A t \in Thread : bag[t] = <<>> /\ Nodes(t) = {} /\ Distinct(bag[t])
    BY EmptyElements DEF Nodes, Distinct
  <2>2. allocated \in 0 .. MaxNode /\ live = 1 .. allocated /\ freed = {}
    BY <1>6 DEF TreeFilled
  <2>3. bag \in [Thread -> Seq(Node)] /\ ~reported
    OBVIOUS
  <2> QED BY <2>1, <2>2, <2>3 DEF FateInv
<1>8. EpochInv
  <2>1. advances \in [Thread -> Int] /\ \A t \in Thread : advances[t] = 0
    BY DEF advances
  <2>2. Sum(advances, Thread) = 0
    BY <2>1, ZeroSum
  <2>3. epoch \in Nat /\ epoch <= MaxNode + 1
    BY <1>6 DEF TreeFilled
  <2>4. birth \in [Node -> Nat] /\ \A n \in Node : birth[n] <= MaxNode
    BY <1>6 DEF TreeFilled, Node
  <2>5. \A n \in Node : birth[n] < MAX
    BY <2>4, MaxIsLarge
  <2> QED BY <2>2, <2>3, <2>4, <2>5 DEF EpochInv
<1> QED BY <1>1, <1>2, <1>3, <1>4, <1>5, <1>7, <1>8 DEF BenchInv

\* What no step of a worker changes.
LEMMA StepFrame ==
    ASSUME LoopInv, NEW t \in Thread, Step(t)
    PROVE  /\ UNCHANGED <<run, clock, reported>>
           /\ pc' \in [Thread -> Pc]
           /\ \A u \in Thread : u # t => pc'[u] = pc[u]
           /\ pc[t] # "done"
<1> USE DEF LoopInv, Goto, Pc, loop, heap, pressure, latency, stats
<1>1. CASE Begin(t) \/ Count(t) \/ RaisePeak(t) \/ Exit(t)
  BY <1>1 DEF Begin, Count, RaisePeak, Exit
<1>2. CASE Snapshot(t) \/ RecordLatency(t) \/ Write(t)
  BY <1>2 DEF Snapshot, RecordLatency, Write
<1>3. CASE EnterBurst(t) \/ StartSpin(t) \/ EndSpin(t) \/ LeaveBurst(t)
  BY <1>3 DEF EnterBurst, StartSpin, EndSpin, LeaveBurst
<1>4. CASE Search(t) \/ Replace(t) \/ Return(t)
  BY <1>4 DEF Search, Replace, Return
<1>5. CASE DrainAfter(t) \/ LoadEpoch(t) \/ CasEpoch(t)
  BY <1>5 DEF DrainAfter, LoadEpoch, CasEpoch
<1> QED BY <1>1, <1>2, <1>3, <1>4, <1>5 DEF Step

LEMMA StepLoop == ASSUME BenchInv, NEW t \in Thread, Step(t) PROVE LoopInv'
<1>0. LoopInv
  BY DEF BenchInv
<1>1. /\ UNCHANGED <<run, clock, reported>>
      /\ pc' \in [Thread -> Pc]
      /\ \A u \in Thread : u # t => pc'[u] = pc[u]
      /\ pc[t] # "done"
  BY <1>0, StepFrame
<1>2. ~reported
  BY <1>0, <1>1 DEF LoopInv
<1>3. /\ begun' \in [Thread -> 0 .. MaxOps] /\ local' \in [Thread -> Nat]
      /\ counting' \in [Thread -> BOOLEAN]
  <2> USE DEF LoopInv, loop
  <2>1. CASE Begin(t)
    <3>1. /\ begun[t] < MaxOps /\ begun' = [begun EXCEPT ![t] = @ + 1]
          /\ counting' = [counting EXCEPT ![t] = run = "synthetic" \/ clock >= Warmup]
          /\ local' = local
      BY <2>1 DEF Begin
    <3> QED BY <1>0, <3>1
  <2>2. CASE Count(t)
    <3>1. /\ begun' = begun
          /\ counting' = [counting EXCEPT ![t] = FALSE]
          /\ local' = [local EXCEPT ![t] = IF counting[t] THEN @ + 1 ELSE @]
      BY <2>2 DEF Count
    <3> QED BY <1>0, <3>1
  <2>3. CASE RaisePeak(t) \/ Exit(t) \/ Snapshot(t) \/ RecordLatency(t) \/ Write(t) \/ EnterBurst(t)
    BY <1>0, <2>3 DEF RaisePeak, Exit, Snapshot, RecordLatency, Write, EnterBurst
  <2>4. CASE StartSpin(t) \/ EndSpin(t) \/ LeaveBurst(t) \/ Search(t) \/ Replace(t) \/ Return(t)
    BY <1>0, <2>4 DEF StartSpin, EndSpin, LeaveBurst, Search, Replace, Return
  <2>5. CASE DrainAfter(t) \/ LoadEpoch(t) \/ CasEpoch(t)
    BY <1>0, <2>5 DEF DrainAfter, LoadEpoch, CasEpoch
  <2> QED BY <2>1, <2>2, <2>3, <2>4, <2>5 DEF Step
<1> QED BY <1>0, <1>1, <1>2, <1>3 DEF LoopInv

---------------------------------------------------------------------------
(* AllocatorPressure *)

LEMMA StartType == ASSUME LoopInv, PressureInv PROVE start \in [Thread -> Int]
<1>1. \A t \in Thread : start[t] \in Int
  BY DEF LoopInv, PressureInv
<1> QED BY <1>1 DEF start

\* A worker that is not in a burst, before or after its step.
LEMMA PressureFrame ==
    ASSUME BenchInv, NEW t \in Thread, Step(t), UNCHANGED <<concurrent_freers, total_free_ns>>,
           ~InBurst(t), ~InBurst(t)', burst' \in [Thread -> Burst],
           \A u \in Thread : u # t => burst'[u] = burst[u]
    PROVE  PressureInv'
<1>0. LoopInv /\ PressureInv
  BY DEF BenchInv
<1>1. UNCHANGED clock /\ \A u \in Thread : u # t => pc'[u] = pc[u]
  BY <1>0, StepFrame
<1>2. {u \in Thread : InBurst(u)}' = {u \in Thread : InBurst(u)}
  BY <1>1 DEF InBurst
<1>3. start' = start
  BY <1>1 DEF start, InBurst
<1> QED BY <1>0, <1>1, <1>2, <1>3 DEF PressureInv, FreersExact

LEMMA TickPressure == ASSUME BenchInv, Tick PROVE PressureInv'
<1>0. LoopInv /\ PressureInv /\ start \in [Thread -> Int]
  BY StartType DEF BenchInv
<1>1. clock' = clock + 1 /\ UNCHANGED <<pc, burst, concurrent_freers, total_free_ns>>
  BY DEF Tick, pressure
<1>2. \A t \in Thread : /\ start[t] \in 0 .. clock /\ start'[t] \in 0 .. clock'
                        /\ start[t] <= start'[t]
  BY <1>0, <1>1 DEF start, LoopInv, PressureInv
<1>3. start' \in [Thread -> Int]
  BY <1>0, <1>1, <1>2 DEF start, LoopInv
<1>4. Sum(start, Thread) <= Sum(start', Thread)
  BY <1>0, <1>2, <1>3, SumMonotone
<1>5. Sum(start, Thread) \in Int /\ Sum(start', Thread) \in Int
  BY <1>0, <1>3, SumType
<1>6. total_free_ns' <= Sum(start', Thread)
  BY <1>0, <1>1, <1>4, <1>5 DEF PressureInv
<1>7. FreersExact'
  BY <1>0, <1>1 DEF PressureInv, FreersExact, InBurst
<1> QED BY <1>0, <1>1, <1>2, <1>6, <1>7 DEF PressureInv

LEMMA StepPressure == ASSUME BenchInv, NEW t \in Thread, Step(t) PROVE PressureInv'
<1>0. LoopInv /\ PressureInv /\ FateInv /\ start \in [Thread -> Int]
  BY StartType DEF BenchInv
<1>1. /\ UNCHANGED clock /\ pc' \in [Thread -> Pc]
      /\ \A u \in Thread : u # t => pc'[u] = pc[u]
  BY <1>0, StepFrame
<1>2. pc \in [Thread -> Pc] /\ clock \in Nat /\ burst \in [Thread -> Burst] /\ total_free_ns \in Nat
  BY <1>0 DEF LoopInv, PressureInv
<1> DEFINE B == {u \in Thread : InBurst(u)}
<1>3. IsFiniteSet(B) /\ Cardinality(B) \in Nat /\ concurrent_freers = Cardinality(B)
  BY <1>0, FS_Subset, FS_CardinalityType DEF PressureInv, FreersExact
<1>4. CASE UNCHANGED pressure /\ ~InBurst(t) /\ ~InBurst(t)'
  BY <1>2, <1>4, PressureFrame DEF pressure
<1>5. CASE Begin(t) \/ Count(t) \/ RaisePeak(t) \/ Exit(t) \/ Snapshot(t) \/ RecordLatency(t)
  BY <1>2, <1>4, <1>5 DEF Begin, Count, RaisePeak, Exit, Snapshot, RecordLatency, Goto, InBurst
<1>6. CASE Search(t) \/ Replace(t) \/ Return(t) \/ DrainAfter(t) \/ LoadEpoch(t) \/ CasEpoch(t)
  BY <1>2, <1>4, <1>6 DEF Search, Replace, Return, DrainAfter, LoadEpoch, CasEpoch, Goto, InBurst
<1>7. CASE Write(t)
  <2> DEFINE filled == Append(bag[t], allocated + 1)
  <2>1. PICK n \in 0 .. Len(filled) : burst' = [burst EXCEPT ![t].n = n]
    BY <1>7 DEF Write
  <2>2. Len(filled) \in Nat
    <3>1. bag[t] \in Seq(Node)
      BY <1>0 DEF FateInv
    <3>2. allocated \in 0 .. MaxNode /\ allocated < MaxNode
      BY <1>0, <1>7 DEF FateInv, Write
    <3>3. allocated + 1 \in Node
      BY <3>2 DEF Node
    <3> QED BY <3>1, <3>3, AppendProperties, LenProperties
  <2> HIDE DEF filled
  <2>3. n \in Nat
    BY <2>2
  <2>4. [burst[t] EXCEPT !.n = n] \in Burst
    BY <1>2, <2>3 DEF Burst
  <2>5. burst' \in [Thread -> Burst] /\ \A u \in Thread : u # t => burst'[u] = burst[u]
    BY <1>2, <2>1, <2>4
  <2>6. /\ UNCHANGED <<concurrent_freers, total_free_ns>>
        /\ ~InBurst(t) /\ ~InBurst(t)'
    BY <1>2, <1>7 DEF Write, InBurst
  <2> QED BY <2>5, <2>6, PressureFrame
<1>8. CASE EnterBurst(t)
  <2>1. CASE burst[t].n = 0
    <3>1. UNCHANGED pressure /\ ~InBurst(t) /\ ~InBurst(t)'
      BY <1>2, <1>8, <2>1 DEF EnterBurst, Goto, InBurst, pressure
    <3> QED BY <1>4, <3>1
  <2>2. CASE burst[t].n # 0
    <3> DEFINE cost == (BaseFree + ContendedFree * concurrent_freers) * burst[t].n
    <3>1. /\ pc[t] = "burst" /\ pc' = [pc EXCEPT ![t] = "clock"]
          /\ concurrent_freers' = concurrent_freers + 1
          /\ burst' = [burst EXCEPT ![t].total_ns = cost]
          /\ UNCHANGED total_free_ns
      BY <1>8, <2>2 DEF EnterBurst, Goto
    <3>2. cost \in Nat
      <4>1. burst[t].n \in Nat
        BY <1>2 DEF Burst
      <4>2. ContendedFree * concurrent_freers \in Nat
        BY <1>3
      <4>3. BaseFree + ContendedFree * concurrent_freers \in Nat
        BY <4>2
      <4> QED BY <4>1, <4>3
    <3> HIDE DEF cost
    <3>3. [burst[t] EXCEPT !.total_ns = cost] \in Burst
      BY <1>2, <3>2 DEF Burst
    <3>4. burst' \in [Thread -> Burst] /\ \A u \in Thread : u # t => burst'[u] = burst[u]
      BY <1>2, <3>1, <3>3
    <3>5. B' = B \cup {t} /\ t \notin B
      BY <1>1, <1>2, <3>1 DEF InBurst
    <3>6. FreersExact'
      BY <1>3, <3>1, <3>5, FS_AddElement DEF FreersExact
    <3>7. start' = start
      BY <1>1, <1>2, <3>1, <3>4 DEF start
    <3> QED BY <1>0, <1>1, <3>1, <3>4, <3>6, <3>7 DEF PressureInv
  <2> QED BY <2>1, <2>2
<1>9. CASE StartSpin(t)
  <2> DEFINE end == clock + burst[t].total_ns
             next == [burst[t] EXCEPT !.end = end]
  <2>1. /\ pc[t] = "clock" /\ pc' = [pc EXCEPT ![t] = "spin"]
        /\ burst' = [burst EXCEPT ![t] = next]
        /\ UNCHANGED <<concurrent_freers, total_free_ns>>
    BY <1>9 DEF StartSpin, Goto
  <2>2. burst[t] \in Burst /\ burst[t].total_ns \in Nat
    BY <1>2 DEF Burst
  <2>3. end \in Nat /\ end - burst[t].total_ns = clock
    BY <1>2, <2>2
  <2> HIDE DEF end
  <2>4. next \in Burst /\ next.end = end /\ next.total_ns = burst[t].total_ns
    BY <2>2, <2>3 DEF Burst
  <2> HIDE DEF next
  <2>5. /\ burst' \in [Thread -> Burst] /\ burst'[t] = next /\ pc'[t] = "spin"
        /\ \A u \in Thread : u # t => burst'[u] = burst[u]
    BY <1>2, <2>1, <2>4
  <2>6. B' = B
    BY <1>1, <1>2, <2>1 DEF InBurst
  <2>7. start' = start
    BY <1>1, <1>2, <2>1, <2>3, <2>4, <2>5 DEF start
  <2> QED BY <1>0, <1>1, <2>1, <2>5, <2>6, <2>7 DEF PressureInv, FreersExact
<1>10. CASE EndSpin(t)
  <2> DEFINE ns == burst[t].total_ns
  <2>1. /\ clock >= burst[t].end
        /\ pc[t] = "spin" /\ pc' = [pc EXCEPT ![t] = "leave"]
        /\ total_free_ns' = total_free_ns + ns
        /\ UNCHANGED <<concurrent_freers, burst>>
    BY <1>10 DEF EndSpin, Goto
  <2>2. ns \in Nat /\ burst[t].end \in Nat
    BY <1>2 DEF Burst
  <2>3. B' = B
    BY <1>1, <1>2, <2>1 DEF InBurst
  <2>4. start' = [start EXCEPT ![t] = clock]
    BY <1>1, <1>2, <2>1 DEF start
  <2>5. Sum(start', Thread) = Sum(start, Thread) - start[t] + clock
    <3>1. /\ start' \in [Thread -> Int] /\ start'[t] = clock
          /\ \A u \in Thread : u # t => start'[u] = start[u]
      BY <1>0, <1>2, <2>4
    <3>2. Sum(start', Thread) = Sum(start, Thread) - start[t] + start'[t]
      BY <1>0, <3>1, SumUpdate
    <3> QED BY <3>1, <3>2
  <2>6. start[t] = burst[t].end - ns /\ Sum(start, Thread) \in Int
    BY <1>0, <2>1, SumType DEF start
  <2>7. total_free_ns <= Sum(start, Thread)
    BY <1>0 DEF PressureInv
  <2> HIDE DEF ns
  <2>8. total_free_ns' \in Nat /\ total_free_ns' <= Sum(start', Thread)
    BY <1>2, <2>1, <2>2, <2>5, <2>6, <2>7
  <2>9. \A u \in Thread : start'[u] \in 0 .. clock
    BY <1>0, <1>2, <2>4 DEF PressureInv
  <2> QED BY <1>0, <1>1, <2>1, <2>3, <2>8, <2>9 DEF PressureInv, FreersExact
<1>11. CASE LeaveBurst(t)
  <2>1. /\ pc[t] = "leave" /\ pc' = [pc EXCEPT ![t] = "count"]
        /\ concurrent_freers' = concurrent_freers - 1
        /\ burst' = [burst EXCEPT ![t] = NoBurst]
        /\ UNCHANGED total_free_ns
    BY <1>11 DEF LeaveBurst, Goto
  <2>2. B' = B \ {t} /\ t \in B
    BY <1>1, <1>2, <2>1 DEF InBurst
  <2>3. FreersExact'
    <3>1. Cardinality(B \ {t}) = Cardinality(B) - 1
      BY <1>3, <2>2, FS_RemoveElement
    <3> QED BY <1>3, <2>1, <2>2, <3>1 DEF FreersExact
  <2>4. burst' \in [Thread -> Burst] /\ \A u \in Thread : u # t => burst'[u] = burst[u]
    BY <1>2, <2>1 DEF Burst, NoBurst
  <2>5. start' = start
    BY <1>1, <1>2, <2>1, <2>4 DEF start
  <2> QED BY <1>0, <1>1, <2>1, <2>3, <2>4, <2>5 DEF PressureInv
<1> QED BY <1>5, <1>6, <1>7, <1>8, <1>9, <1>10, <1>11 DEF Step

---------------------------------------------------------------------------
(* The results: latency, peak and operations *)

LEMMA SmoothedBounded ==
    ASSUME NEW old \in Nat, NEW ns \in Nat, NEW top \in Nat, old <= top, ns <= top
    PROVE  Smoothed(old, ns) \in Nat /\ Smoothed(old, ns) <= top
<1>1. 9 * old + ns \in Nat /\ 9 * old + ns <= 10 * top
  OBVIOUS
<1> QED BY <1>1 DEF Smoothed

LEMMA StepLatency == ASSUME BenchInv, NEW t \in Thread, Step(t) PROVE LatencyInv'
<1>0. LatencyInv
  BY DEF BenchInv
<1>1. CASE UNCHANGED latency
  BY <1>0, <1>1 DEF LatencyInv, latency
<1>2. CASE Begin(t) \/ Count(t) \/ RaisePeak(t) \/ Exit(t) \/ Write(t) \/ EnterBurst(t)
  BY <1>1, <1>2 DEF Begin, Count, RaisePeak, Exit, Write, EnterBurst
<1>3. CASE StartSpin(t) \/ EndSpin(t) \/ LeaveBurst(t) \/ Search(t) \/ Replace(t) \/ Return(t)
  BY <1>1, <1>3 DEF StartSpin, EndSpin, LeaveBurst, Search, Replace, Return
<1>4. CASE DrainAfter(t) \/ LoadEpoch(t) \/ CasEpoch(t)
  BY <1>1, <1>4 DEF DrainAfter, LoadEpoch, CasEpoch
<1>5. CASE Snapshot(t)
  <2>1. prev' = [prev EXCEPT ![t] = p99_ns] /\ UNCHANGED <<p99_ns, slowest>>
    BY <1>5 DEF Snapshot
  <2> QED BY <1>0, <2>1 DEF LatencyInv
<1>6. CASE RecordLatency(t)
  <2>1. PICK ns \in Latency : p99_ns' = Smoothed(prev[t], ns) /\ slowest' = Larger(slowest, ns)
    BY <1>6 DEF RecordLatency
  <2>2. prev' = [prev EXCEPT ![t] = 0]
    BY <1>6 DEF RecordLatency
  <2>3. slowest' \in Nat /\ slowest <= slowest' /\ ns <= slowest' /\ ns \in Nat
    BY <1>0, <2>1 DEF LatencyInv, Larger
  <2>4. prev[t] \in Nat /\ prev[t] <= slowest'
    BY <1>0, <2>3 DEF LatencyInv
  <2>5. p99_ns' \in Nat /\ p99_ns' <= slowest'
    BY <2>1, <2>3, <2>4, SmoothedBounded
  <2>6. \A u \in Thread : prev'[u] \in Nat /\ prev'[u] <= slowest'
    BY <1>0, <2>2, <2>3 DEF LatencyInv
  <2> QED BY <1>0, <2>2, <2>3, <2>5, <2>6 DEF LatencyInv
<1> QED BY <1>1, <1>2, <1>3, <1>4, <1>5, <1>6 DEF Step

\* A worker that does not look at the peak.
LEMMA PeakFrame ==
    ASSUME BenchInv, NEW t \in Thread, Step(t), UNCHANGED <<peak_limbo, longest>>,
           pc[t] # "peak", pc'[t] # "peak", \A u \in Thread : u # t => bag'[u] = bag[u]
    PROVE  PeakInv'
<1>0. PeakInv /\ LoopInv
  BY DEF BenchInv
<1>1. \A u \in Thread : u # t => pc'[u] = pc[u]
  BY <1>0, StepFrame
<1>2. \A u \in Thread : pc[u] = "peak" => bag'[u] = bag[u] /\ pc'[u] = "peak"
  BY <1>1
<1>3. \A u \in Thread : pc'[u] = "peak" => bag'[u] = bag[u] /\ pc[u] = "peak"
  BY <1>1
<1> QED BY <1>0, <1>2, <1>3 DEF PeakInv

LEMMA StepPeak == ASSUME BenchInv, NEW t \in Thread, Step(t) PROVE PeakInv'
<1>0. PeakInv /\ LoopInv
  BY DEF BenchInv
<1>1. pc \in [Thread -> Pc] /\ bag \in [Thread -> Seq(Node)] /\ Len(bag[t]) \in Nat
  BY LenProperties DEF BenchInv, LoopInv, FateInv
<1>2. CASE Begin(t) \/ Snapshot(t) \/ RecordLatency(t) \/ EnterBurst(t) \/ StartSpin(t)
  BY <1>1, <1>2, PeakFrame DEF Begin, Snapshot, RecordLatency, EnterBurst, StartSpin, Goto, stats
<1>3. CASE EndSpin(t) \/ LeaveBurst(t) \/ Search(t) \/ Return(t) \/ LoadEpoch(t) \/ CasEpoch(t)
  BY <1>1, <1>3, PeakFrame DEF EndSpin, LeaveBurst, Search, Return, LoadEpoch, CasEpoch, Goto, stats
<1>4. CASE Write(t)
  BY <1>1, <1>4, PeakFrame DEF Write, stats
<1>5. CASE Replace(t)
  BY <1>1, <1>5, PeakFrame DEF Replace, pacer_retire_cb, stats
<1>6. CASE DrainAfter(t)
  BY <1>1, <1>6, PeakFrame DEF DrainAfter, drain_discrete_tick, FlushBag, DrainOne, Drain,
     Goto, stats
<1>7. CASE Exit(t)
  BY <1>1, <1>7, PeakFrame DEF Exit, ExitDrain, Drain, Goto
<1>8. CASE Count(t)
  <2> DEFINE len == Len(bag[t])
  <2>1. /\ pc[t] = "count" /\ pc' = [pc EXCEPT ![t] = IF len > peak_limbo THEN "peak" ELSE "loop"]
        /\ longest' = Larger(longest, len)
        /\ UNCHANGED <<bag, peak_limbo>>
    BY <1>8 DEF Count, Goto
  <2>2. len \in Nat
    BY <1>1
  <2>3. pc'[t] = IF len > peak_limbo THEN "peak" ELSE "loop"
    BY <1>1, <2>1
  <2>4. \A u \in Thread : u # t => pc'[u] = pc[u]
    BY <1>1, <2>1
  <2>5. \A u \in Thread : Len(bag'[u]) = Len(bag[u]) /\ Len(bag[u]) \in Nat
    BY <1>1, <2>1, LenProperties
  <2>6. /\ peak_limbo \in Nat /\ longest \in Nat /\ longest' \in Nat
        /\ longest <= longest' /\ len <= longest'
    BY <1>0, <2>1, <2>2 DEF PeakInv, Larger
  <2>7. \A u \in Thread : pc'[u] = "peak" => Len(bag'[u]) <= longest'
    BY <1>0, <2>4, <2>5, <2>6 DEF PeakInv
  <2>8. peak_limbo = longest' \/ \E u \in Thread : pc'[u] = "peak" /\ Len(bag'[u]) = longest'
    <3>1. CASE len > longest
      BY <1>0, <2>1, <2>2, <2>3, <2>6, <3>1 DEF PeakInv, Larger
    <3>2. CASE ~(len > longest)
      <4>1. longest' = longest
        BY <2>1, <2>2, <2>6, <3>2 DEF Larger
      <4>2. \A u \in Thread : pc[u] = "peak" => pc'[u] = "peak"
        BY <2>1, <2>4
      <4> QED BY <1>0, <2>1, <4>1, <4>2 DEF PeakInv
    <3> QED BY <3>1, <3>2
  <2> QED BY <1>0, <2>1, <2>6, <2>7, <2>8 DEF PeakInv
<1>9. CASE RaisePeak(t)
  <2>1. /\ pc[t] = "peak" /\ pc' = [pc EXCEPT ![t] = "loop"]
        /\ peak_limbo' = Larger(peak_limbo, Len(bag[t]))
        /\ UNCHANGED <<bag, longest>>
    BY <1>9 DEF RaisePeak, Goto
  <2>2. Len(bag[t]) <= longest
    BY <1>0, <2>1 DEF PeakInv
  <2>3. peak_limbo' \in Nat /\ peak_limbo' <= longest /\ peak_limbo <= peak_limbo'
        /\ Len(bag[t]) <= peak_limbo'
    BY <1>0, <1>1, <2>1, <2>2 DEF PeakInv, Larger
  <2>4. pc'[t] = "loop" /\ \A u \in Thread : u # t => pc'[u] = pc[u]
    BY <1>1, <2>1
  <2>5. peak_limbo' = longest \/ \E u \in Thread : pc'[u] = "peak" /\ Len(bag[u]) = longest
    BY <1>0, <2>1, <2>3, <2>4 DEF PeakInv
  <2> QED BY <1>0, <2>1, <2>3, <2>4, <2>5 DEF PeakInv
<1> QED BY <1>2, <1>3, <1>4, <1>5, <1>6, <1>7, <1>8, <1>9 DEF Step

LEMMA StepOps == ASSUME BenchInv, NEW t \in Thread, Step(t), LoopInv' PROVE OpsInv'
<1>0. OpsInv /\ LoopInv /\ added \in [Thread -> Int] /\ added' \in [Thread -> Int]
  BY DEF BenchInv, LoopInv, added
<1>1. /\ \A u \in Thread : u # t => pc'[u] = pc[u]
      /\ pc \in [Thread -> Pc] /\ pc[t] # "done" /\ local \in [Thread -> Nat]
  BY <1>0, StepFrame DEF LoopInv
<1>2. CASE UNCHANGED total_ops /\ pc'[t] # "done" /\ \A u \in Thread : u # t => local'[u] = local[u]
  <2>1. added' = added
    BY <1>1, <1>2 DEF added
  <2> QED BY <1>0, <1>2, <2>1 DEF OpsInv
<1>3. CASE Begin(t) \/ Count(t) \/ RaisePeak(t) \/ Snapshot(t) \/ RecordLatency(t) \/ Write(t)
  BY <1>1, <1>2, <1>3 DEF Begin, Count, RaisePeak, Snapshot, RecordLatency, Write, Goto, loop, stats
<1>4. CASE EnterBurst(t) \/ StartSpin(t) \/ EndSpin(t) \/ LeaveBurst(t) \/ Search(t)
  BY <1>1, <1>2, <1>4 DEF EnterBurst, StartSpin, EndSpin, LeaveBurst, Search, Goto, loop, stats
<1>5. CASE Replace(t) \/ Return(t) \/ DrainAfter(t) \/ LoadEpoch(t) \/ CasEpoch(t)
  BY <1>1, <1>2, <1>5 DEF Replace, Return, DrainAfter, LoadEpoch, CasEpoch, Goto, loop, stats
<1>6. CASE Exit(t)
  <2>1. pc'[t] = "done" /\ total_ops' = total_ops + local[t] /\ UNCHANGED local
    BY <1>1, <1>6 DEF Exit, Goto, loop
  <2>2. /\ added[t] = 0 /\ added'[t] = local[t]
        /\ \A u \in Thread : u # t => added'[u] = added[u]
    BY <1>1, <2>1 DEF added
  <2>3. Sum(added', Thread) = Sum(added, Thread) - added[t] + added'[t]
    BY <1>0, <2>2, SumUpdate
  <2>4. Sum(added, Thread) \in Int
    BY <1>0, SumType
  <2> QED BY <1>0, <1>1, <2>1, <2>2, <2>3, <2>4 DEF OpsInv
<1> QED BY <1>3, <1>4, <1>5, <1>6 DEF Step

---------------------------------------------------------------------------
(* The nodes *)

\* t's bag and the freed nodes change: what was in the bag, and new, is in rest
\* or out, and new comes from the tree, the rest of which is left.
LEMMA FateMoves ==
    ASSUME FateInv, NEW t \in Thread, NEW rest \in Seq(Node), NEW out, NEW new,
           Distinct(rest),
           Elements(rest) \cup out = Nodes(t) \cup new,
           Elements(rest) \cap out = {},
           new \subseteq 1 .. allocated', new \cap freed = {}, new \cap live' = {},
           \A u \in Thread : new \cap Nodes(u) = {},
           bag' = [bag EXCEPT ![t] = rest], freed' = freed \cup out,
           allocated' \in allocated .. MaxNode,
           live' \subseteq 1 .. allocated',
           live' \cap freed = {}, \A u \in Thread : live' \cap Nodes(u) = {},
           \A x \in 1 .. allocated' : x \in 1 .. allocated \/ x \in live' \/ x \in new,
           \A x \in live : x \in live' \/ x \in new,
           UNCHANGED <<run, reported>>, reported => FALSE,
           \A u \in Thread : u # t => pc'[u] = pc[u],
           run \in Strategy /\ pc'[t] = "done" => rest = <<>>
    PROVE  FateInv'
<1>1. bag' \in [Thread -> Seq(Node)] /\ allocated' \in 0 .. MaxNode
  BY DEF FateInv
<1>2. Nodes(t)' = Elements(rest) /\ \A u \in Thread : u # t => Nodes(u)' = Nodes(u)
  BY DEF FateInv, Nodes
<1>3. bag'[t] = rest /\ \A u \in Thread : u # t => bag'[u] = bag[u]
  BY DEF FateInv
<1>4. 1 .. allocated \subseteq 1 .. allocated'
  BY DEF FateInv
<1>5. out \subseteq Nodes(t) \cup new
  OBVIOUS
<1>6. freed' \subseteq 1 .. allocated'
  BY <1>4, <1>5 DEF FateInv
<1>7. ASSUME NEW u \in Thread PROVE Distinct(bag'[u]) /\ Nodes(u)' \subseteq 1 .. allocated'
  <2>0. Distinct(bag[u]) /\ Nodes(u) \subseteq 1 .. allocated
    BY DEF FateInv
  <2>1. CASE u = t
    BY <1>2, <1>3, <1>4, <2>0, <2>1
  <2>2. CASE u # t
    BY <1>2, <1>3, <1>4, <2>0, <2>2
  <2> QED BY <2>1, <2>2
<1>8. ASSUME NEW u \in Thread, NEW v \in Thread, u # v PROVE Nodes(u)' \cap Nodes(v)' = {}
  <2>0. Nodes(u) \cap Nodes(v) = {}
    BY <1>8 DEF FateInv
  <2>1. CASE u = t
    BY <1>2, <1>8, <2>0, <2>1
  <2>2. CASE v = t
    BY <1>2, <1>8, <2>0, <2>2
  <2>3. CASE u # t /\ v # t
    BY <1>2, <2>0, <2>3
  <2> QED BY <2>1, <2>2, <2>3
<1>9. ASSUME NEW u \in Thread PROVE Nodes(u)' \cap (live' \cup freed') = {}
  <2>0. Nodes(u) \cap freed = {} /\ Nodes(u) \cap live' = {} /\ new \cap Nodes(u) = {}
    BY DEF FateInv
  <2>1. CASE u = t
    BY <1>2, <2>0, <2>1
  <2>2. CASE u # t
    <3>1. Nodes(u) \cap Nodes(t) = {}
      BY <2>2 DEF FateInv
    <3> QED BY <1>2, <1>5, <2>0, <2>2, <3>1
  <2> QED BY <2>1, <2>2
<1>10. live' \cap freed' = {}
  BY <1>5 DEF FateInv
<1>11. ASSUME NEW x \in 1 .. allocated'
       PROVE  x \in live' \/ x \in freed' \/ \E u \in Thread : x \in Nodes(u)'
  <2>1. \/ x \in live' \/ x \in freed \/ x \in new
        \/ \E u \in Thread : x \in Nodes(u)
    BY <1>11 DEF FateInv
  <2>2. x \in Nodes(t) \/ x \in new => x \in Nodes(t)' \/ x \in freed'
    BY <1>2
  <2> QED BY <1>2, <2>1, <2>2
<1>12. \A u \in Thread : run' \in Strategy /\ pc'[u] = "done" => bag'[u] = <<>>
  BY <1>3 DEF FateInv
<1> QED BY <1>1, <1>6, <1>7, <1>8, <1>9, <1>10, <1>11, <1>12 DEF FateInv

LEMMA FunctionIsSeq ==
    ASSUME NEW S, NEW m \in Nat, NEW f \in [1 .. m -> S]
    PROVE  f \in Seq(S) /\ Len(f) = m
<1>1. f \in Seq(S)
  BY SeqDef
<1>2. Len(f) \in Nat /\ DOMAIN f = 1 .. Len(f) /\ DOMAIN f = 1 .. m
  BY <1>1, LenProperties
<1> QED BY <1>2

\* What Drain does with a bag: a part of it stays and the other is freed.  When
\* every birth_ts is old enough and k is not less than its length, all is freed.
LEMMA DrainMoves ==
    ASSUME FateInv, birth \in [Node -> Nat], NEW t \in Thread, NEW safe_ts \in Nat, NEW k \in Nat,
           Drain(t, safe_ts, k)
    PROVE  \E rest \in Seq(Node) : \E out :
              /\ bag' = [bag EXCEPT ![t] = rest]
              /\ freed' = freed \cup out
              /\ Distinct(rest)
              /\ Elements(rest) \cup out = Nodes(t)
              /\ Elements(rest) \cap out = {}
              /\ (\A x \in Node : birth[x] < safe_ts) /\ k = Len(bag[t]) => rest = <<>>
<1> DEFINE q == bag[t]
           births == [i \in 1 .. Len(q) |-> birth[q[i]]]
           n == DrainCount(births, safe_ts, k)
           rest == SubSeq(q, n + 1, Len(q))
           out == {q[i] : i \in 1 .. n}
<1>1. q \in Seq(Node) /\ Distinct(q) /\ Len(q) \in Nat /\ \A i \in 1 .. Len(q) : q[i] \in Node
  BY LenProperties, ElementOfSeq DEF FateInv
<1>2. bag' = [bag EXCEPT ![t] = rest] /\ freed' = freed \cup out
  BY DEF Drain
<1>3. births \in Seq(Nat) /\ Len(births) = Len(q)
  <2>1. \A i \in 1 .. Len(q) : birth[q[i]] \in Nat
    BY <1>1
  <2> HIDE DEF q
  <2>2. births \in [1 .. Len(q) -> Nat]
    BY <2>1
  <2> HIDE DEF births
  <2> QED BY <1>1, <2>2, FunctionIsSeq
<1>4. \A i \in 1 .. Len(q) : births[i] = birth[q[i]]
  OBVIOUS
<1> HIDE DEF q, births
<1>5. n \in 0 .. Len(q)
  BY <1>3, DrainExact
<1>6. (\A x \in Node : birth[x] < safe_ts) /\ k = Len(q) => n = Len(q)
  <2> SUFFICES ASSUME \A x \in Node : birth[x] < safe_ts, k = Len(q) PROVE n = Len(q)
    OBVIOUS
  <2>1. \A i \in 1 .. Len(births) : births[i] < safe_ts
    BY <1>1, <1>3, <1>4
  <2>2. n = IF Len(births) < k THEN Len(births) ELSE k
    BY <1>3, <2>1, DrainOld
  <2> HIDE DEF n
  <2> QED BY <1>1, <1>3, <2>2
<1> HIDE DEF n
<1>7. /\ rest \in Seq(Node)
      /\ Distinct(rest)
      /\ Elements(rest) \cup out = Elements(q)
      /\ Elements(rest) \cap out = {}
      /\ n = Len(q) => rest = <<>>
  BY <1>1, <1>5, CutBag
<1> HIDE DEF rest, out
<1> QED BY <1>2, <1>6, <1>7 DEF Nodes, q

LEMMA StepFate == ASSUME BenchInv, NEW t \in Thread, Step(t) PROVE FateInv'
<1>0. LoopInv /\ FateInv /\ EpochInv
  BY DEF BenchInv
<1>1. /\ UNCHANGED <<run, reported>> /\ pc[t] # "done" /\ pc' \in [Thread -> Pc]
      /\ \A u \in Thread : u # t => pc'[u] = pc[u]
  BY <1>0, StepFrame
<1>2. ~reported /\ pc \in [Thread -> Pc] /\ begun \in [Thread -> 0 .. MaxOps]
  BY <1>0, <1>1 DEF LoopInv
<1>3. /\ bag[t] \in Seq(Node) /\ Distinct(bag[t]) /\ Len(bag[t]) \in Nat
      /\ Nodes(t) = Elements(bag[t]) /\ Nodes(t) \subseteq 1 .. allocated
  BY <1>0, LenProperties DEF FateInv, Nodes
<1>4. /\ allocated \in 0 .. MaxNode
      /\ live \subseteq 1 .. allocated /\ freed \subseteq 1 .. allocated
      /\ live \cap freed = {} /\ \A u \in Thread : Nodes(u) \cap (live \cup freed) = {}
      /\ \A u \in Thread : Nodes(u) \subseteq 1 .. allocated
  BY <1>0 DEF FateInv
<1>5. birth \in [Node -> Nat] /\ epoch \in Nat
  BY <1>0 DEF EpochInv
<1>6. CASE UNCHANGED <<bag, allocated, live, freed>> /\ (run \in Strategy => pc'[t] # "done")
  <2>1. \A u \in Thread : Nodes(u)' = Nodes(u)
    BY <1>6 DEF Nodes
  <2>2. \A u \in Thread : run \in Strategy /\ pc'[u] = "done" => bag[u] = <<>>
    BY <1>0, <1>1, <1>6 DEF FateInv
  <2> QED BY <1>0, <1>1, <1>2, <1>6, <2>1, <2>2 DEF FateInv
<1>7. CASE Begin(t) \/ Count(t) \/ RaisePeak(t) \/ Snapshot(t) \/ RecordLatency(t)
  BY <1>2, <1>6, <1>7 DEF Begin, Count, RaisePeak, Snapshot, RecordLatency, Goto, heap
<1>8. CASE EnterBurst(t) \/ StartSpin(t) \/ EndSpin(t) \/ LeaveBurst(t)
  BY <1>2, <1>6, <1>8 DEF EnterBurst, StartSpin, EndSpin, LeaveBurst, Goto, heap
<1>9. CASE Search(t) \/ Return(t) \/ LoadEpoch(t) \/ CasEpoch(t)
  BY <1>2, <1>6, <1>9 DEF Search, Return, LoadEpoch, CasEpoch, Goto
<1>10. ASSUME NEW safe_ts \in Nat, NEW k \in Nat, Drain(t, safe_ts, k),
              UNCHANGED <<allocated, live>>,
              pc'[t] = "done" => (\A x \in Node : birth[x] < safe_ts) /\ k = Len(bag[t])
       PROVE  FateInv'
  <2>0. PICK rest \in Seq(Node) : \E out :
              /\ bag' = [bag EXCEPT ![t] = rest]
              /\ freed' = freed \cup out
              /\ Distinct(rest)
              /\ Elements(rest) \cup out = Nodes(t)
              /\ Elements(rest) \cap out = {}
              /\ (\A x \in Node : birth[x] < safe_ts) /\ k = Len(bag[t]) => rest = <<>>
    BY <1>0, <1>5, <1>10, DrainMoves
  <2>1. PICK out :
              /\ bag' = [bag EXCEPT ![t] = rest]
              /\ freed' = freed \cup out
              /\ Distinct(rest)
              /\ Elements(rest) \cup out = Nodes(t)
              /\ Elements(rest) \cap out = {}
              /\ (\A x \in Node : birth[x] < safe_ts) /\ k = Len(bag[t]) => rest = <<>>
    BY <2>0
  <2> DEFINE new == {}
  <2>2. /\ Elements(rest) \cup out = Nodes(t) \cup new
        /\ new \subseteq 1 .. allocated' /\ new \cap freed = {} /\ new \cap live' = {}
        /\ \A u \in Thread : new \cap Nodes(u) = {}
    BY <2>1
  <2>3. /\ allocated' \in allocated .. MaxNode /\ live' \subseteq 1 .. allocated'
        /\ live' \cap freed = {} /\ \A u \in Thread : live' \cap Nodes(u) = {}
        /\ \A x \in 1 .. allocated' : x \in 1 .. allocated \/ x \in live' \/ x \in new
        /\ \A x \in live : x \in live' \/ x \in new
    <3>1. allocated' = allocated /\ live' = live
      BY <1>10
    <3> QED BY <1>4, <3>1
  <2>4. pc'[t] = "done" => rest = <<>>
    BY <1>10, <2>1
  <2> HIDE DEF new
  <2> QED BY <1>0, <1>1, <1>2, <2>1, <2>2, <2>3, <2>4, FateMoves
<1>11. CASE DrainAfter(t)
  <2>1. saturating_sub(epoch, 2) \in Nat /\ MAX \in Nat
    BY <1>5, MaxIsLarge DEF saturating_sub
  <2>2. pc'[t] # "done" /\ UNCHANGED <<allocated, live>>
    BY <1>2, <1>11 DEF DrainAfter, Goto
  <2>3. \/ Drain(t, MAX, AggressiveDrain) \/ Drain(t, saturating_sub(epoch, 2), Len(bag[t]))
        \/ Drain(t, saturating_sub(epoch, 2), 1)
    BY <1>11 DEF DrainAfter, drain_discrete_tick, FlushBag, DrainOne
  <2>4. CASE Drain(t, MAX, AggressiveDrain)
    BY <1>10, <2>1, <2>2, <2>4
  <2>5. CASE Drain(t, saturating_sub(epoch, 2), Len(bag[t]))
    BY <1>3, <1>10, <2>1, <2>2, <2>5
  <2>6. CASE Drain(t, saturating_sub(epoch, 2), 1)
    BY <1>10, <2>1, <2>2, <2>6
  <2> QED BY <2>3, <2>4, <2>5, <2>6
<1>12. CASE Exit(t)
  <2>1. UNCHANGED <<allocated, live>>
    BY <1>12 DEF Exit
  <2>2. CASE run = "synthetic"
    <3>1. UNCHANGED <<bag, freed>> /\ ~(run \in Strategy)
      BY <1>12, <2>2 DEF Exit, ExitDrain, Strategy
    <3> QED BY <1>6, <2>1, <3>1
  <2>3. CASE run # "synthetic"
    <3>1. Drain(t, MAX, Len(bag[t]))
      BY <1>12, <2>3 DEF Exit, ExitDrain
    <3>2. \A x \in Node : birth[x] < MAX
      BY <1>0 DEF EpochInv
    <3> QED BY <1>3, <1>10, <2>1, <3>1, <3>2, MaxIsLarge
  <2> QED BY <2>2, <2>3
<1>13. CASE Write(t)
  <2> DEFINE x == allocated + 1
             filled == Append(bag[t], x)
             new == {x}
  <2>1. /\ allocated < MaxNode /\ allocated' = x /\ UNCHANGED live /\ pc'[t] # "done"
    BY <1>2, <1>13 DEF Write
  <2>2. /\ x \in Node /\ x \notin 1 .. allocated /\ x \in 1 .. x /\ x \in allocated .. MaxNode
        /\ 1 .. allocated \subseteq 1 .. x
        /\ \A y \in 1 .. x : y \in 1 .. allocated \/ y = x
    BY <1>4, <2>1 DEF Node
  <2>3. PICK n \in 0 .. Len(filled) :
           /\ bag' = [bag EXCEPT ![t] = SubSeq(filled, n + 1, Len(filled))]
           /\ freed' = freed \cup {filled[i] : i \in 1 .. n}
    BY <1>13 DEF Write
  <2> HIDE DEF x
  <2>4. x \notin Elements(bag[t])
    BY <1>3, <2>2
  <2>5. filled \in Seq(Node) /\ Distinct(filled) /\ Elements(filled) = Elements(bag[t]) \cup {x}
    BY <1>3, <2>2, <2>4, PushNew
  <2> HIDE DEF filled
  <2> DEFINE rest == SubSeq(filled, n + 1, Len(filled))
             out == {filled[i] : i \in 1 .. n}
  <2>6. /\ rest \in Seq(Node) /\ Distinct(rest)
        /\ Elements(rest) \cup out = Elements(filled) /\ Elements(rest) \cap out = {}
    BY <2>5, CutBag
  <2>7. bag' = [bag EXCEPT ![t] = rest] /\ freed' = freed \cup out
    BY <2>3
  <2> HIDE DEF rest, out
  <2>8. /\ Elements(rest) \cup out = Nodes(t) \cup new
        /\ new \subseteq 1 .. allocated' /\ new \cap freed = {} /\ new \cap live' = {}
        /\ \A u \in Thread : new \cap Nodes(u) = {}
    BY <1>3, <1>4, <2>1, <2>2, <2>5, <2>6
  <2>9. /\ allocated' \in allocated .. MaxNode /\ live' \subseteq 1 .. allocated'
        /\ live' \cap freed = {} /\ \A u \in Thread : live' \cap Nodes(u) = {}
        /\ \A y \in 1 .. allocated' : y \in 1 .. allocated \/ y \in live' \/ y \in new
        /\ \A y \in live : y \in live' \/ y \in new
    <3>1. allocated' = x /\ live' = live
      BY <2>1
    <3> QED BY <1>4, <2>2, <3>1
  <2> HIDE DEF new
  <2> QED BY <1>0, <1>1, <1>2, <2>1, <2>6, <2>7, <2>8, <2>9, FateMoves
<1>14. CASE Replace(t)
  <2> DEFINE x == allocated + 1
  <2>1. /\ allocated < MaxNode /\ allocated' = x /\ UNCHANGED <<pc, freed>>
    BY <1>14 DEF Replace
  <2>2. /\ x \in Node /\ x \notin 1 .. allocated /\ x \in 1 .. x /\ x \in allocated .. MaxNode
        /\ 1 .. allocated \subseteq 1 .. x
        /\ \A y \in 1 .. x : y \in 1 .. allocated \/ y = x
        /\ 1 .. allocated \subseteq Node
    BY <1>4, <2>1 DEF Node
  <2>3. PICK old \in live : live' = (live \ {old}) \cup {x} /\ pacer_retire_cb(t, old)
    BY <1>14 DEF Replace
  <2> HIDE DEF x
  <2> DEFINE rest == Append(bag[t], old)
             out == {}
             new == {old}
  <2>4. bag' = [bag EXCEPT ![t] = rest] /\ freed' = freed \cup out
    BY <2>1, <2>3 DEF pacer_retire_cb
  <2>5. old \in 1 .. allocated /\ old \in Node /\ old # x
    BY <1>4, <2>2, <2>3
  <2>6. old \notin Elements(bag[t])
    BY <1>3, <1>4, <2>3
  <2>7. rest \in Seq(Node) /\ Distinct(rest) /\ Elements(rest) = Elements(bag[t]) \cup {old}
    BY <1>3, <2>5, <2>6, PushNew
  <2> HIDE DEF rest
  <2>8. /\ Elements(rest) \cup out = Nodes(t) \cup new /\ Elements(rest) \cap out = {}
        /\ new \subseteq 1 .. allocated' /\ new \cap freed = {} /\ new \cap live' = {}
        /\ \A u \in Thread : new \cap Nodes(u) = {}
    BY <1>3, <1>4, <2>1, <2>2, <2>3, <2>5, <2>7
  <2>9. /\ allocated' \in allocated .. MaxNode /\ live' \subseteq 1 .. allocated'
        /\ live' \cap freed = {} /\ \A u \in Thread : live' \cap Nodes(u) = {}
        /\ \A y \in 1 .. allocated' : y \in 1 .. allocated \/ y \in live' \/ y \in new
        /\ \A y \in live : y \in live' \/ y \in new
    <3>1. allocated' = x /\ live' = (live \ {old}) \cup {x}
      BY <2>1, <2>3
    <3>2. x \notin freed /\ \A u \in Thread : x \notin Nodes(u)
      BY <1>4, <2>2
    <3> QED BY <1>4, <2>2, <3>1, <3>2
  <2> HIDE DEF out, new
  <2>10. pc'[t] # "done"
    BY <1>1, <2>1
  <2> QED BY <1>0, <1>1, <1>2, <2>4, <2>7, <2>8, <2>9, <2>10, FateMoves
<1> QED BY <1>7, <1>8, <1>9, <1>11, <1>12, <1>13, <1>14 DEF Step

\* Joining the workers and destroying the tree.
LEMMA ReportFate == ASSUME BenchInv, Report PROVE FateInv'
<1>1. FateInv
  BY DEF BenchInv
<1>2. freed' = freed \cup live /\ live' = {} /\ UNCHANGED <<run, pc, bag, allocated>>
  BY DEF Report
<1>3. \A t \in Thread : Nodes(t)' = Nodes(t)
  BY <1>2 DEF Nodes
<1> QED BY <1>1, <1>2, <1>3 DEF FateInv

---------------------------------------------------------------------------
(* The epochs *)

LEMMA Products ==
    ASSUME NEW a \in Nat, NEW b \in Nat PROVE a * 2 * b = (2 * b) * a /\ 2 * b \in Nat
OBVIOUS

\* Workers that advance the epoch twice in each operation leave it below u64::MAX.
LEMMA AdvancesBounded ==
    ASSUME NEW f \in [Thread -> Int], \A t \in Thread : f[t] <= 2 * MaxOps
    PROVE  Sum(f, Thread) \in Int /\ MaxNode + Sum(f, Thread) < MAX
<1> DEFINE all == [t \in Thread |-> 2 * MaxOps]
<1>1. 2 * MaxOps \in Nat
  OBVIOUS
<1>2. all \in [Thread -> Int] /\ \A t \in Thread : all[t] = 2 * MaxOps
  BY <1>1
<1> HIDE DEF all
<1>3. \A t \in Thread : f[t] <= all[t]
  BY <1>2
<1>4. Sum(f, Thread) <= Sum(all, Thread)
  BY <1>2, <1>3, SumMonotone
<1>5. Sum(all, Thread) = (2 * MaxOps) * Cardinality(Thread)
  BY <1>1, <1>2, SumConstant
<1>6. Sum(f, Thread) \in Int /\ Sum(all, Thread) \in Int
  BY <1>2, SumType
<1>7. EpochLimit = MaxNode + Sum(all, Thread)
  BY <1>5, ThreadCount, Products DEF EpochLimit
<1>8. EpochLimit < MAX /\ MAX \in Nat
  BY MaxIsLarge
<1> QED BY <1>4, <1>6, <1>7, <1>8

\* The epoch is advanced by no more than the step is counted for.
LEMMA EpochAdvance ==
    ASSUME BenchInv, NEW t \in Thread, Step(t), LoopInv', NEW d \in {0, 1},
           advances[t] + d <= advances'[t],
           \A u \in Thread : u # t => begun'[u] = begun[u],
           epoch' \in {epoch, epoch + d}
    PROVE  /\ epoch' \in Nat
           /\ epoch' <= MaxNode + 1 + Sum(advances', Thread)
           /\ epoch + d <= MAX
<1>1. epoch \in Nat /\ epoch <= MaxNode + 1 + Sum(advances, Thread) /\ LoopInv
  BY DEF BenchInv, EpochInv
<1>2. \A u \in Thread : begun[u] \in 0 .. MaxOps /\ begun'[u] \in 0 .. MaxOps
  BY <1>1 DEF LoopInv
<1>3. advances \in [Thread -> Int] /\ advances' \in [Thread -> Int]
  BY <1>2 DEF advances
<1>4. (\A u \in Thread : advances[u] <= 2 * MaxOps) /\ \A u \in Thread : advances'[u] <= 2 * MaxOps
  BY <1>2 DEF advances
<1>5. \A u \in Thread : u # t => advances'[u] = advances[u]
  BY <1>1, StepFrame DEF advances
<1>6. Sum(advances', Thread) = Sum(advances, Thread) - advances[t] + advances'[t]
  BY <1>3, <1>5, SumUpdate
<1>7. Sum(advances, Thread) \in Int
  BY <1>3, <1>4, AdvancesBounded
<1>8. Sum(advances', Thread) \in Int /\ MaxNode + Sum(advances', Thread) < MAX
  BY <1>3, <1>4, AdvancesBounded
<1>9. advances[t] \in Int /\ advances'[t] \in Int /\ MAX \in Nat
  BY <1>3, MaxIsLarge
<1> QED BY <1>1, <1>6, <1>7, <1>8, <1>9

LEMMA StepEpoch == ASSUME BenchInv, NEW t \in Thread, Step(t), LoopInv' PROVE EpochInv'
<1>0. LoopInv /\ EpochInv /\ FateInv
  BY DEF BenchInv
<1>1. /\ pc \in [Thread -> Pc] /\ pc' \in [Thread -> Pc] /\ epoch \in Nat
      /\ begun \in [Thread -> 0 .. MaxOps] /\ begun' \in [Thread -> 0 .. MaxOps]
      /\ \A u \in Thread : u # t => pc'[u] = pc[u]
  BY <1>0, StepFrame DEF LoopInv, EpochInv
<1>2. begun[t] \in Nat
  BY <1>1
<1>3. ASSUME NEW d \in {0, 1}, advances[t] + d <= advances'[t],
             \A u \in Thread : u # t => begun'[u] = begun[u], epoch' \in {epoch, epoch + d},
             UNCHANGED birth, reach' \in [Thread -> SUBSET Node], ts' \in [Thread -> Nat],
             \A u \in Thread : u # t => ts'[u] = ts[u],
             pc'[t] = "tree" => ts'[t] < epoch + d
      PROVE  EpochInv'
  <2>1. epoch' \in Nat /\ epoch' <= MaxNode + 1 + Sum(advances', Thread) /\ epoch + d <= MAX
    BY <1>3, EpochAdvance
  <2>2. \A u \in Thread : pc'[u] = "tree" => ts'[u] < MAX
    BY <1>0, <1>1, <1>3, <2>1, MaxIsLarge DEF EpochInv
  <2> QED BY <1>0, <1>3, <2>1, <2>2 DEF EpochInv
<1>4. CASE /\ UNCHANGED <<begun, birth, reach, epoch, ts>>
           /\ advances[t] <= advances'[t] /\ pc'[t] # "tree"
  <2>1. advances[t] + 0 <= advances'[t]
    BY <1>1, <1>4 DEF advances
  <2> QED BY <1>0, <1>3, <1>4, <2>1 DEF EpochInv
<1>5. CASE Begin(t)
  <2>1. /\ pc[t] = "loop" /\ pc'[t] = "op" /\ begun'[t] = begun[t] + 1 
        /\ \A u \in Thread : u # t => begun'[u] = begun[u]
        /\ UNCHANGED <<birth, reach, epoch, ts>>
    BY <1>1, <1>5 DEF Begin, Goto, heap
  <2>2. advances[t] + 0 <= advances'[t]
    BY <1>2, <2>1 DEF advances
  <2> QED BY <1>0, <1>3, <2>1, <2>2 DEF EpochInv
<1>6. CASE Count(t) \/ RaisePeak(t) \/ Exit(t) \/ Snapshot(t) \/ RecordLatency(t) \/ Write(t)
  <2>1. UNCHANGED <<begun, birth, reach, epoch, ts>> /\ pc'[t] # "tree"
    BY <1>1, <1>6 DEF Count, RaisePeak, Exit, Snapshot, RecordLatency, Write, Goto, loop, heap
  <2>2. pc'[t] \in {"peak", "loop", "done", "latency", "count", "burst"}
    BY <1>1, <1>6 DEF Count, RaisePeak, Exit, Snapshot, RecordLatency, Write, Goto
  <2>3. advances[t] <= advances'[t]
    BY <1>2, <2>1, <2>2 DEF advances
  <2> QED BY <1>4, <2>1, <2>3
<1>7. CASE EnterBurst(t) \/ StartSpin(t) \/ EndSpin(t) \/ LeaveBurst(t)
  <2>1. UNCHANGED <<begun, birth, reach, epoch, ts>> /\ pc'[t] # "tree"
    BY <1>1, <1>7 DEF EnterBurst, StartSpin, EndSpin, LeaveBurst, Goto, loop, heap
  <2>2. advances[t] <= advances'[t]
    BY <1>1, <1>2, <1>7, <2>1 DEF EnterBurst, StartSpin, EndSpin, LeaveBurst, Goto, advances
  <2> QED BY <1>4, <2>1, <2>2
<1>8. CASE DrainAfter(t)
  <2>1. UNCHANGED <<begun, birth, reach, epoch, ts>> /\ pc'[t] # "tree"
    BY <1>1, <1>8 DEF DrainAfter, Goto, loop
  <2>2. advances[t] <= advances'[t]
    BY <1>1, <1>2, <1>8, <2>1 DEF DrainAfter, Goto, advances
  <2> QED BY <1>4, <2>1, <2>2
<1>9. CASE Search(t)
  <2>1. /\ pc[t] = "op" /\ pc'[t] = "tree" /\ ts' = [ts EXCEPT ![t] = epoch] /\ epoch' = epoch + 1
        /\ reach' = [reach EXCEPT ![t] = live]
        /\ UNCHANGED <<begun, birth>>
    BY <1>1, <1>9 DEF Search, Goto, loop
  <2>2. advances[t] + 1 <= advances'[t]
    BY <1>2, <2>1 DEF advances
  <2>3. live \in SUBSET Node
    BY <1>0 DEF FateInv, Node
  <2>4. reach' \in [Thread -> SUBSET Node] /\ ts' \in [Thread -> Nat] /\ ts'[t] < epoch + 1
        /\ \A u \in Thread : u # t => ts'[u] = ts[u]
    BY <1>0, <1>1, <2>1, <2>3 DEF EpochInv
  <2> QED BY <1>3, <2>1, <2>2, <2>4
<1>10. CASE Return(t)
  <2>1. /\ pc[t] = "tree" /\ pc'[t] \in {"count", "drain"} /\ ts' = [ts EXCEPT ![t] = 0]
        /\ reach' = [reach EXCEPT ![t] = {}]
        /\ UNCHANGED <<begun, birth, epoch>>
    BY <1>1, <1>10 DEF Return, Goto, loop
  <2>2. advances[t] + 0 <= advances'[t]
    BY <1>2, <2>1 DEF advances
  <2>3. reach' \in [Thread -> SUBSET Node] /\ ts' \in [Thread -> Nat] /\ pc'[t] # "tree"
        /\ \A u \in Thread : u # t => ts'[u] = ts[u]
    BY <1>0, <2>1 DEF EpochInv
  <2> QED BY <1>3, <2>1, <2>2, <2>3
<1>11. CASE LoadEpoch(t)
  <2>1. /\ pc[t] = "load_epoch" /\ pc'[t] = "cas_epoch" /\ ts' = [ts EXCEPT ![t] = epoch]
        /\ UNCHANGED <<begun, birth, reach, epoch>>
    BY <1>1, <1>11 DEF LoadEpoch, Goto, loop
  <2>2. advances[t] + 0 <= advances'[t]
    BY <1>2, <2>1 DEF advances
  <2>3. reach' \in [Thread -> SUBSET Node] /\ ts' \in [Thread -> Nat]
        /\ \A u \in Thread : u # t => ts'[u] = ts[u]
    BY <1>0, <1>1, <2>1 DEF EpochInv
  <2> QED BY <1>3, <2>1, <2>2, <2>3
<1>12. CASE CasEpoch(t)
  <2>1. /\ pc[t] = "cas_epoch" /\ pc'[t] = "count" /\ ts' = [ts EXCEPT ![t] = 0]
        /\ epoch' \in {epoch, epoch + 1}
        /\ UNCHANGED <<begun, birth, reach>>
    BY <1>1, <1>12 DEF CasEpoch, Goto, loop
  <2>2. advances[t] + 1 <= advances'[t]
    BY <1>2, <2>1 DEF advances
  <2>3. reach' \in [Thread -> SUBSET Node] /\ ts' \in [Thread -> Nat]
        /\ \A u \in Thread : u # t => ts'[u] = ts[u]
    BY <1>0, <1>1, <2>1 DEF EpochInv
  <2> QED BY <1>3, <2>1, <2>2, <2>3
<1>13. CASE Replace(t)
  <2>1. /\ pc[t] = "tree" /\ allocated < MaxNode
        /\ UNCHANGED <<pc, begun, epoch, ts>>
    BY <1>13 DEF Replace, loop
  <2>0. PICK old \in live : \E word \in {birth[old]} \cup Handle :
           birth' = [birth EXCEPT ![allocated + 1] = ts[t], ![old] = word]
    BY <1>13 DEF Replace
  <2>2. PICK word \in {birth[old]} \cup Handle :
           birth' = [birth EXCEPT ![allocated + 1] = ts[t], ![old] = word]
    BY <2>0
  <2>3. allocated + 1 \in Node /\ old \in Node
    BY <1>0, <2>1, <2>2 DEF FateInv, Node
  <2>4. ts[t] \in Nat /\ ts[t] < MAX /\ word \in Nat /\ word < MAX
    BY <1>0, <2>1, <2>2, <2>3, MaxIsLarge DEF EpochInv
  <2>5. birth' \in [Node -> Nat] /\ \A n \in Node : birth'[n] < MAX
    BY <1>0, <2>2, <2>3, <2>4 DEF EpochInv
  <2>6. reach' \in [Thread -> SUBSET Node]
    <3>1. reach' = [u \in Thread |-> IF pc[u] = "tree" THEN reach[u] \cup {allocated + 1}
                                                       ELSE reach[u]]
      BY <1>13 DEF Replace
    <3> QED BY <1>0, <2>3, <3>1 DEF EpochInv
  <2>7. advances' = advances
    BY <2>1 DEF advances
  <2> QED BY <1>0, <2>1, <2>5, <2>6, <2>7 DEF EpochInv
<1> QED BY <1>5, <1>6, <1>7, <1>8, <1>9, <1>10, <1>11, <1>12, <1>13 DEF Step

---------------------------------------------------------------------------
(* The theorems *)

LEMMA StepBenchInv == ASSUME BenchInv, NEW t \in Thread, Step(t) PROVE BenchInv'
<1>1. LoopInv'
  BY StepLoop
<1>2. PressureInv'
  BY StepPressure
<1>3. LatencyInv'
  BY StepLatency
<1>4. PeakInv'
  BY StepPeak
<1>5. OpsInv'
  BY <1>1, StepOps
<1>6. FateInv'
  BY StepFate
<1>7. EpochInv'
  BY <1>1, StepEpoch
<1> QED BY <1>1, <1>2, <1>3, <1>4, <1>5, <1>6, <1>7 DEF BenchInv

LEMMA NextBenchInv == BenchInv /\ [Next]_vars => BenchInv'
<1> SUFFICES ASSUME BenchInv, [Next]_vars PROVE BenchInv'
  OBVIOUS
<1>0. LoopInv /\ PressureInv /\ LatencyInv /\ PeakInv /\ OpsInv /\ FateInv /\ EpochInv
  BY DEF BenchInv
<1>1. ASSUME UNCHANGED <<run, pc, begun, local, counting, bag, peak_limbo, longest, total_ops>>
      PROVE  /\ (clock' \in Nat /\ (reported' \in BOOLEAN)
                  /\ (reported' => \A t \in Thread : pc[t] = "done") => LoopInv')
             /\ PeakInv' /\ OpsInv'
             /\ (UNCHANGED latency => LatencyInv')
             /\ (UNCHANGED <<birth, reach, epoch, ts>> => EpochInv')
  <2>1. clock' \in Nat /\ (reported' \in BOOLEAN)
                  /\ (reported' => \A t \in Thread : pc[t] = "done") => LoopInv'
    BY <1>0, <1>1 DEF LoopInv
  <2>2. PeakInv'
    BY <1>0, <1>1 DEF PeakInv
  <2>3. OpsInv'
    BY <1>0, <1>1 DEF OpsInv, added
  <2>4. UNCHANGED latency => LatencyInv'
    BY <1>0, <1>1 DEF LatencyInv, latency
  <2>5. UNCHANGED <<birth, reach, epoch, ts>> => EpochInv'
    BY <1>0, <1>1 DEF EpochInv, advances
  <2> QED BY <2>1, <2>2, <2>3, <2>4, <2>5
<1>2. ASSUME UNCHANGED <<run, pc, bag, allocated, live, freed, reported>> PROVE FateInv'
  BY <1>0, <1>2 DEF FateInv, Nodes
<1>3. ASSUME UNCHANGED <<clock, pc, pressure>> PROVE PressureInv'
  BY <1>0, <1>3 DEF PressureInv, FreersExact, InBurst, start, pressure
<1>4. CASE Tick
  <2>1. UNCHANGED <<run, pc, loop, bag, heap, latency, stats, reported>> /\ clock' = clock + 1
    BY <1>4 DEF Tick
  <2>2. PressureInv'
    BY <1>4, TickPressure
  <2>3. LoopInv' /\ PeakInv' /\ OpsInv' /\ LatencyInv' /\ EpochInv'
    BY <1>0, <1>1, <2>1 DEF LoopInv, loop, heap, stats
  <2>4. FateInv'
    BY <1>2, <2>1 DEF heap
  <2> QED BY <2>2, <2>3, <2>4 DEF BenchInv
<1>5. CASE Report
  <2>1. /\ UNCHANGED <<run, clock, pc, loop, bag, birth, reach, epoch, ts, pressure, latency,
                       stats>>
        /\ reported' = TRUE /\ \A t \in Thread : pc[t] = "done"
    BY <1>5 DEF Report
  <2>2. PressureInv'
    BY <1>3, <2>1
  <2>3. LoopInv' /\ PeakInv' /\ OpsInv' /\ LatencyInv' /\ EpochInv'
    BY <1>0, <1>1, <2>1 DEF LoopInv, loop, stats
  <2>4. FateInv'
    BY <1>5, ReportFate
  <2> QED BY <2>2, <2>3, <2>4 DEF BenchInv
<1>6. CASE UNCHANGED vars
  <2>1. UNCHANGED <<run, clock, pc, loop, bag, heap, pressure, latency, stats, reported>>
    BY <1>6 DEF vars
  <2>2. PressureInv'
    BY <1>3, <2>1
  <2>3. LoopInv' /\ PeakInv' /\ OpsInv' /\ LatencyInv' /\ EpochInv'
    BY <1>0, <1>1, <2>1 DEF LoopInv, loop, heap, stats
  <2>4. FateInv'
    BY <1>2, <2>1 DEF heap
  <2> QED BY <2>2, <2>3, <2>4 DEF BenchInv
<1> QED BY <1>4, <1>5, <1>6, StepBenchInv DEF Next

\* In every state of both benchmarks the loops, the allocator pressure, the
\* statistics, the nodes and the epochs are as BenchInv says.
THEOREM Safe == Spec => []BenchInv
<1>1. Init => BenchInv
  BY InitBenchInv
<1>2. BenchInv /\ [Next]_vars => BenchInv'
  BY NextBenchInv
<1> QED BY <1>1, <1>2, PTL DEF Spec

\* Every variable has its type: concurrent_freers, which the code decrements
\* as an unsigned number, never wraps, and every bag holds nodes.
THEOREM TypeCorrect == Spec => []TypeOK
<1>1. BenchInv => TypeOK
  <2> SUFFICES ASSUME BenchInv PROVE TypeOK
    OBVIOUS
  <2>0. LoopInv /\ PressureInv /\ LatencyInv /\ PeakInv /\ OpsInv /\ FateInv /\ EpochInv
    BY DEF BenchInv
  <2>1. begun \in [Thread -> Nat]
    BY <2>0 DEF LoopInv
  <2>2. concurrent_freers \in Nat
    <3>1. IsFiniteSet({t \in Thread : InBurst(t)})
      BY FS_Subset
    <3>2. Cardinality({t \in Thread : InBurst(t)}) \in Nat
      BY <3>1, FS_CardinalityType
    <3> QED BY <2>0, <3>2 DEF PressureInv, FreersExact
  <2>3. live \subseteq Node /\ freed \subseteq Node
    BY <2>0 DEF FateInv, Node
  <2>4. total_ops \in Nat
    <3> DEFINE none == [t \in Thread |-> 0]
    <3>1. added \in [Thread -> Int] /\ \A t \in Thread : 0 <= added[t]
      BY <2>0 DEF LoopInv, added
    <3>2. none \in [Thread -> Int] /\ \A t \in Thread : none[t] = 0
      OBVIOUS
    <3> HIDE DEF none
    <3>3. \A t \in Thread : none[t] <= added[t]
      BY <3>1, <3>2
    <3>4. Sum(none, Thread) <= Sum(added, Thread)
      BY <3>1, <3>2, <3>3, SumMonotone
    <3>5. Sum(none, Thread) = 0
      BY <3>2, ZeroSum
    <3>6. Sum(added, Thread) \in Int
      BY <3>1, SumType
    <3> QED BY <2>0, <3>4, <3>5, <3>6 DEF OpsInv
  <2>5. total_free_ns \in Nat /\ burst \in [Thread -> [n : Nat, total_ns : Nat, end : Nat]]
    BY <2>0 DEF PressureInv, Burst
  <2> QED BY <2>0, <2>1, <2>2, <2>3, <2>4, <2>5
          DEF TypeOK, LoopInv, LatencyInv, PeakInv, FateInv, EpochInv
<1> QED BY <1>1, Safe, PTL

\* Every node that the tree or a writer allocated is in the tree, in one place
\* of one limbo bag, or freed, and never in two of these: no retire callback
\* and no drain loses a node or frees it twice.
THEOREM Fate == Spec => []OneFate
<1>1. BenchInv => OneFate
  <2> SUFFICES ASSUME BenchInv PROVE OneFate
    OBVIOUS
  <2>0. FateInv
    BY DEF BenchInv
  <2>1. \A t \in Thread : DOMAIN bag[t] = 1 .. Len(bag[t])
    BY <2>0, LenProperties DEF FateInv
  <2>2. \A t \in Thread : InBag(t) = Nodes(t)
    BY <2>1 DEF InBag, Nodes, Elements
  <2>3. \A t \in Thread : \A i, j \in DOMAIN bag[t] : bag[t][i] = bag[t][j] => i = j
    BY <2>0, <2>1 DEF FateInv, Distinct
  <2>4. 1 .. allocated = live \cup freed \cup UNION {InBag(t) : t \in Thread}
    <3>1. \A x \in 1 .. allocated : x \in live \/ x \in freed \/ \E t \in Thread : x \in InBag(t)
      BY <2>0, <2>2 DEF FateInv
    <3>2. live \subseteq 1 .. allocated /\ freed \subseteq 1 .. allocated
          /\ \A t \in Thread : InBag(t) \subseteq 1 .. allocated
      BY <2>0, <2>2 DEF FateInv
    <3> QED BY <3>1, <3>2
  <2> QED BY <2>0, <2>2, <2>3, <2>4 DEF FateInv, OneFate
<1> QED BY <1>1, Safe, PTL

\* When run_once has made its result, every node of the tree is freed, whatever
\* words of the tree were taken for birth timestamps.
THEOREM Emptied == Spec => []NothingLeft
<1>1. BenchInv => NothingLeft
  <2> SUFFICES ASSUME BenchInv, reported, run \in Strategy PROVE freed = 1 .. allocated
    BY DEF NothingLeft
  <2>0. LoopInv /\ FateInv
    BY DEF BenchInv
  <2>1. \A t \in Thread : Nodes(t) = {}
    BY <2>0, EmptyElements DEF LoopInv, FateInv, Nodes
  <2> QED BY <2>0, <2>1 DEF FateInv
<1> QED BY <1>1, Safe, PTL

\* The result has the longest bag that a worker ever counted and the sum of
\* the workers' operations.
THEOREM Result == Spec => []ResultExact
<1>1. BenchInv => ResultExact
  <2> SUFFICES ASSUME BenchInv, reported
               PROVE  peak_limbo = longest /\ total_ops = MapThenSumSet(LAMBDA t : local[t], Thread)
    BY DEF ResultExact
  <2>0. LoopInv /\ PeakInv /\ OpsInv
    BY DEF BenchInv
  <2>1. \A t \in Thread : pc[t] = "done"
    BY <2>0 DEF LoopInv
  <2>2. peak_limbo = longest
    BY <2>0, <2>1 DEF PeakInv
  <2>3. added = local
    BY <2>0, <2>1 DEF LoopInv, added
  <2>4. total_ops = Sum(local, Thread)
    BY <2>0, <2>3 DEF OpsInv
  <2> QED BY <2>2, <2>4 DEF Sum
<1> QED BY <1>1, Safe, PTL

\* concurrent_freers is the number of threads inside simulate_free_burst.
THEOREM Freers == Spec => []FreersExact
<1>1. BenchInv => FreersExact
  BY DEF BenchInv, PressureInv
<1> QED BY <1>1, Safe, PTL

LEMMA Percent ==
    ASSUME NEW part \in Nat, NEW whole \in Nat \ {0}, part <= whole
    PROVE  (100 * part) \div whole \in 0 .. 100
<1>1. 100 * part \in Nat /\ 100 * part <= 100 * whole
  OBVIOUS
<1> QED BY <1>1

\* The workers are charged for no more time than passed for all of them.
THEOREM Percentage == Spec => []PercentageIsOne
<1>1. BenchInv => PercentageIsOne
  <2> SUFFICES ASSUME BenchInv PROVE PercentageIsOne
    OBVIOUS
  <2>0. LoopInv /\ PressureInv /\ start \in [Thread -> Int] /\ clock \in Nat
    BY StartType DEF BenchInv, LoopInv
  <2> DEFINE now == [t \in Thread |-> clock]
             whole == clock * Cardinality(Thread)
  <2>1. now \in [Thread -> Int] /\ \A t \in Thread : now[t] = clock /\ start[t] <= now[t]
    BY <2>0 DEF PressureInv
  <2> HIDE DEF now
  <2>2. Sum(start, Thread) <= Sum(now, Thread)
    BY <2>0, <2>1, SumMonotone
  <2>3. Sum(now, Thread) = whole
    BY <2>0, <2>1, SumConstant
  <2>4. Sum(start, Thread) \in Int /\ Sum(now, Thread) \in Int
    BY <2>0, <2>1, SumType
  <2>5. total_free_ns \in Nat /\ total_free_ns <= whole
    BY <2>0, <2>2, <2>3, <2>4 DEF PressureInv
  <2>6. whole \in Nat /\ (clock = 0 => whole = 0) /\ (clock > 0 => whole # 0)
    BY <2>0, ThreadCount
  <2> HIDE DEF whole
  <2>7. clock > 0 => (100 * total_free_ns) \div whole \in 0 .. 100
    BY <2>5, <2>6, Percent
  <2>8. clock = 0 => total_free_ns = 0
    BY <2>5, <2>6
  <2> QED BY <2>7, <2>8 DEF PercentageIsOne, pct_time_in_free, whole
<1> QED BY <1>1, Safe, PTL

\* The average latency is at most the longest latency that was recorded.
THEOREM LatencyCorrect == Spec => []LatencyBounded
<1>1. BenchInv => LatencyBounded
  BY DEF BenchInv, LatencyInv, LatencyBounded
<1> QED BY <1>1, Safe, PTL
=============================================================================
