-------------------------- MODULE SpiControlProofs --------------------------
(***************************************************************************)
(* Proofs about the control laws of src/lib.rs: for windows of any size    *)
(* and any mixture of writes and snapshots, and any MAX_BATCH and          *)
(* BASE_STRIDE.                                                            *)
(***************************************************************************)
EXTENDS MCSpiControl, TLAPS

USE ControlAssumption, CountAssumption

---------------------------------------------------------------------------
(* The averaging *)

LEMMA WindowSpiInRange ==
    ASSUME NEW writes \in Nat, NEW snaps \in Nat
    PROVE  WindowSpi(writes, snaps) \in Spi
BY SMT DEF WindowSpi, Spi

LEMMA EmaInRange ==
    ASSUME NEW spi \in Spi, NEW sample \in Spi
    PROVE  Ema(spi, sample) \in Spi
BY SMT DEF Ema, Spi

---------------------------------------------------------------------------
(* The selectors *)

\* The classifiers of lib.rs and of reclaimer_pacer.h are the same function.
THEOREM SameSelector ==
    ASSUME NEW spi \in Spi, NEW prev \in Mode
    PROVE  /\ select_gc_mode_with_hysteresis(spi, prev) = pacer_select_mode_hyst(spi, prev)
           /\ select_gc_mode_with_hysteresis(spi, prev) \in Mode
BY SMT DEF Spi, Mode, select_gc_mode_with_hysteresis, pacer_select_mode_hyst, WriteHeavy,
       SnapHeavy, Hysteresis

\* Where the estimate is when a mode is entered: beyond a threshold by Hysteresis.
LEMMA ModeEntered ==
    ASSUME NEW spi \in Spi, NEW prev \in Mode,
           select_gc_mode_with_hysteresis(spi, prev) # prev
    PROVE  LET mode == select_gc_mode_with_hysteresis(spi, prev)
           IN  /\ mode = "AggressiveEbr" => spi <= 250
               /\ mode = "ConservativeHold" => spi > 650
               /\ mode = "AmortisedFree" => \/ prev = "AggressiveEbr" /\ spi > 350
                                            \/ prev = "ConservativeHold" /\ spi <= 550
BY SMT DEF Spi, Mode, select_gc_mode_with_hysteresis, WriteHeavy, SnapHeavy, Hysteresis

---------------------------------------------------------------------------
(* The pacing parameters *)

LEMMA Product ==
    ASSUME NEW a \in Nat, NEW b \in Nat, NEW c \in Nat, a <= b
    PROVE  a * c \in Nat /\ a * c <= b * c
BY SMT

LEMMA Quotient ==
    ASSUME NEW a \in Nat, NEW b \in Nat \ {0}, NEW c \in Nat, a <= b * c
    PROVE  a \div b \in 0 .. c
BY SMT

LEMMA Difference == ASSUME NEW a \in Spi, NEW b \in Spi PROVE a - b \in Int /\ a - b <= 1000
BY SMT DEF Spi

\* delta only takes away: the factor of the batch is at most 2000.
LEMMA BatchInRange ==
    ASSUME NEW spi \in Spi, NEW delta \in Int, delta <= 1000
    PROVE  compute_batch_k(spi, delta) \in 1 .. MaxBatch
<1> DEFINE r == 1000 - spi
           f == IF delta > 50 THEN 2000 - delta ELSE 2000
           q == MaxBatch * r * f
<1>1. f \in Nat /\ f <= 2000 /\ r \in Nat /\ r <= 1000
  BY SMT DEF Spi
<1> HIDE DEF f, r
<1>2. MaxBatch * r \in Nat /\ MaxBatch * r <= 1000 * MaxBatch
  BY SMT, <1>1
<1>3. q \in Nat /\ q <= 2000 * (MaxBatch * r)
  BY SMT, <1>1, <1>2
<1> HIDE DEF q
<1>4. q <= 2000000 * MaxBatch
  BY SMT, <1>2, <1>3
<1>5. q \div 2000000 \in 0 .. MaxBatch
  BY SMT, <1>3, <1>4, Quotient
<1>6. compute_batch_k(spi, delta) = Larger(1, q \div 2000000)
  BY SMT DEF compute_batch_k, q, r, f
<1> QED BY SMT, <1>5, <1>6 DEF Larger

LEMMA StrideInRange ==
    ASSUME NEW spi \in Spi
    PROVE  compute_epoch_stride(spi) \in BaseStride .. 5 * BaseStride
<1>1. BaseStride * spi \in 0 .. BaseStride * 1000
  BY SMT DEF Spi
<1>2. 2 * BaseStride * (1000 + 4 * spi) + 1000
        = 2000 * BaseStride + 8 * (BaseStride * spi) + 1000
  BY SMT DEF Spi
<1> QED BY SMT, <1>1, <1>2 DEF compute_epoch_stride

LEMMA RetryInRange ==
    ASSUME NEW streak \in Nat
    PROVE  compute_retry_wait(streak) \in 1 .. 32
<1>1. Smaller(streak, 6) \in {0, 1, 2, 3, 4, 5, 6}
  BY SMT DEF Smaller
<1>2. ASSUME NEW k \in {0, 1, 2, 3, 4, 5, 6} PROVE 2 ^ k \in 1 .. 64
  <2>1. CASE k = 0
    BY SMT, <2>1
  <2>2. CASE k = 1
    BY SMT, <2>2
  <2>3. CASE k = 2
    BY SMT, <2>3
  <2>4. CASE k = 3
    BY SMT, <2>4
  <2>5. CASE k = 4
    BY SMT, <2>5
  <2>6. CASE k = 5
    BY SMT, <2>6
  <2>7. CASE k = 6
    BY SMT, <2>7
  <2> QED BY <2>1, <2>2, <2>3, <2>4, <2>5, <2>6, <2>7
<1>3. 2 ^ Smaller(streak, 6) \in 1 .. 64
  BY Zenon, <1>1, <1>2
<1> QED BY SMT, <1>3 DEF compute_retry_wait, Smaller

\* The coalescing window stays between its limits whatever the measured hit rate
\* (hit_count may be ahead of total_count), latency and target are.
THEOREM WindowInRange ==
    ASSUME NEW hit_rate \in Nat, NEW p99 \in Nat, NEW target \in Nat \ {0},
           NEW minW \in Nat, NEW maxW \in Nat, minW <= maxW
    PROVE  compute_w(hit_rate, p99, target, minW, maxW) \in minW .. maxW
<1> DEFINE headroom == 1000 - Smaller((1000 * p99) \div target, 1000)
           factor == Larger(0, Smaller((6 * hit_rate + 4 * headroom) \div 10, 1000))
           d == maxW - minW
<1>1. (1000 * p99) \div target \in Nat
  BY SMT
<1>2. headroom \in 0 .. 1000
  BY SMT, <1>1 DEF Smaller
<1> HIDE DEF headroom
<1>3. factor \in 0 .. 1000
  BY SMT, <1>2 DEF Larger, Smaller
<1> HIDE DEF factor
<1>4. factor * d \in Nat /\ factor * d <= 1000 * d /\ d \in Nat
  BY SMT, <1>3
<1>5. (factor * d) \div 1000 \in 0 .. d
  BY SMT, <1>4
<1> QED BY SMT, <1>5 DEF compute_w, headroom, factor

LEMMA WindowInstance ==
    ASSUME NEW hit_rate \in Nat, NEW p99 \in Nat
    PROVE  compute_w(hit_rate, p99, 20, 1, 50) \in 1 .. 50
<1>1. 20 \in Nat \ {0} /\ 1 \in Nat /\ 50 \in Nat /\ 1 <= 50
  BY SMT
<1> QED BY Zenon, <1>1, WindowInRange

---------------------------------------------------------------------------
(* One thread's estimate *)

LEMMA Apart ==
    ASSUME NEW a \in Spi, NEW b \in Spi,
           \/ a <= 250 /\ b > 350
           \/ a > 650 /\ b <= 550
           \/ a > 350 /\ b <= 250
           \/ a <= 550 /\ b > 650
    PROVE  a - b >= 2 * Hysteresis \/ b - a >= 2 * Hysteresis
BY SMT DEF Spi, Hysteresis

\* Where the mode was left tells on which side of the band the estimate was, and
\* a mode is only left for the other two.
SpiInv == /\ spi_ema \in Spi
          /\ delta_spi \in Int /\ delta_spi <= 1000
          /\ gc_mode \in Mode
          /\ cpp_mode = gc_mode
          /\ left \in Mode \cup {"none"}
          /\ left # gc_mode
          /\ left_at \in Spi
          /\ left = "AggressiveEbr" =>
               left_at > WriteHeavy + Hysteresis
          /\ left = "ConservativeHold" =>
               left_at <= SnapHeavy - Hysteresis
          /\ left = "AmortisedFree" =>
               \/ gc_mode = "AggressiveEbr" /\ left_at <= WriteHeavy - Hysteresis
               \/ gc_mode = "ConservativeHold" /\ left_at > SnapHeavy + Hysteresis

LEMMA InitSpiInv == Init => SpiInv
BY SMT DEF Init, SpiInv, Spi, Mode

\* What one call of resample_spi does to the estimate.
LEMMA NextEstimate ==
    ASSUME SpiInv, NEW writes \in 0 .. MaxCount, NEW snaps \in 0 .. MaxCount,
           Resample(writes, snaps)
    PROVE  /\ spi_ema' \in Spi
           /\ delta_spi' = spi_ema' - spi_ema
           /\ gc_mode' = select_gc_mode_with_hysteresis(spi_ema', gc_mode)
           /\ cpp_mode' = pacer_select_mode_hyst(spi_ema', cpp_mode)
           /\ left' = IF gc_mode' # gc_mode THEN gc_mode ELSE left
           /\ left_at' = IF gc_mode' # gc_mode THEN spi_ema' ELSE left_at
<1>1. WindowSpi(writes, snaps) \in Spi
  BY SMT, WindowSpiInRange
<1>2. Ema(spi_ema, WindowSpi(writes, snaps)) \in Spi
  BY SMT, <1>1, EmaInRange DEF SpiInv
<1> QED BY SMT, <1>2 DEF Resample

LEMMA NextSpiInv == SpiInv /\ [Next]_vars => SpiInv'
<1> SUFFICES ASSUME SpiInv, [Next]_vars PROVE SpiInv'
  BY SMT
<1>1. CASE UNCHANGED vars
  BY SMT, <1>1 DEF vars, SpiInv
<1>2. ASSUME NEW writes \in 0 .. MaxCount, NEW snaps \in 0 .. MaxCount, Resample(writes, snaps)
      PROVE  SpiInv'
  <2>1. /\ spi_ema' \in Spi
        /\ gc_mode' = select_gc_mode_with_hysteresis(spi_ema', gc_mode)
        /\ left' = IF gc_mode' # gc_mode THEN gc_mode ELSE left
        /\ left_at' = IF gc_mode' # gc_mode THEN spi_ema' ELSE left_at
    BY SMT, <1>2, NextEstimate
  <2>2. gc_mode' \in Mode /\ cpp_mode' = gc_mode'
    BY SMT, <1>2, <2>1, NextEstimate, SameSelector DEF SpiInv
  <2>3. delta_spi' = spi_ema' - spi_ema
    BY SMT, <1>2, NextEstimate
  <2>4. delta_spi' \in Int /\ delta_spi' <= 1000
    BY SMT, <2>1, <2>3, Difference DEF SpiInv
  <2>5. CASE gc_mode' = gc_mode
    BY SMT, <2>1, <2>2, <2>4, <2>5 DEF SpiInv
  <2>6. CASE gc_mode' # gc_mode
    <3>1. left' = gc_mode /\ left_at' = spi_ema'
      BY SMT, <2>1, <2>6
    <3>2. /\ gc_mode' = "AggressiveEbr" => spi_ema' <= 250
          /\ gc_mode' = "ConservativeHold" => spi_ema' > 650
          /\ gc_mode' = "AmortisedFree" => \/ gc_mode = "AggressiveEbr" /\ spi_ema' > 350
                                           \/ gc_mode = "ConservativeHold" /\ spi_ema' <= 550
      BY SMT, <2>1, <2>6, ModeEntered DEF SpiInv
    <3> QED BY SMT, <2>1, <2>2, <2>4, <2>6, <3>1, <3>2
               DEF SpiInv, Spi, Mode, WriteHeavy, SnapHeavy, Hysteresis
  <2> QED BY <2>5, <2>6
<1> QED BY SMT, <1>1, <1>2 DEF Next

\* The inductive invariant holds on every history of windows.
THEOREM Safe == Spec => []SpiInv
BY InitSpiInv, NextSpiInv, PTL DEF Spec

\* The selectors of lib.rs and reclaimer_pacer.h agree on every history.
THEOREM Agree == Spec => []SelectorsAgree
<1>1. SpiInv => SelectorsAgree
  BY SMT DEF SpiInv, SelectorsAgree
<1> QED BY <1>1, Safe, PTL

\* Every estimate that resample_spi can reach yields pacing parameters inside their
\* limits.
THEOREM InRange == Spec => []ParametersInRange
<1>1. SpiInv => ParametersInRange
  <2> SUFFICES ASSUME SpiInv PROVE ParametersInRange
    OBVIOUS
  <2>1. compute_batch_k(spi_ema, delta_spi) \in 1 .. MaxBatch
    BY SMT, BatchInRange DEF SpiInv
  <2>2. compute_epoch_stride(spi_ema) \in BaseStride .. 5 * BaseStride
    BY SMT, StrideInRange DEF SpiInv
  <2>3. \A streak \in 0 .. 8 : compute_retry_wait(streak) \in 1 .. 32
    BY SMT, RetryInRange
  <2>4. \A hit_rate \in {0, 500, 1000, 2000}, p99 \in {0, 10, 40} :
          compute_w(hit_rate, p99, 20, 1, 50) \in 1 .. 50
    <3> DEFINE rates == {0, 500, 1000, 2000}
               latencies == {0, 10, 40}
    <3>1. rates \subseteq Nat /\ latencies \subseteq Nat
      BY SMT
    <3> HIDE DEF rates, latencies
    <3>2. \A hit_rate \in rates, p99 \in latencies :
            compute_w(hit_rate, p99, 20, 1, 50) \in 1 .. 50
      BY Zenon, <3>1, WindowInstance
    <3> QED BY <3>2 DEF rates, latencies
  <2> QED BY SMT, <2>1, <2>2, <2>3, <2>4 DEF SpiInv, ParametersInRange
<1> QED BY <1>1, Safe, PTL

\* No mode is left and entered again while the estimate is inside the dead band.
THEOREM DeadBand == Spec => NoFlapping
<1>1. SpiInv /\ [Next]_vars =>
        [gc_mode' # gc_mode /\ gc_mode' = left =>
           spi_ema' - left_at >= 2 * Hysteresis \/ left_at - spi_ema' >= 2 * Hysteresis]_vars
  <2> SUFFICES ASSUME SpiInv, NEW writes \in 0 .. MaxCount, NEW snaps \in 0 .. MaxCount,
                      Resample(writes, snaps), gc_mode' # gc_mode, gc_mode' = left
               PROVE  \/ spi_ema' - left_at >= 2 * Hysteresis
                      \/ left_at - spi_ema' >= 2 * Hysteresis
    BY SMT DEF Next
  <2>1. /\ spi_ema' \in Spi
        /\ gc_mode' = select_gc_mode_with_hysteresis(spi_ema', gc_mode)
    BY SMT, NextEstimate
  <2>2. /\ gc_mode' = "AggressiveEbr" => spi_ema' <= 250
        /\ gc_mode' = "ConservativeHold" => spi_ema' > 650
        /\ gc_mode' = "AmortisedFree" => \/ gc_mode = "AggressiveEbr" /\ spi_ema' > 350
                                         \/ gc_mode = "ConservativeHold" /\ spi_ema' <= 550
    BY SMT, <2>1, ModeEntered DEF SpiInv
  <2>3. /\ left = "AggressiveEbr" => left_at > 350
        /\ left = "ConservativeHold" => left_at <= 550
        /\ left = "AmortisedFree" => \/ gc_mode = "AggressiveEbr" /\ left_at <= 250
                                     \/ gc_mode = "ConservativeHold" /\ left_at > 650
    BY SMT DEF SpiInv, WriteHeavy, SnapHeavy, Hysteresis
  <2>4. \/ spi_ema' <= 250 /\ left_at > 350
        \/ spi_ema' > 650 /\ left_at <= 550
        \/ spi_ema' > 350 /\ left_at <= 250
        \/ spi_ema' <= 550 /\ left_at > 650
    <3>1. left \in Mode
      BY Zenon, <2>1, SameSelector DEF SpiInv
    <3>2. CASE left = "AggressiveEbr"
      BY Zenon, <2>2, <2>3, <3>2
    <3>3. CASE left = "ConservativeHold"
      <4>1. spi_ema' > 650
        BY Zenon, <2>2, <3>3
      <4>2. left_at <= 550
        BY Zenon, <2>3, <3>3
      <4> QED BY Zenon, <4>1, <4>2
    <3>4. CASE left = "AmortisedFree" /\ gc_mode = "AggressiveEbr"
      BY Zenon, <2>2, <2>3, <3>4
    <3>5. CASE left = "AmortisedFree" /\ gc_mode = "ConservativeHold"
      BY Zenon, <2>2, <2>3, <3>5
    <3>6. CASE left = "AmortisedFree"
      BY Zenon, <2>3, <3>4, <3>5, <3>6
    <3> QED BY Zenon, <3>1, <3>2, <3>3, <3>6 DEF Mode
  <2> QED BY SMT, <2>1, <2>4, Apart DEF SpiInv
<1> QED BY <1>1, Safe, PTL DEF Spec, NoFlapping
=============================================================================
