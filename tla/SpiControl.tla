----------------------------- MODULE SpiControl -----------------------------
(***************************************************************************)
(* The control laws of src/lib.rs that turn operation counts into an SPI   *)
(* estimate, and the estimate into pacing parameters.  Ratios are in per   *)
(* mille and rounded down where the code keeps a fraction.                 *)
(***************************************************************************)
EXTENDS GcMode

CONSTANTS MaxBatch,   \* MAX_BATCH
          BaseStride  \* BASE_STRIDE

ASSUME ControlAssumption == MaxBatch \in Nat \ {0} /\ BaseStride \in Nat \ {0}

Smaller(a, b) == IF a < b THEN a ELSE b
Larger(a, b) == IF a > b THEN a ELSE b

\* The share of snapshots in a window, and its moving average with weight 0.15.
WindowSpi(writes, snaps) == (1000 * snaps) \div (writes + snaps + 1)

Ema(spi, sample) == (85 * spi + 15 * sample) \div 100

\* MAX_BATCH * (1 - spi), less half of delta when SPI rises by more than 0.05.
compute_batch_k(spi, delta) ==
    Larger(1, (MaxBatch * (1000 - spi) * (IF delta > 50 THEN 2000 - delta ELSE 2000))
                  \div 2000000)

\* BASE_STRIDE * (1 + 4 spi), rounded.
compute_epoch_stride(spi) == (2 * BaseStride * (1000 + 4 * spi) + 1000) \div 2000

\* 1 ms doubled for each failure in a row, the shift capped at 6, the wait at 32.
compute_retry_wait(fail_streak) == Smaller(2 ^ Smaller(fail_streak, 6), 32)

\* Faulty: the factor is not clamped.
compute_w_unclamped(hit_rate, p99, target, minW, maxW) ==
    LET headroom == 1000 - Smaller((1000 * p99) \div target, 1000)
        factor == (6 * hit_rate + 4 * headroom) \div 10
    IN  minW + (factor * (maxW - minW)) \div 1000

\* Scc::compute_w: between minW and maxW, by the hit rate (weight 0.6) and by
\* the headroom of the latency below its target (0.4).
compute_w(hit_rate, p99, target, minW, maxW) ==
    LET headroom == 1000 - Smaller((1000 * p99) \div target, 1000)
        factor == Larger(0, Smaller((6 * hit_rate + 4 * headroom) \div 10, 1000))
    IN  minW + (factor * (maxW - minW)) \div 1000
=============================================================================
