---------------------------- MODULE MCSpiControl ----------------------------
(***************************************************************************)
(* One thread's SPI estimate, driven by windows of any small mixture of    *)
(* writes and snapshots, with the mode it selects.                         *)
(***************************************************************************)
EXTENDS SpiControl

CONSTANT MaxCount  \* bound on the writes and on the snapshots of a window

ASSUME CountAssumption == MaxCount \in Nat

VARIABLES spi_ema, delta_spi, gc_mode,
          cpp_mode,  \* the mode of the C++ selector on the same estimates
          left,      \* history: the mode left last
          left_at    \* history: the estimate at which it was left

vars == <<spi_ema, delta_spi, gc_mode, cpp_mode, left, left_at>>

Init == /\ spi_ema = 0
        /\ delta_spi = 0
        /\ gc_mode = "AggressiveEbr"
        /\ cpp_mode = "AggressiveEbr"
        /\ left = "none"
        /\ left_at = 0

\* resample_spi of a non-empty window, then the selection of the mode.
Resample(writes, snaps) ==
    LET spi == Ema(spi_ema, WindowSpi(writes, snaps))
        mode == select_gc_mode_with_hysteresis(spi, gc_mode)
    IN  /\ writes + snaps > 0
        /\ spi_ema' = spi
        /\ delta_spi' = spi - spi_ema
        /\ gc_mode' = mode
        /\ cpp_mode' = pacer_select_mode_hyst(spi, cpp_mode)
        /\ left' = IF mode # gc_mode THEN gc_mode ELSE left
        /\ left_at' = IF mode # gc_mode THEN spi ELSE left_at

Next == \E writes, snaps \in 0 .. MaxCount : Resample(writes, snaps)

Spec == Init /\ [][Next]_vars

\* A mode that was left is entered again only after the estimate has moved by
\* the whole dead band, twice HYSTERESIS: noise around 0.30 or 0.60 cannot flip
\* the mode forth and back.
NoFlapping ==
    [][gc_mode' # gc_mode /\ gc_mode' = left =>
         spi_ema' - left_at >= 2 * Hysteresis \/ left_at - spi_ema' >= 2 * Hysteresis]_vars

\* The two copies of the classifier, in reclaimer_pacer.h and in lib.rs, never
\* part on the same history of estimates.
SelectorsAgree == gc_mode = cpp_mode

\* Every estimate the averaging can reach yields a batch and a stride inside their
\* limits, also when SPI rises steeply; the retry wait stays inside its own for any
\* run of failures, and the window inside its own although the latency may be
\* past its target and hit_rate, which loads total_count before hit_count while
\* other calls count both, may be above 1.
ParametersInRange ==
    /\ spi_ema \in Spi
    /\ compute_batch_k(spi_ema, delta_spi) \in 1 .. MaxBatch
    /\ compute_epoch_stride(spi_ema) \in BaseStride .. 5 * BaseStride
    /\ \A streak \in 0 .. 8 : compute_retry_wait(streak) \in 1 .. 32
    /\ \A hit_rate \in {0, 500, 1000, 2000}, p99 \in {0, 10, 40} :
          compute_w(hit_rate, p99, 20, 1, 50) \in 1 .. 50
=============================================================================
