------------------------------- MODULE GcMode -------------------------------
(***************************************************************************)
(* The three reclamation modes and the classifiers that choose between     *)
(* them from the snapshot-pressure index (SPI).  The C++ reclaimer and the *)
(* Rust crate each have their own copy of the classifiers; both are        *)
(* written here, in per mille instead of floating point.                   *)
(***************************************************************************)
EXTENDS Integers

Mode == {"AggressiveEbr", "AmortisedFree", "ConservativeHold"}

\* An SPI value, in per mille: a ratio snaps / (total + 1), or an average of such.
Spi == 0..1000

WriteHeavy == 300
SnapHeavy == 600
Hysteresis == 50

---------------------------------------------------------------------------
(* reclaimer_pacer.h *)

\* The thresholds to leave prev are Hysteresis beyond the nominal ones.
pacer_select_mode_hyst(spi, prev) ==
    LET up(x)   == spi > x + Hysteresis
        down(x) == spi <= x - Hysteresis
    IN  CASE prev = "AggressiveEbr" ->
               IF up(SnapHeavy) THEN "ConservativeHold"
               ELSE IF up(WriteHeavy) THEN "AmortisedFree" ELSE prev
          [] prev = "AmortisedFree" ->
               IF down(WriteHeavy) THEN "AggressiveEbr"
               ELSE IF up(SnapHeavy) THEN "ConservativeHold" ELSE prev
          [] prev = "ConservativeHold" ->
               IF down(WriteHeavy) THEN "AggressiveEbr"
               ELSE IF down(SnapHeavy) THEN "AmortisedFree" ELSE prev

---------------------------------------------------------------------------
(* src/lib.rs *)

select_gc_mode(spi) ==
    CASE spi <= WriteHeavy                      -> "AggressiveEbr"
      [] WriteHeavy < spi /\ spi <= SnapHeavy   -> "AmortisedFree"
      [] SnapHeavy < spi                        -> "ConservativeHold"

\* Faulty: no dead band.
select_gc_mode_no_band(spi, prev) == select_gc_mode(spi)

\* prev changes only when spi clears a threshold by Hysteresis.
select_gc_mode_with_hysteresis(spi, prev) ==
    LET writeEdge == IF prev = "AggressiveEbr" THEN WriteHeavy + Hysteresis
                                               ELSE WriteHeavy - Hysteresis
        snapEdge == IF prev = "ConservativeHold" THEN SnapHeavy - Hysteresis
                                                 ELSE SnapHeavy + Hysteresis
    IN  CASE spi <= writeEdge                    -> "AggressiveEbr"
          [] writeEdge < spi /\ spi <= snapEdge  -> "AmortisedFree"
          [] snapEdge < spi                      -> "ConservativeHold"
=============================================================================
