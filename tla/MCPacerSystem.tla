--------------------------- MODULE MCPacerSystem ----------------------------
EXTENDS PacerSystem, TLC
CONSTANTS t1, t2

Thread2 == {t1, t2}
Every == {0, 450, 1000}
ThreadSymmetry == Permutations(Thread)

\* Short benchmarks with snapshots; a longer one of writes only.
Short == [strategy : {"PacerDiscrete", "PacerContinuous", "TokenAf", "BatchEbr"},
          snapshots : {TRUE}, epochs : {5}]
Writes == [strategy : {"PacerDiscrete"}, snapshots : {FALSE}, epochs : {12}]
Discrete == {b \in Short : b.strategy = "PacerDiscrete"}
ShortAndWrites == Short \cup Writes
=============================================================================
