---------------------------- MODULE MCBenchmarks ----------------------------
EXTENDS Benchmarks
CONSTANTS t1, t2

Thread2 == {t1, t2}
EveryRun == Strategy \cup {"synthetic"}
Samples == {30}
Word == {1000}

=============================================================================
