\* Two workers, every benchmark.
SPECIFICATION FairSpec
CONSTANTS
  t1 = t1
  t2 = t2
  Thread <- Thread2
  Run <- EveryRun
  Warmup = 1
  Duration = 2
  WindowSize = 2
  AggressiveDrain = 2
  BaseFree = 1
  ContendedFree = 1
  Latency <- Samples
  Filled = 1
  Handle <- Word
  MaxOps = 2
  MaxNode = 3
INVARIANTS TypeOK OneFate NothingLeft ResultExact FreersExact PercentageIsOne LatencyBounded
PROPERTIES Reports
CHECK_DEADLOCK FALSE
