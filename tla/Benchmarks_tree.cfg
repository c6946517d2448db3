\* Two workers of bench.rs.
SPECIFICATION Spec
CONSTANTS
  t1 = t1
  t2 = t2
  Thread <- Thread2
  Run <- Strategy
  Warmup = 1
  Duration = 2
  WindowSize = 2
  AggressiveDrain = 2
  BaseFree = 1
  ContendedFree = 1
  Latency <- Samples
  Filled = 1
  Handle <- Word
  MaxOps = 2
  MaxNode = 3
INVARIANTS FreedIsUnreachable
CHECK_DEADLOCK FALSE
