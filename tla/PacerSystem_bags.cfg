\* Two threads: every strategy with snapshots, and writes only.
SPECIFICATION Spec
CONSTANTS
  t1 = t1
  t2 = t2
  Thread <- Thread2
  Bench <- ShortAndWrites
  WindowSize = 2
  HoldLimit = 2
  AggressiveDrain = 2
  MaxBatch = 2
  BaseStride = 1
  SpiSample <- Every
  MaxEpoch = 12
INVARIANTS TypeOK LimboSorted BacklogBounded
PROPERTIES PinnedIsKept
SYMMETRY ThreadSymmetry
CHECK_DEADLOCK FALSE
