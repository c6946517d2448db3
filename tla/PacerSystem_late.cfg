\* A snapshot announced while a drain is scanning the table.
SPECIFICATION Spec
CONSTANTS
  t1 = t1
  t2 = t2
  Thread <- Thread2
  Bench <- Discrete
  WindowSize = 2
  HoldLimit = 2
  AggressiveDrain = 2
  MaxBatch = 2
  BaseStride = 1
  SpiSample <- Every
  MaxEpoch = 12
PROPERTIES FreedIsOlder
CHECK_DEADLOCK FALSE
