\* The batch and stride constants of the code.
SPECIFICATION Spec
CONSTANTS
  MaxBatch = 64
  BaseStride = 16
  MaxCount = 3
INVARIANTS SelectorsAgree ParametersInRange
PROPERTIES NoFlapping
