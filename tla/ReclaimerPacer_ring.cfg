\* Three threads in the ring, two record types, one record per block.
SPECIFICATION Spec
CONSTANTS
  n1 = n1
  n2 = n2
  n3 = n3
  N = 3
  Node <- Node3
  InitTree <- Linked1
  FirstType <- Unlinked
  BlockSize = 1
  HoldLimit = 2
  SpiSample <- Low
  Exiting = TRUE
INVARIANTS NoUseAfterFree TokenUnique GraceInv Conservation
PROPERTIES KeepsPromise
SYMMETRY NodeSymmetry
