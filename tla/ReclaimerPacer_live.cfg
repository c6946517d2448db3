\* Two threads that never exit, in the modes that drain least, under fairness.
SPECIFICATION FairSpec
CONSTANTS
  n1 = n1
  n2 = n2
  n3 = n3
  N = 2
  Node <- Node2
  InitTree <- Linked1
  FirstType <- Node2
  BlockSize = 1
  HoldLimit = 2
  SpiSample <- HoldAndAmortise
  Exiting = FALSE
INVARIANTS TypeOK
PROPERTIES TokenCirculates Ripens DrainProgress
