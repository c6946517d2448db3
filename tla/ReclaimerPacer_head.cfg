\* Blocks of two records: a head block that is never filled.
SPECIFICATION FairSpec
CONSTANTS
  n1 = n1
  n2 = n2
  n3 = n3
  N = 2
  Node <- Node2
  InitTree <- Linked1
  FirstType <- Node2
  BlockSize = 2
  HoldLimit = 2
  SpiSample <- Low
  Exiting = FALSE
PROPERTIES HeadBlockFreed
