\* Two record types.
SPECIFICATION FairSpec
CONSTANTS
  n1 = n1
  n2 = n2
  n3 = n3
  N = 2
  Node <- Node2
  InitTree <- Linked1
  FirstType <- Linked1
  BlockSize = 1
  HoldLimit = 2
  SpiSample <- Low
  Exiting = FALSE
PROPERTIES AllTypesReclaimed
