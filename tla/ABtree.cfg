\* Two threads in trees of two and three levels.
SPECIFICATION Spec
CONSTANTS
  t1 = t1
  t2 = t2
  v1 = v1
  v2 = v2
  NO_VALUE = NO_VALUE
  Thread <- Threads
  Main = t1
  Key <- Keys8
  Value <- Value2
  DEGREE = 3
  AnyKey = 1
  Workloads <- AllWorkloads
INVARIANTS TypeOK Ordered Balanced RetiredIsRemoved HasGrandparent ViolationsOwned
PROPERTIES KeepsDictionary
CHECK_DEADLOCK FALSE
