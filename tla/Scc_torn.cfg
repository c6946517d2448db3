\* A reader between two windows.
SPECIFICATION Spec
CONSTANTS
  t1 = t1
  t2 = t2
  Thread <- Thread2
  MaxNow = 3
  MaxEpoch = 3
  Window <- Window12
INVARIANTS NoTornWindow
