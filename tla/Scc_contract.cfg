\* Two threads that call again and again, two window lengths, under fairness.
SPECIFICATION FairSpec
CONSTANTS
  t1 = t1
  t2 = t2
  Thread <- Thread2
  MaxNow = 2
  MaxEpoch = 3
  Window <- Window12
INVARIANTS TypeOK OneWriter WindowsDisjoint FewRetries
PROPERTIES KeepsContract SomeCallAnswers
