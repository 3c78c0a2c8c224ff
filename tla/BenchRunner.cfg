\* Two workers and three queries: a worker is reused, and the context can
\* end with queries unsent, running and observed.
SPECIFICATION FairSpec
CONSTANTS
  w1 = w1
  w2 = w2
  Workers <- Pool
  QueryCount = 3
INVARIANTS EveryQueryAccounted NoGoroutineLeft
PROPERTIES Terminates ProgressIsConsistent ImplementsLedger
