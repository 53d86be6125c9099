SPECIFICATION FairSpec
CONSTANTS
  Threads = {t1, t2, t3}
  NO_OWNER = NO_OWNER
  MaxDepth = 2
INVARIANTS Exclusion OwnerExact
PROPERTY WriterEnters
