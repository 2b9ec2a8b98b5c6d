\* A death while the lockfile is there leaves it for good.
CONSTANTS
  Procs = {p1}
  MaxSerial = 2
SPECIFICATION FairSpec
INVARIANTS LockMeansRenewing
CHECK_DEADLOCK FALSE
