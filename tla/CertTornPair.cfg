\* A death or a failed rename between the two renames.
CONSTANTS
  Procs = {p1}
  MaxSerial = 2
SPECIFICATION FairSpec
INVARIANTS PairNeverTorn
CHECK_DEADLOCK FALSE
