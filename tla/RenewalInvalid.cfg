\* The renewer puts a config live that validate rejects.
CONSTANTS
  MaxEdits = 1
  MaxCerts = 2
  MtimeSteps <- FineClock
  StartupEdits = FALSE
  TlsAtStart = {TRUE}
SPECIFICATION FairSpec
INVARIANTS LiveConfigValid
CHECK_DEADLOCK FALSE
