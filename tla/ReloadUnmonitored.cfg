\* After a reload nothing updates the flags that handlers read.
CONSTANTS
  MaxEdits = 1
  MaxCerts = 1
  MtimeSteps <- FineClock
  StartupEdits = FALSE
  TlsAtStart = {FALSE}
SPECIFICATION FairSpec
PROPERTIES DeadUpstreamMarked
CHECK_DEADLOCK FALSE
