\* An edit between the startup read and the first mtime is never loaded.
CONSTANTS
  MaxEdits = 1
  MaxCerts = 1
  MtimeSteps <- FineClock
  StartupEdits = TRUE
  TlsAtStart = {FALSE}
SPECIFICATION FairSpec
PROPERTIES EditsLoaded
CHECK_DEADLOCK FALSE
