\* The poller alone: no [tls] at startup, edits once the server is up.
CONSTANTS
  MaxEdits = 3
  MaxCerts = 1
  MtimeSteps <- FineClock
  StartupEdits = FALSE
  TlsAtStart = {FALSE}
SPECIFICATION FairSpec
INVARIANTS TypeOK PollerCurrent
PROPERTIES NeverGoesBack EditsLoaded BootStateMonitored
\* A server whose startup config does not load exits.
CHECK_DEADLOCK FALSE
