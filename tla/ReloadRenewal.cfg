\* Everything at once: renewal, edits during startup.
CONSTANTS
  MaxEdits = 2
  MaxCerts = 2
  MtimeSteps <- FineClock
  StartupEdits = TRUE
  TlsAtStart = {TRUE}
SPECIFICATION FairSpec
INVARIANTS TlsWhenCertExists TornStaysDue
PROPERTIES PollerValidates NewerLoaded RenewedGoesLive
CHECK_DEADLOCK FALSE
