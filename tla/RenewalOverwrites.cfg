\* An edit made while a certificate is being renewed is undone by its store.
CONSTANTS
  MaxEdits = 1
  MaxCerts = 2
  MtimeSteps <- FineClock
  StartupEdits = FALSE
  TlsAtStart = {TRUE}
SPECIFICATION FairSpec
PROPERTIES NeverGoesBack
CHECK_DEADLOCK FALSE
