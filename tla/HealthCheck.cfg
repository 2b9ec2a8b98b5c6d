\* The thresholds the server uses; counters that wrap after 8 pings.
CONSTANTS
  FailThreshold = 3
  RecoverThreshold = 2
  CounterMod = 8
SPECIFICATION FairSpec
PROPERTIES ImplementsFlag DeadEndsUnhealthy RecoveredEndsHealthy
