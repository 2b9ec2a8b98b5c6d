\* Two requests on two workers: both may loop, or one scrape the other.
CONSTANTS
  Requests = {r1, r2}
  Workers = 2
  None = None
  Paths <- MCPaths
  AppStates <- MCAppStates
SPECIFICATION FairSpec
INVARIANTS TypeOK CountersExact ScrapeCountsAnswers OneState TlsOfItsTime
PROPERTIES Answered ShutdownEnds
\* The process exits.
CHECK_DEADLOCK FALSE
