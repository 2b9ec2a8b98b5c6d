\* One process on the directory; it dies, restarts and meets I/O errors, and
\* shares its challenge port with another program.
CONSTANTS
  Procs = {p1}
  MaxSerial = 4
SPECIFICATION ServedFairSpec
INVARIANTS TypeOK OkMeansPair LeftoversOnlyByDeath TornOnlyBetweenRenames StampNeverFresher
PROPERTIES RenewalEnds FetchFindsToken ChallengeServerEnds
\* A startup that meets a torn pair exits.
CHECK_DEADLOCK FALSE
