\* Three requests: two fill the pool while the third meets it.
CONSTANTS
  Requests = {r1, r2, r3}
  Upstreams = {u1}
  MaxIdle = 2
  None = None
SPECIFICATION FairSpec
INVARIANTS TypeOK PoolBound PooledIsAnswered TwiceOnlyIfLost
PROPERTIES ImplementsDelivery StaleNeverSurfaces ForwardReturns
\* All requests may be done.
CHECK_DEADLOCK FALSE
