\* Two URLs (the second one's cleanup meets the first one's row), two consents
\* and two callbacks, as many as the pool has connections.
SPECIFICATION FairSpec
CONSTANTS
  Urls = {u1, u2}
  Callbacks = {r1, r2}
  Codes = {c1, c2}
  None = None
  PoolSize = 2
  StateTTL = 0
  MaxTime = 1
INVARIANTS
  OAuthInvariant
  LateCallbackRejected
  ExchangeFollowsCommit
  ResourcesReturned
PROPERTIES
  EveryCallbackEnds
  ImplementsStateLifecycle
CHECK_DEADLOCK FALSE
