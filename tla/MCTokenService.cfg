\* Three fair requests: a login and two on its cookies, or a second login whose
\* cleanups meet the rows of the first.  Every lifetime ends at one tick, and the
\* clock runs past it and past the retention of revoked tokens.
SPECIFICATION FairSpec
CONSTANTS
  Requests = {r1, r2, r3}
  NoGrant = NoGrant
  AccessTTL = 1
  SessionTTL = 1
  RefreshTTL = 1
  Retention = 0
  MaxTime = 2
INVARIANTS
  TokenInvariant
  DeliveredAccessIsAccepted
  DeliveredTokenIsLive
  SuccessorAfterRevocation
  LateRefreshIssuesNothing
  LogoutSpendsToken
PROPERTIES
  EveryRequestEnds
  ImplementsLifecycle
CHECK_DEADLOCK FALSE
