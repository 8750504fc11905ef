\* Two refreshes carry the cookie of one login, at one instant.
SPECIFICATION Spec
CONSTANTS
  Requests = {r1, r2, r3, r4}
  NoGrant = NoGrant
  AccessTTL = 1
  SessionTTL = 1
  RefreshTTL = 2
  Retention = 0
  MaxTime = 0
SYMMETRY Symmetry
INVARIANT RefreshTokenSingleUse
CHECK_DEADLOCK FALSE
