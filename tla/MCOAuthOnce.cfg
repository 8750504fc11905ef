\* One state and two callbacks that carry it.
SPECIFICATION Spec
CONSTANTS
  Urls = {u1}
  Callbacks = {r1, r2}
  Codes = {c1}
  None = None
  PoolSize = 2
  StateTTL = 0
  MaxTime = 0
SYMMETRY Symmetry
INVARIANT StateConsumedOnce
CHECK_DEADLOCK FALSE
