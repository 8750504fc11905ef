\* One session, created once, and two more calls on it, over two lifetimes of two units.
SPECIFICATION Spec
CONSTANTS
  Sessions = {s1}
  Calls = {c1, c2, c3}
  NoSession = NoSession
  TTL = 2
  MaxTime = 4
SYMMETRY Symmetry
INVARIANTS
  MemoryOnlyInFallback
  TiersAgreeWhenCalm
CHECK_DEADLOCK FALSE
