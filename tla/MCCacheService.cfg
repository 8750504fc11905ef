\* Two keys and three calls, enough for a value, its removal and a reader or a
\* second value; the clock runs one tick past the end of a life.
SPECIFICATION FairSpec
CONSTANTS
  Keys = {k1, k2}
  Calls = {c1, c2, c3}
  NoValue = NoValue
  Lives = {1}
  MaxTime = 2
INVARIANTS
  ServedWithinLife
  PurgedStaysOut
PROPERTIES
  ExpiredEntriesGo
  ImplementsLossyCache
CHECK_DEADLOCK FALSE
