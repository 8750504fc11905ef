\* The retry budget of the code, two HTTP connections, and three shutdowns that run
\* at once.
SPECIFICATION FairProcessSpec
CONSTANTS
  MaxRetries = 10
  Conns = {n1, n2}
  Shutdowns = {s1, s2, s3}
  Production = TRUE
INVARIANTS
  ManagerInvariant
  FallbackMeansGivenUp
  AnsweredFirst
  ZeroMeansClosed
  ZeroLeavesRedis
PROPERTIES
  ImplementsHealth
  RecoversOrGivesUp
  ShutdownEnds
CHECK_DEADLOCK FALSE
