------------------------- MODULE CacheServiceProofs -------------------------
(***************************************************************************)
(* Proofs about CacheService, for all sets of keys and calls, and all      *)
(* lives.                                                                  *)
(***************************************************************************)
EXTENDS CacheService, TLAPS

\* Initially nothing is cached and no call has been made.
LEMMA InitInvariant == Init => CacheInvariant
  BY CacheAssumption DEF Init, HealthInit, CacheInvariant, TypeOK, CallsInOrder, ArgumentsFit, ValuesWereSet, LivesAreKept, MemoryOnlyInFallback, OlderAreDoomed, PurgedWasSet, PurgedStaysOut, ServedWithinLife,
      Values, Reads, Removals, Commands, Modes, Healthy, InFallback,
      Expired, Without, Stored, Goto, Begin, See, SetMemory, Doomed, redis, memory, arguments

\* Every step keeps the declared types.
LEMMA TypeNext ==
  ASSUME TypeOK,
         \/ \E c \in Calls : Arrive(c) \/ Work(c)
         \/ \E k \in Keys, t \in Nat : TimerFires(k, t)
         \/ Cleanup \/ Tick \/ Health \/ Restart
         \/ \E k \in Keys : Evict(k)
         \/ UNCHANGED vars
  PROVE  TypeOK'
<1> USE DEF TypeOK, Values, Without
<1>1. ASSUME NEW c \in Calls, NEW k \in Keys, NEW f \in Reads, BeginRead(c, f, k)
      PROVE  TypeOK'
  BY <1>1 DEF BeginRead, Begin, Goto, See, Reads, Commands, redis
<1>2. ASSUME NEW c \in Calls, NEW k \in Keys, NEW l \in Lives, BeginSet(c, k, l)
      PROVE  TypeOK'
  <2>1. l \in Nat /\ now + l \in Nat
    BY CacheAssumption
  <2>2. UNCHANGED <<mode, now, redisVal, redisDies, found, got, older, purged>>
    BY <1>2 DEF BeginSet, redis
  <2>3. /\ op' \in [Calls -> {"none", "set"} \cup Reads \cup Removals]
        /\ pc' \in [Calls -> Commands \cup {"idle", "done"}]
        /\ target' \in [Calls -> SUBSET Keys]
        /\ life' \in [Calls -> Nat]
    BY <1>2, <2>1 DEF BeginSet, Begin, Goto, Commands
  <2>4. /\ memVal' \in [Keys -> Calls \cup {NoValue}]
        /\ memExp' \in [Keys -> Nat]
        /\ timers' \subseteq Keys \X Nat
        /\ at' \in [Calls -> Nat]
    BY <1>2, <2>1 DEF BeginSet, SetMemory, memory
  <2> QED
    BY <2>2, <2>3, <2>4
<1>3. ASSUME NEW c \in Calls, NEW K \in SUBSET Keys, NEW L \in SUBSET Keys,
             NEW f \in Removals, BeginRemove(c, f, K, L)
      PROVE  TypeOK'
  BY <1>3 DEF BeginRemove, Begin, Goto, Stored, Removals, Commands, redis
<1>4. ASSUME NEW c \in Calls, ReadRedis(c)
      PROVE  TypeOK'
  BY <1>4 DEF ReadRedis, Goto, See, redis, memory, arguments
<1>5. ASSUME NEW c \in Calls, SetRedis(c)
      PROVE  TypeOK'
  BY <1>5 DEF SetRedis, Goto, memory, arguments
<1>6. ASSUME NEW c \in Calls, ScanKeys(c)
      PROVE  TypeOK'
  BY <1>6 DEF ScanKeys, Goto, Commands, redis, memory, arguments
<1>7. ASSUME NEW c \in Calls, RemoveRedis(c) \/ RemoveUnacknowledged(c)
      PROVE  TypeOK'
  BY <1>7 DEF RemoveRedis, RemoveUnacknowledged, Goto, memory, arguments
<1>8. ASSUME NEW c \in Calls, CommandFails(c)
      PROVE  TypeOK'
  BY <1>8 DEF CommandFails, redis, memory, arguments
<1>9. ASSUME NEW k \in Keys, NEW t \in Nat, TimerFires(k, t)
      PROVE  TypeOK'
  BY <1>9 DEF TimerFires, redis, arguments
<1>10. ASSUME Cleanup \/ Tick \/ \E k \in Keys : Evict(k)
       PROVE  TypeOK'
  BY <1>10 DEF Cleanup, Tick, Evict, redis, memory, arguments
<1>11. ASSUME Health \/ Restart
       PROVE  TypeOK'
  BY <1>11 DEF Health, HealthNext, Recover, Lose, GiveUp, Modes, Restart, redis, memory, arguments
<1>12. ASSUME UNCHANGED vars
       PROVE  TypeOK'
  BY <1>12 DEF vars
<1> HIDE DEF TypeOK
<1>13. ASSUME NEW c \in Calls, Arrive(c)
       PROVE  TypeOK'
  BY <1>1, <1>2, <1>3, <1>13 DEF Arrive, Removals
<1>14. ASSUME NEW c \in Calls, Work(c)
       PROVE  TypeOK'
  BY <1>4, <1>5, <1>6, <1>7, <1>8, <1>14 DEF Work
<1> QED
  BY <1>9, <1>10, <1>11, <1>12, <1>13, <1>14

\* A call that arrives preserves the invariant.
LEMMA ArriveInvariant ==
  ASSUME CacheInvariant, NEW c \in Calls, Arrive(c)
  PROVE  CacheInvariant'
<1>0. TypeOK'
  BY TypeNext DEF CacheInvariant
<1> USE CacheAssumption DEF CacheInvariant, CallsInOrder, ValuesWereSet, LivesAreKept, MemoryOnlyInFallback,
      OlderAreDoomed, PurgedWasSet, PurgedStaysOut, ServedWithinLife, Values, Reads, Removals, Commands, Modes, Healthy, InFallback,
      Expired, Without, Stored, Goto, Begin, See, SetMemory, Doomed, redis, memory, arguments
<1>1. ASSUME NEW k \in Keys, NEW f \in Reads, BeginRead(c, f, k)
      PROVE  CacheInvariant'
  <2>2. CallsInOrder'
    BY <1>1 DEF BeginRead, TypeOK
  <2>3. ValuesWereSet'
    BY <1>1 DEF BeginRead, TypeOK
  <2>4. LivesAreKept'
    BY <1>1 DEF BeginRead, TypeOK
  <2>5. MemoryOnlyInFallback'
    BY <1>1 DEF BeginRead, TypeOK
  <2>6. OlderAreDoomed'
    BY <1>1 DEF BeginRead, TypeOK
  <2>7. PurgedWasSet'
    BY <1>1 DEF BeginRead, TypeOK
  <2>8. PurgedStaysOut'
    BY <1>1 DEF BeginRead, TypeOK
  <2>9. ServedWithinLife'
    BY <1>1 DEF BeginRead, TypeOK
  <2>10. ArgumentsFit'
    <3>1. /\ op' = [op EXCEPT ![c] = f] /\ target' = [target EXCEPT ![c] = {k}]
          /\ life' = [life EXCEPT ![c] = 0]
      BY <1>1 DEF BeginRead
    <3> QED
      BY <3>1 DEF TypeOK, ArgumentsFit
  <2> QED
    BY <1>0, <2>2, <2>3, <2>4, <2>5, <2>6, <2>7, <2>8, <2>9, <2>10
<1>2. ASSUME NEW k \in Keys, NEW l \in Lives, BeginSet(c, k, l)
      PROVE  CacheInvariant'
  <2>2. CallsInOrder'
    BY <1>2 DEF BeginSet, TypeOK
  <2>3. ValuesWereSet'
    BY <1>2 DEF BeginSet, TypeOK
  <2>4. LivesAreKept'
    BY <1>2 DEF BeginSet, TypeOK
  <2>5. MemoryOnlyInFallback'
    BY <1>2 DEF BeginSet, TypeOK
  <2>6. OlderAreDoomed'
    BY <1>2 DEF BeginSet, TypeOK
  <2>7. PurgedWasSet'
    BY <1>2 DEF BeginSet, TypeOK
  <2>8. PurgedStaysOut'
    BY <1>2 DEF BeginSet, TypeOK
  <2>9. ServedWithinLife'
    BY <1>2 DEF BeginSet, TypeOK
  <2>10. ArgumentsFit'
    BY <1>2 DEF BeginSet, TypeOK, ArgumentsFit
  <2> QED
    BY <1>0, <2>2, <2>3, <2>4, <2>5, <2>6, <2>7, <2>8, <2>9, <2>10
<1>3. ASSUME NEW K \in SUBSET Keys, NEW L \in SUBSET Keys, K \subseteq L,
         NEW f \in Removals, BeginRemove(c, f, K, L)
      PROVE  CacheInvariant'
  <2>2. CallsInOrder'
    BY <1>3 DEF BeginRemove, TypeOK
  <2>3. ValuesWereSet'
    BY <1>3 DEF BeginRemove, TypeOK
  <2>4. LivesAreKept'
    BY <1>3 DEF BeginRemove, TypeOK
  <2>5. MemoryOnlyInFallback'
    BY <1>3 DEF BeginRemove, TypeOK
  <2>6. OlderAreDoomed'
    BY <1>3 DEF BeginRemove, TypeOK
  <2>7. PurgedWasSet'
    BY <1>3 DEF BeginRemove, TypeOK
  <2>8. PurgedStaysOut'
    BY <1>3 DEF BeginRemove, TypeOK
  <2>9. ServedWithinLife'
    BY <1>3 DEF BeginRemove, TypeOK
  <2>10. ArgumentsFit'
    BY <1>3 DEF BeginRemove, TypeOK, ArgumentsFit
  <2> QED
    BY <1>0, <2>2, <2>3, <2>4, <2>5, <2>6, <2>7, <2>8, <2>9, <2>10
<1> HIDE DEF CacheInvariant
<1> QED
  BY <1>1, <1>2, <1>3 DEF Arrive

\* A command of a call preserves the invariant.
LEMMA WorkInvariant ==
  ASSUME CacheInvariant, NEW c \in Calls, Work(c)
  PROVE  CacheInvariant'
<1>0. TypeOK'
  BY TypeNext DEF CacheInvariant
<1> USE CacheAssumption DEF CacheInvariant, CallsInOrder, ValuesWereSet, LivesAreKept, MemoryOnlyInFallback,
      OlderAreDoomed, PurgedWasSet, PurgedStaysOut, ServedWithinLife, Values, Reads, Removals, Commands, Modes, Healthy, InFallback,
      Expired, Without, Stored, Goto, Begin, See, SetMemory, Doomed, redis, memory, arguments
<1>1. CASE ReadRedis(c)
  <2>2. CallsInOrder'
    BY <1>1 DEF ReadRedis, TypeOK
  <2>3. ValuesWereSet'
    BY <1>1 DEF ReadRedis, TypeOK
  <2>4. LivesAreKept'
    BY <1>1 DEF ReadRedis, TypeOK
  <2>5. MemoryOnlyInFallback'
    BY <1>1 DEF ReadRedis, TypeOK
  <2>6. OlderAreDoomed'
    BY <1>1 DEF ReadRedis, TypeOK
  <2>7. PurgedWasSet'
    BY <1>1 DEF ReadRedis, TypeOK
  <2>8. PurgedStaysOut'
    BY <1>1 DEF ReadRedis, TypeOK
  <2>9. ServedWithinLife'
    BY <1>1 DEF ReadRedis, TypeOK
  <2>10. ArgumentsFit'
    BY <1>1 DEF ReadRedis, TypeOK, ArgumentsFit
  <2> QED
    BY <1>0, <2>2, <2>3, <2>4, <2>5, <2>6, <2>7, <2>8, <2>9, <2>10
<1>2. CASE SetRedis(c)
  <2>2. CallsInOrder'
    BY <1>2 DEF SetRedis, TypeOK
  <2>3. ValuesWereSet'
    BY <1>2 DEF SetRedis, TypeOK
  <2>4. LivesAreKept'
    BY <1>2 DEF SetRedis, TypeOK, ArgumentsFit
  <2>5. MemoryOnlyInFallback'
    BY <1>2 DEF SetRedis, TypeOK
  <2>6. OlderAreDoomed'
    BY <1>2 DEF SetRedis, TypeOK
  <2>7. PurgedWasSet'
    BY <1>2 DEF SetRedis, TypeOK
  <2>8. PurgedStaysOut'
    BY <1>2 DEF SetRedis, TypeOK
  <2>9. ServedWithinLife'
    BY <1>2 DEF SetRedis, TypeOK
  <2>10. ArgumentsFit'
    BY <1>2 DEF SetRedis, TypeOK, ArgumentsFit
  <2> QED
    BY <1>0, <2>2, <2>3, <2>4, <2>5, <2>6, <2>7, <2>8, <2>9, <2>10
<1>3. CASE ScanKeys(c)
  <2>2. CallsInOrder'
    BY <1>3 DEF ScanKeys, TypeOK
  <2>3. ValuesWereSet'
    BY <1>3 DEF ScanKeys, TypeOK
  <2>4. LivesAreKept'
    BY <1>3 DEF ScanKeys, TypeOK
  <2>5. MemoryOnlyInFallback'
    BY <1>3 DEF ScanKeys, TypeOK
  <2>6. OlderAreDoomed'
    BY <1>3 DEF ScanKeys, TypeOK
  <2>7. PurgedWasSet'
    BY <1>3 DEF ScanKeys, TypeOK
  <2>8. PurgedStaysOut'
    BY <1>3 DEF ScanKeys, TypeOK
  <2>9. ServedWithinLife'
    BY <1>3 DEF ScanKeys, TypeOK
  <2>10. ArgumentsFit'
    BY <1>3 DEF ScanKeys, TypeOK, ArgumentsFit
  <2> QED
    BY <1>0, <2>2, <2>3, <2>4, <2>5, <2>6, <2>7, <2>8, <2>9, <2>10
<1>4. CASE RemoveRedis(c)
  <2>2. CallsInOrder'
    BY <1>4 DEF RemoveRedis, TypeOK
  <2>3. ValuesWereSet'
    BY <1>4 DEF RemoveRedis, TypeOK
  <2>4. LivesAreKept'
    BY <1>4 DEF RemoveRedis, TypeOK
  <2>5. MemoryOnlyInFallback'
    BY <1>4 DEF RemoveRedis, TypeOK
  <2>6. OlderAreDoomed'
    BY <1>4 DEF RemoveRedis, TypeOK
  <2>7. PurgedWasSet'
    BY <1>4 DEF RemoveRedis, TypeOK
  <2>8. PurgedStaysOut'
    BY <1>4 DEF RemoveRedis, TypeOK
  <2>9. ServedWithinLife'
    BY <1>4 DEF RemoveRedis, TypeOK
  <2>10. ArgumentsFit'
    BY <1>4 DEF RemoveRedis, TypeOK, ArgumentsFit
  <2> QED
    BY <1>0, <2>2, <2>3, <2>4, <2>5, <2>6, <2>7, <2>8, <2>9, <2>10
<1>5. CASE RemoveUnacknowledged(c)
  <2>2. CallsInOrder'
    BY <1>5 DEF RemoveUnacknowledged, TypeOK
  <2>3. ValuesWereSet'
    BY <1>5 DEF RemoveUnacknowledged, TypeOK
  <2>4. LivesAreKept'
    BY <1>5 DEF RemoveUnacknowledged, TypeOK
  <2>5. MemoryOnlyInFallback'
    BY <1>5 DEF RemoveUnacknowledged, TypeOK
  <2>6. OlderAreDoomed'
    BY <1>5 DEF RemoveUnacknowledged, TypeOK
  <2>7. PurgedWasSet'
    BY <1>5 DEF RemoveUnacknowledged, TypeOK
  <2>8. PurgedStaysOut'
    BY <1>5 DEF RemoveUnacknowledged, TypeOK
  <2>9. ServedWithinLife'
    BY <1>5 DEF RemoveUnacknowledged, TypeOK
  <2>10. ArgumentsFit'
    BY <1>5 DEF RemoveUnacknowledged, TypeOK, ArgumentsFit
  <2> QED
    BY <1>0, <2>2, <2>3, <2>4, <2>5, <2>6, <2>7, <2>8, <2>9, <2>10
<1>6. CASE CommandFails(c)
  <2>2. CallsInOrder'
    BY <1>6 DEF CommandFails, TypeOK
  <2>3. ValuesWereSet'
    BY <1>6 DEF CommandFails, TypeOK
  <2>4. LivesAreKept'
    BY <1>6 DEF CommandFails, TypeOK
  <2>5. MemoryOnlyInFallback'
    BY <1>6 DEF CommandFails, TypeOK
  <2>6. OlderAreDoomed'
    BY <1>6 DEF CommandFails, TypeOK
  <2>7. PurgedWasSet'
    BY <1>6 DEF CommandFails, TypeOK
  <2>8. PurgedStaysOut'
    BY <1>6 DEF CommandFails, TypeOK
  <2>9. ServedWithinLife'
    BY <1>6 DEF CommandFails, TypeOK
  <2>10. ArgumentsFit'
    BY <1>6 DEF CommandFails, TypeOK, ArgumentsFit
  <2> QED
    BY <1>0, <2>2, <2>3, <2>4, <2>5, <2>6, <2>7, <2>8, <2>9, <2>10
<1> HIDE DEF CacheInvariant
<1> QED
  BY <1>1, <1>2, <1>3, <1>4, <1>5, <1>6 DEF Work

\* Timers, cleanup, time, eviction, outages and restarts preserve the invariant.
LEMMA EnvironmentInvariant ==
  ASSUME CacheInvariant, 
         \/ \E k \in Keys, t \in Nat : TimerFires(k, t)
         \/ Cleanup \/ Tick \/ Health \/ Restart
         \/ \E k \in Keys : Evict(k)
         \/ UNCHANGED vars
  PROVE  CacheInvariant'
<1>0. TypeOK'
  BY TypeNext DEF CacheInvariant
<1> USE CacheAssumption DEF CacheInvariant, CallsInOrder, ValuesWereSet, LivesAreKept, MemoryOnlyInFallback,
      OlderAreDoomed, PurgedWasSet, PurgedStaysOut, ServedWithinLife, Values, Reads, Removals, Commands, Modes, Healthy, InFallback,
      Expired, Without, Stored, Goto, Begin, See, SetMemory, Doomed, redis, memory, arguments
<1>1. ASSUME NEW k \in Keys, NEW t \in Nat, TimerFires(k, t)
      PROVE  CacheInvariant'
  <2>2. CallsInOrder'
    BY <1>1 DEF TimerFires, TypeOK
  <2>3. ValuesWereSet'
    BY <1>1 DEF TimerFires, TypeOK
  <2>4. LivesAreKept'
    BY <1>1 DEF TimerFires, TypeOK
  <2>5. MemoryOnlyInFallback'
    BY <1>1 DEF TimerFires, TypeOK
  <2>6. OlderAreDoomed'
    BY <1>1 DEF TimerFires, TypeOK
  <2>7. PurgedWasSet'
    BY <1>1 DEF TimerFires, TypeOK
  <2>8. PurgedStaysOut'
    BY <1>1 DEF TimerFires, TypeOK
  <2>9. ServedWithinLife'
    BY <1>1 DEF TimerFires, TypeOK
  <2>10. ArgumentsFit'
    BY <1>1 DEF TimerFires, TypeOK, ArgumentsFit
  <2> QED
    BY <1>0, <2>2, <2>3, <2>4, <2>5, <2>6, <2>7, <2>8, <2>9, <2>10
<1>2. CASE Cleanup
  <2>2. CallsInOrder'
    BY <1>2 DEF Cleanup, TypeOK
  <2>3. ValuesWereSet'
    BY <1>2 DEF Cleanup, TypeOK
  <2>4. LivesAreKept'
    BY <1>2 DEF Cleanup, TypeOK
  <2>5. MemoryOnlyInFallback'
    BY <1>2 DEF Cleanup, TypeOK
  <2>6. OlderAreDoomed'
    BY <1>2 DEF Cleanup, TypeOK
  <2>7. PurgedWasSet'
    BY <1>2 DEF Cleanup, TypeOK
  <2>8. PurgedStaysOut'
    BY <1>2 DEF Cleanup, TypeOK
  <2>9. ServedWithinLife'
    BY <1>2 DEF Cleanup, TypeOK
  <2>10. ArgumentsFit'
    BY <1>2 DEF Cleanup, TypeOK, ArgumentsFit
  <2> QED
    BY <1>0, <2>2, <2>3, <2>4, <2>5, <2>6, <2>7, <2>8, <2>9, <2>10
<1>3. CASE Tick
  <2>2. CallsInOrder'
    BY <1>3 DEF Tick, TypeOK
  <2>3. ValuesWereSet'
    BY <1>3 DEF Tick, TypeOK
  <2>4. LivesAreKept'
    BY <1>3 DEF Tick, TypeOK
  <2>5. MemoryOnlyInFallback'
    BY <1>3 DEF Tick, TypeOK
  <2>6. OlderAreDoomed'
    BY <1>3 DEF Tick, TypeOK
  <2>7. PurgedWasSet'
    BY <1>3 DEF Tick, TypeOK
  <2>8. PurgedStaysOut'
    BY <1>3 DEF Tick, TypeOK
  <2>9. ServedWithinLife'
    BY <1>3 DEF Tick, TypeOK
  <2>10. ArgumentsFit'
    BY <1>3 DEF Tick, TypeOK, ArgumentsFit
  <2> QED
    BY <1>0, <2>2, <2>3, <2>4, <2>5, <2>6, <2>7, <2>8, <2>9, <2>10
<1>4. CASE Health
  <2>1. TypeOK'
    BY <1>4 DEF Health, HealthNext, Recover, Lose, GiveUp, TypeOK
  <2>2. CallsInOrder'
    BY <1>4 DEF Health, HealthNext, Recover, Lose, GiveUp, TypeOK
  <2>3. ValuesWereSet'
    BY <1>4 DEF Health, HealthNext, Recover, Lose, GiveUp, TypeOK
  <2>4. LivesAreKept'
    BY <1>4 DEF Health, HealthNext, Recover, Lose, GiveUp, TypeOK
  <2>5. MemoryOnlyInFallback'
    BY <1>4 DEF Health, HealthNext, Recover, Lose, GiveUp, TypeOK
  <2>6. OlderAreDoomed'
    BY <1>4 DEF Health, HealthNext, Recover, Lose, GiveUp, TypeOK
  <2>7. PurgedWasSet'
    BY <1>4 DEF Health, HealthNext, Recover, Lose, GiveUp, TypeOK
  <2>8. PurgedStaysOut'
    BY <1>4 DEF Health, HealthNext, Recover, Lose, GiveUp, TypeOK
  <2>9. ServedWithinLife'
    BY <1>4 DEF Health, HealthNext, Recover, Lose, GiveUp, TypeOK
  <2>10. ArgumentsFit'
    BY <1>4 DEF Health, HealthNext, Recover, Lose, GiveUp, TypeOK, ArgumentsFit
  <2> QED
    BY <1>0, <2>2, <2>3, <2>4, <2>5, <2>6, <2>7, <2>8, <2>9, <2>10
<1>5. CASE Restart
  <2>2. CallsInOrder'
    BY <1>5 DEF Restart, TypeOK
  <2>3. ValuesWereSet'
    BY <1>5 DEF Restart, TypeOK
  <2>4. LivesAreKept'
    BY <1>5 DEF Restart, TypeOK
  <2>5. MemoryOnlyInFallback'
    BY <1>5 DEF Restart, TypeOK
  <2>6. OlderAreDoomed'
    BY <1>5 DEF Restart, TypeOK
  <2>7. PurgedWasSet'
    BY <1>5 DEF Restart, TypeOK
  <2>8. PurgedStaysOut'
    BY <1>5 DEF Restart, TypeOK
  <2>9. ServedWithinLife'
    BY <1>5 DEF Restart, TypeOK
  <2>10. ArgumentsFit'
    BY <1>5 DEF Restart, TypeOK, ArgumentsFit
  <2> QED
    BY <1>0, <2>2, <2>3, <2>4, <2>5, <2>6, <2>7, <2>8, <2>9, <2>10
<1>6. ASSUME NEW k \in Keys, Evict(k)
      PROVE  CacheInvariant'
  <2>2. CallsInOrder'
    BY <1>6 DEF Evict, TypeOK
  <2>3. ValuesWereSet'
    BY <1>6 DEF Evict, TypeOK
  <2>4. LivesAreKept'
    BY <1>6 DEF Evict, TypeOK
  <2>5. MemoryOnlyInFallback'
    BY <1>6 DEF Evict, TypeOK
  <2>6. OlderAreDoomed'
    BY <1>6 DEF Evict, TypeOK
  <2>7. PurgedWasSet'
    BY <1>6 DEF Evict, TypeOK
  <2>8. PurgedStaysOut'
    BY <1>6 DEF Evict, TypeOK
  <2>9. ServedWithinLife'
    BY <1>6 DEF Evict, TypeOK
  <2>10. ArgumentsFit'
    BY <1>6 DEF Evict, TypeOK, ArgumentsFit
  <2> QED
    BY <1>0, <2>2, <2>3, <2>4, <2>5, <2>6, <2>7, <2>8, <2>9, <2>10
<1>7. CASE UNCHANGED vars
  <2>2. CallsInOrder'
    BY <1>7 DEF vars, TypeOK
  <2>3. ValuesWereSet'
    BY <1>7 DEF vars, TypeOK
  <2>4. LivesAreKept'
    BY <1>7 DEF vars, TypeOK
  <2>5. MemoryOnlyInFallback'
    BY <1>7 DEF vars, TypeOK
  <2>6. OlderAreDoomed'
    BY <1>7 DEF vars, TypeOK
  <2>7. PurgedWasSet'
    BY <1>7 DEF vars, TypeOK
  <2>8. PurgedStaysOut'
    BY <1>7 DEF vars, TypeOK
  <2>9. ServedWithinLife'
    BY <1>7 DEF vars, TypeOK
  <2>10. ArgumentsFit'
    BY <1>7 DEF vars, TypeOK, ArgumentsFit
  <2> QED
    BY <1>0, <2>2, <2>3, <2>4, <2>5, <2>6, <2>7, <2>8, <2>9, <2>10
<1> HIDE DEF CacheInvariant
<1> QED
  BY <1>1, <1>2, <1>3, <1>4, <1>5, <1>6, <1>7

\* Every reachable state of the cache satisfies the invariant.
THEOREM CacheInvariantHolds == Spec => []CacheInvariant
<1>1. CacheInvariant /\ [Next]_vars => CacheInvariant'
  <2> SUFFICES ASSUME CacheInvariant, [Next]_vars
               PROVE  CacheInvariant'
    OBVIOUS
  <2>1. Timers => \E k \in Keys, t \in Nat : TimerFires(k, t)
    BY DEF Timers, CacheInvariant, TypeOK
  <2> QED
    BY <2>1, ArriveInvariant, WorkInvariant, EnvironmentInvariant DEF Next
<1> QED
  BY <1>1, InitInvariant, PTL DEF Spec

\* get, exists and ttl: a value is served only within the life it was stored
\* with, whichever tier answers.
THEOREM ServedWithinLifeHolds == Spec => []ServedWithinLife
<1>1. CacheInvariant => ServedWithinLife
  BY DEF CacheInvariant
<1> QED
  BY <1>1, CacheInvariantHolds, PTL

\* del, invalidate and flush: a value that one of them has reached never comes
\* back, in either tier.
THEOREM PurgedStaysOutHolds == Spec => []PurgedStaysOut
<1>1. CacheInvariant => PurgedStaysOut
  BY DEF CacheInvariant
<1> QED
  BY <1>1, CacheInvariantHolds, PTL

-----------------------------------------------------------------------------
(* The refinement of LossyCache *)

\* Calls that have returned.
Over == {c \in Calls : pc[c] = "done"}

\* What it takes to be an entry, in either tier.
LEMMA KeptEntries ==
  \A e : e \in Kept <=>
    \E k \in Keys : \/ redisVal[k] # NoValue /\ e = <<k, redisVal[k], redisDies[k]>>
                    \/ /\ memVal[k] # NoValue /\ ~(memExp[k] <= now)
                       /\ e = <<k, memVal[k], memExp[k]>>
BY DEF Kept, InRedis, InMemory, Expired

\* Removing values from the tiers adds no entry.
LEMMA KeptLoses ==
  ASSUME UNCHANGED <<now, redisDies, memExp>>,
         \A k \in Keys : /\ redisVal'[k] \in {redisVal[k], NoValue}
                         /\ memVal'[k] \in {memVal[k], NoValue}
  PROVE  Kept' \subseteq Kept
BY DEF Kept, InRedis, InMemory, Expired

\* Removing expired values from memory removes no entry either.
LEMMA KeptStays ==
  ASSUME UNCHANGED <<now, redis, memExp>>,
         \A k \in Keys : \/ memVal'[k] = memVal[k]
                         \/ Expired(k) /\ memVal'[k] = NoValue
  PROVE  Kept' = Kept
BY DEF Kept, InRedis, InMemory, Expired, redis

\* A call that goes on to a command, or returns.
LEMMA OverFollows ==
  ASSUME TypeOK, NEW c \in Calls, pc[c] # "done", NEW to, pc' = [pc EXCEPT ![c] = to]
  PROVE  /\ to # "done" => Over' = Over
         /\ to = "done" => Over' = Over \cup {c}
         /\ c \notin Over
<1>1. pc'[c] = to /\ \A d \in Calls \ {c} : pc'[d] = pc[d]
  BY DEF TypeOK
<1> QED
  BY <1>1 DEF Over

\* A call that is under way keeps what it named.
LEMMA CallIsForItself ==
  ASSUME CacheInvariant, NEW c \in Calls, pc[c] # "done", UNCHANGED arguments
  PROVE  /\ Cache!For(c, target[c], life[c])
         /\ target[c] \in SUBSET Keys /\ life[c] \in Lives \cup {0}
<1>1. /\ target' = [target EXCEPT ![c] = target[c]]
      /\ life' = [life EXCEPT ![c] = life[c]]
      /\ target[c] \in SUBSET Keys
  BY DEF CacheInvariant, TypeOK, arguments
<1>2. life[c] \in Lives \cup {0}
  BY DEF CacheInvariant, TypeOK, ArgumentsFit
<1> QED
  BY <1>1, <1>2 DEF Cache!For, Over

\* A call that arrives names its arguments for the first time.
LEMMA CallNames ==
  ASSUME CacheInvariant, NEW c \in Calls, NEW f, NEW K, NEW l, NEW first,
         Begin(c, f, K, l, first)
  PROVE  /\ Cache!For(c, K, l)
         /\ pc[c] = "idle" /\ got[c] = NoValue
         /\ first # "done" => Over' = Over
         /\ first = "done" => Over' = Over \cup {c}
<1>1. /\ pc[c] = "idle" /\ pc' = [pc EXCEPT ![c] = first]
      /\ target' = [target EXCEPT ![c] = K] /\ life' = [life EXCEPT ![c] = l]
  BY DEF Begin, Goto
<1>2. target[c] = {} /\ life[c] = 0 /\ got[c] = NoValue
  BY <1>1 DEF CacheInvariant, CallsInOrder, ArgumentsFit
<1> QED
  BY <1>1, <1>2, OverFollows DEF CacheInvariant, Cache!For, Over

\* A read asks Redis, or sees an entry of memory that has not expired, or
\* returns with nothing.
LEMMA ReadArrives ==
  ASSUME CacheInvariant, NEW c \in Calls, NEW f \in Reads, NEW k \in Keys,
         BeginRead(c, f, k)
  PROVE  Cache!Ask(c, {k}, 0) \/ Cache!Get(c, k) \/ Cache!End(c, {k}, 0)
<1>1. /\ UNCHANGED <<now, redis, memExp>>
      /\ memVal' = IF InFallback /\ f = "get" /\ Expired(k) THEN Without(memVal, {k}) ELSE memVal
      /\ Begin(c, f, {k}, 0, IF Healthy THEN "read" ELSE "done")
      /\ got \in [Calls -> Values]
  BY DEF BeginRead, CacheInvariant, TypeOK
<1>2. UNCHANGED Kept
  <2>1. \A j \in Keys : memVal'[j] = memVal[j] \/ (Expired(j) /\ memVal'[j] = NoValue)
    <3>1. CASE UNCHANGED memVal
      BY <3>1
    <3>2. CASE Expired(k) /\ memVal' = Without(memVal, {k})
      BY <3>2 DEF Without
    <3> QED
      BY <1>1, <3>1, <3>2
  <2> QED
    BY <1>1, <2>1, KeptStays
<1>3. Cache!For(c, {k}, 0) /\ got[c] = NoValue
  BY <1>1, CallNames
<1>4. CASE Healthy
  <2>1. UNCHANGED Over /\ UNCHANGED got
    BY <1>1, <1>4, CallNames DEF BeginRead, Healthy, InFallback
  <2> QED
    BY <1>1, <1>2, <1>3, <2>1 DEF Cache!Ask, Over
<1>5. CASE ~Healthy
  <2>1. Over' = Over \cup {c}
    BY <1>1, <1>5, CallNames
  <2>2. CASE InFallback /\ ~Expired(k) /\ memVal[k] # NoValue
    <3>1. got' = [got EXCEPT ![c] = memVal[k]]
      BY <2>2 DEF BeginRead, See
    <3>2. <<k, memVal[k], memExp[k]>> \in Kept
      BY <2>2, KeptEntries DEF Expired
    <3>3. \E e \in Kept : e[1] = k /\ got' = [got EXCEPT ![c] = e[2]]
      BY <3>1, <3>2
    <3> QED
      BY <1>1, <1>2, <1>3, <2>1, <3>3 DEF Cache!Get, Cache!Return, Over
  <2>3. CASE ~(InFallback /\ ~Expired(k) /\ memVal[k] # NoValue)
    <3>1. got' = got \/ got' = [got EXCEPT ![c] = NoValue]
      BY <2>3 DEF BeginRead, See, Expired
    <3>2. got' = got
      BY <1>1, <1>3, <3>1
    <3> QED
      BY <1>1, <1>2, <1>3, <2>1, <3>2 DEF Cache!End, Cache!Return, Over
  <2> QED
    BY <2>2, <2>3
<1> QED
  BY <1>4, <1>5

\* A set in fallback mode puts its value into memory at once.
LEMMA SetArrives ==
  ASSUME CacheInvariant, NEW c \in Calls, NEW k \in Keys, NEW l \in Lives,
         BeginSet(c, k, l)
  PROVE  Cache!Ask(c, {k}, l) \/ Cache!Put(c, k, l) \/ Cache!End(c, {k}, l)
<1>1. /\ UNCHANGED <<now, redis, got>>
      /\ Begin(c, "set", {k}, l, IF Healthy THEN "setex" ELSE "done")
  BY DEF BeginSet
<1>2. Cache!For(c, {k}, l)
  BY <1>1, CallNames
<1>3. CASE Healthy
  <2>1. UNCHANGED Over /\ UNCHANGED memory
    BY <1>1, <1>3, CallNames DEF BeginSet, Healthy, InFallback
  <2>2. UNCHANGED Kept
    BY <1>1, <2>1, KeptStays DEF memory
  <2> QED
    BY <1>1, <1>2, <2>1, <2>2 DEF Cache!Ask, Over
<1>4. CASE ~Healthy /\ ~InFallback
  <2>1. Over' = Over \cup {c} /\ UNCHANGED memory
    BY <1>1, <1>4, CallNames DEF BeginSet
  <2>2. UNCHANGED Kept
    BY <1>1, <2>1, KeptStays DEF memory
  <2> QED
    BY <1>1, <1>2, <2>1, <2>2 DEF Cache!End, Cache!Return, Over
<1>5. CASE InFallback
  <2>1. Over' = Over \cup {c}
    BY <1>1, <1>5, CallNames DEF Healthy, InFallback
  <2>2. /\ memVal'[k] = c /\ memExp'[k] = now + l
        /\ \A j \in Keys \ {k} : memVal'[j] = memVal[j] /\ memExp'[j] = memExp[j]
        /\ c # NoValue /\ ~(now + l <= now)
    BY <1>5, CacheAssumption DEF BeginSet, SetMemory, CacheInvariant, TypeOK
  <2>3. <<k, c, now + l>> \in Kept'
    BY <1>1, <2>2, KeptEntries DEF Kept, InMemory, Expired
  <2>4. Kept' \ {<<k, c, now + l>>} \subseteq Kept
    BY <1>1, <2>2 DEF Kept, InRedis, InMemory, Expired, redis
  <2> QED
    BY <1>1, <1>2, <2>1, <2>3, <2>4 DEF Cache!Put, Cache!Return, Over
<1> QED
  BY <1>3, <1>4, <1>5

\* A removal only ever removes.
LEMMA RemovalArrives ==
  ASSUME CacheInvariant, NEW c \in Calls, NEW f \in Removals,
         NEW K \in SUBSET Keys, NEW L \in SUBSET Keys, BeginRemove(c, f, K, L)
  PROVE  Cache!Ask(c, K, 0) \/ Cache!End(c, K, 0)
<1> DEFINE first == IF ~Healthy THEN "done" ELSE IF f = "invalidate" THEN "keys" ELSE "remove"
<1>1. /\ UNCHANGED <<now, redis, memExp, got>>
      /\ Begin(c, f, K, 0, first)
  BY DEF BeginRemove
<1>2. Cache!For(c, K, 0)
  BY <1>1, CallNames
<1>3. CASE Healthy
  <2>1. UNCHANGED Over /\ UNCHANGED memVal
    BY <1>1, <1>3, CallNames DEF BeginRemove
  <2>2. UNCHANGED Kept
    BY <1>1, <2>1, KeptStays
  <2> QED
    BY <1>1, <1>2, <2>1, <2>2 DEF Cache!Ask, Over
<1>4. CASE ~Healthy
  <2>1. Over' = Over \cup {c}
    BY <1>1, <1>4, CallNames
  <2>2. memVal' = Without(memVal, L)
    BY <1>4 DEF BeginRemove
  <2>3. Kept' \subseteq Kept
    BY <1>1, <2>2, KeptLoses DEF Without, redis, CacheInvariant, TypeOK
  <2> QED
    BY <1>1, <1>2, <2>1, <2>3 DEF Cache!End, Cache!Return, Over
<1> QED
  BY <1>3, <1>4

\* SETEX puts the value in, for the life that its call named, from now on.
LEMMA SetexPuts ==
  ASSUME CacheInvariant, NEW c \in Calls, SetRedis(c)
  PROVE  \E k \in Keys, l \in Lives : Cache!Put(c, k, l)
<1>1. /\ pc[c] = "setex" /\ pc' = [pc EXCEPT ![c] = "done"]
      /\ UNCHANGED <<now, memory, arguments, got>>
  BY DEF SetRedis, Goto
<1>2. PICK k \in Keys : target[c] = {k}
  BY <1>1 DEF CacheInvariant, CallsInOrder, ArgumentsFit
<1>3. life[c] \in Lives
  BY <1>1 DEF CacheInvariant, CallsInOrder, ArgumentsFit
<1>4. Over' = Over \cup {c}
  BY <1>1, OverFollows DEF CacheInvariant
<1>5. Cache!For(c, {k}, life[c])
  BY <1>1, <1>2, CallIsForItself
<1>6. /\ redisVal'[k] = c /\ redisDies'[k] = now + life[c] /\ c # NoValue
      /\ \A j \in Keys \ {k} : redisVal'[j] = redisVal[j] /\ redisDies'[j] = redisDies[j]
  BY <1>2, CacheAssumption DEF SetRedis
<1>7. <<k, c, now + life[c]>> \in Kept'
  BY <1>6 DEF Kept, InRedis
<1>8. Kept' \ {<<k, c, now + life[c]>>} \subseteq Kept
  BY <1>1, <1>6 DEF Kept, InRedis, InMemory, Expired, memory
<1> QED
  BY <1>1, <1>3, <1>4, <1>5, <1>7, <1>8 DEF Cache!Put, Cache!Return, Over

\* Redis answers a read with what it holds, which has not expired.
LEMMA RedisAnswers ==
  ASSUME CacheInvariant, NEW c \in Calls, ReadRedis(c)
  PROVE  \E k \in Keys : Cache!Get(c, k) \/ Cache!End(c, {k}, 0)
<1>1. /\ pc[c] = "read" /\ pc' = [pc EXCEPT ![c] = "done"]
      /\ UNCHANGED <<now, redis, memory, arguments>>
  BY DEF ReadRedis, Goto
<1>2. PICK k \in Keys : target[c] = {k} /\ life[c] = 0 /\ got[c] = NoValue
  BY <1>1 DEF CacheInvariant, CallsInOrder, ArgumentsFit
<1>3. got' = [got EXCEPT ![c] = redisVal[k]]
  BY <1>2 DEF ReadRedis, See
<1>4. Over' = Over \cup {c}
  BY <1>1, OverFollows DEF CacheInvariant
<1>5. Cache!For(c, {k}, 0)
  BY <1>1, <1>2, CallIsForItself
<1>6. UNCHANGED Kept
  BY <1>1, KeptStays DEF memory, redis
<1>7. CASE redisVal[k] = NoValue
  <2>1. UNCHANGED got
    BY <1>2, <1>3, <1>7 DEF CacheInvariant, TypeOK
  <2> QED
    BY <1>1, <1>4, <1>5, <1>6, <2>1 DEF Cache!End, Cache!Return, Over
<1>8. CASE redisVal[k] # NoValue
  <2>1. <<k, redisVal[k], redisDies[k]>> \in Kept
    BY <1>8, KeptEntries
  <2>2. \E e \in Kept : e[1] = k /\ got' = [got EXCEPT ![c] = e[2]]
    BY <1>3, <2>1
  <2> QED
    BY <1>1, <1>4, <1>5, <1>6, <2>2 DEF Cache!Get, Cache!Return, Over
<1> QED
  BY <1>7, <1>8

\* Scans, removals and rejected commands end their call, or show nothing.
LEMMA OtherCommands ==
  ASSUME CacheInvariant, NEW c \in Calls,
         ScanKeys(c) \/ RemoveRedis(c) \/ RemoveUnacknowledged(c) \/ CommandFails(c)
  PROVE  \/ UNCHANGED Cache!vars
         \/ \E K \in SUBSET Keys, l \in Lives \cup {0} : Cache!End(c, K, l)
<1>1. /\ pc[c] \in Commands /\ UNCHANGED <<now, redisDies, memExp, arguments, got>>
      /\ \E to \in {"remove", "done"} : pc' = [pc EXCEPT ![c] = to]
  BY DEF ScanKeys, RemoveRedis, RemoveUnacknowledged, CommandFails, Goto, Commands, redis,
         memory
<1>2. PICK to \in {"remove", "done"} : pc' = [pc EXCEPT ![c] = to]
  BY <1>1
<1>3. pc[c] # "done"
  BY <1>1 DEF Commands
<1>4. \/ UNCHANGED <<redisVal, memVal>>
      \/ \E K \in SUBSET Keys, L \in SUBSET Keys :
            redisVal' = Without(redisVal, K) /\ memVal' \in {memVal, Without(memVal, L)}
  <2>1. found[c] \in SUBSET Keys /\ target[c] \in SUBSET Keys
    BY DEF CacheInvariant, TypeOK
  <2> QED
    BY <2>1 DEF ScanKeys, RemoveRedis, RemoveUnacknowledged, CommandFails, Doomed, redis, memory
<1>5. Kept' \subseteq Kept
  BY <1>1, <1>4, KeptLoses DEF Without
<1>6. CASE to = "done"
  <2>1. Over' = Over \cup {c}
    BY <1>2, <1>3, <1>6, OverFollows DEF CacheInvariant
  <2>2. /\ Cache!For(c, target[c], life[c])
        /\ target[c] \in SUBSET Keys /\ life[c] \in Lives \cup {0}
    BY <1>1, <1>3, CallIsForItself
  <2>3. Cache!End(c, target[c], life[c])
    BY <1>1, <1>5, <2>1, <2>2 DEF Cache!End, Cache!Return, Over
  <2> QED
    BY <2>2, <2>3
<1>7. CASE to = "remove"
  <2>1. UNCHANGED Over
    BY <1>2, <1>3, <1>7, OverFollows DEF CacheInvariant
  <2>2. pc'[c] = "remove"
    BY <1>2, <1>7 DEF CacheInvariant, TypeOK
  <2>3. ScanKeys(c)
    BY <1>3, <2>2 DEF RemoveRedis, RemoveUnacknowledged, CommandFails, Goto, CacheInvariant, TypeOK
  <2>4. UNCHANGED Kept
    BY <1>1, <2>3, KeptStays DEF ScanKeys, redis, memory
  <2> QED
    BY <1>1, <2>1, <2>4 DEF Cache!vars, Over, arguments
<1> QED
  BY <1>6, <1>7

\* Timers and the cleanup show nothing; the clock takes out what expires, in
\* either tier; evictions and restarts lose entries.
LEMMA EnvironmentRefines ==
  ASSUME CacheInvariant,
         \/ \E k \in Keys, t \in Nat : TimerFires(k, t)
         \/ Cleanup \/ Tick \/ Health \/ Restart
         \/ \E k \in Keys : Evict(k)
         \/ UNCHANGED vars
  PROVE  [Cache!Next]_(Cache!vars)
<1>1. CASE \/ \E k \in Keys, t \in Nat : TimerFires(k, t)
           \/ Cleanup \/ Health \/ UNCHANGED vars
  <2>1. /\ UNCHANGED <<now, redis, memExp, arguments, pc, got>>
        /\ \E K \in SUBSET Keys : /\ \A k \in K : Expired(k)
                                  /\ memVal' = memVal \/ memVal' = Without(memVal, K)
    <3>1. /\ {} \in SUBSET Keys /\ {k \in Keys : Expired(k)} \in SUBSET Keys
          /\ \A k \in Keys : {k} \in SUBSET Keys
      OBVIOUS
    <3>2. CASE \E k \in Keys, t \in Nat : TimerFires(k, t)
      <4>1. PICK k \in Keys, t \in Nat : TimerFires(k, t)
        BY <3>2
      <4> QED
        BY <3>1, <4>1 DEF TimerFires
    <3>3. CASE Cleanup
      BY <3>1, <3>3 DEF Cleanup
    <3>4. CASE Health \/ UNCHANGED vars
      BY <3>1, <3>4 DEF Health, vars, redis, memory, arguments
    <3> QED
      BY <1>1, <3>2, <3>3, <3>4
  <2>2. UNCHANGED Kept
    <3>1. \A k \in Keys : memVal'[k] = memVal[k] \/ (Expired(k) /\ memVal'[k] = NoValue)
      BY <2>1 DEF Without
    <3> QED
      BY <2>1, <3>1, KeptStays
  <2> QED
    BY <2>1, <2>2 DEF Cache!vars, Over, arguments
<1>2. CASE Tick
  <2>1. /\ now' = now + 1 /\ UNCHANGED <<redisDies, memory, arguments, pc, got>>
        /\ redisVal' = Without(redisVal, {k \in Keys : redisDies[k] <= now'})
        /\ now \in Nat /\ memExp \in [Keys -> Nat] /\ redisDies \in [Keys -> Nat]
    BY <1>2 DEF Tick, CacheInvariant, TypeOK
  <2>2. \A k \in Keys :
           redisVal'[k] = IF redisDies[k] <= now' THEN NoValue ELSE redisVal[k]
    BY <2>1 DEF Without
  <2>3. Kept' = {e \in Kept : e[3] > now'}
    <3>1. \A e : e \in Kept' => e \in Kept /\ e[3] > now'
      BY <2>1, <2>2 DEF Kept, InRedis, InMemory, Expired, memory
    <3>2. \A e \in Kept : e[3] > now' => e \in Kept'
      BY <2>1, <2>2 DEF Kept, InRedis, InMemory, Expired, memory
    <3> QED
      BY <3>1, <3>2
  <2>4. Cache!Tick
    BY <2>1, <2>3 DEF Cache!Tick, Over, arguments
  <2> QED
    BY <2>4 DEF Cache!Next
<1>3. CASE Restart
  <2>1. /\ UNCHANGED <<now, redis, memExp, arguments, got>>
        /\ memVal' = Without(memVal, Keys)
        /\ pc' = [c \in Calls |-> IF pc[c] \in Commands THEN "done" ELSE pc[c]]
    BY <1>3 DEF Restart
  <2>2. Kept' \subseteq Kept
    BY <2>1, KeptLoses DEF Without, redis, CacheInvariant, TypeOK
  <2>3. Over \subseteq Over'
    BY <2>1 DEF Over, Commands
  <2> QED
    BY <2>1, <2>2, <2>3 DEF Cache!Lose, Cache!Next, Over, arguments
<1>4. ASSUME NEW k \in Keys, Evict(k)
      PROVE  Cache!Next
  <2>1. /\ UNCHANGED <<now, redisDies, memory, arguments, pc, got>>
        /\ redisVal' = Without(redisVal, {k})
    BY <1>4 DEF Evict
  <2>2. Kept' \subseteq Kept
    BY <2>1, KeptLoses DEF Without, memory
  <2>3. UNCHANGED Over
    BY <2>1 DEF Over
  <2> QED
    BY <2>1, <2>2, <2>3 DEF Cache!Lose, Cache!Next, Over, arguments
<1> QED
  BY <1>1, <1>2, <1>3, <1>4

\* The service is one cache that may lose entries but neither confuses, revives
\* nor outlives them: each of its steps is one of LossyCache or shows nothing.
THEOREM CacheImplementsLossyCache == Spec => ImplementsLossyCache
<1>1. Init => Cache!Init
  <2> SUFFICES ASSUME Init
               PROVE  Cache!Init
    OBVIOUS
  <2>1. Kept = {} /\ Over = {}
    BY DEF Init, Kept, InRedis, InMemory, Over
  <2> QED
    BY <2>1 DEF Init, Cache!Init, Over
<1>2. ASSUME CacheInvariant, [Next]_vars
      PROVE  [Cache!Next]_(Cache!vars)
  <2>1. ASSUME NEW c \in Calls, Arrive(c)
        PROVE  Cache!Next
    <3>1. ASSUME NEW k \in Keys, NEW f \in Reads, BeginRead(c, f, k)
          PROVE  Cache!Next
      BY <1>2, <3>1, ReadArrives DEF Cache!Next
    <3>2. ASSUME NEW k \in Keys, NEW l \in Lives, BeginSet(c, k, l)
          PROVE  Cache!Next
      BY <1>2, <3>2, SetArrives DEF Cache!Next
    <3>3. ASSUME NEW f \in Removals, NEW K \in SUBSET Keys, NEW L \in SUBSET Keys,
                 BeginRemove(c, f, K, L)
          PROVE  Cache!Next
      BY <1>2, <3>3, RemovalArrives DEF Cache!Next
    <3> QED
      BY <2>1, <3>1, <3>2, <3>3 DEF Arrive, Removals
  <2>2. ASSUME NEW c \in Calls, Work(c)
        PROVE  [Cache!Next]_(Cache!vars)
    BY <1>2, <2>2, SetexPuts, RedisAnswers, OtherCommands DEF Work, Cache!Next
  <2>3. Timers => \E k \in Keys, t \in Nat : TimerFires(k, t)
    BY <1>2 DEF Timers, CacheInvariant, TypeOK
  <2> QED
    BY <1>2, <2>1, <2>2, <2>3, EnvironmentRefines DEF Next
<1> QED
  BY <1>1, <1>2, CacheInvariantHolds, PTL DEF Spec, ImplementsLossyCache, Cache!Spec
=============================================================================
