------------------------ MODULE SessionServiceProofs ------------------------
(***************************************************************************)
(* Proofs about SessionService, for every set of sessions and calls and    *)
(* every lifetime.                                                         *)
(***************************************************************************)
EXTENDS SessionService, TLAPS

\* The initial state satisfies the invariant: there is no session.
LEMMA InitInvariant == Init => SessionInvariant
  BY SessionAssumption DEF Init, HealthInit, SessionInvariant, TypeOK, BusyHasSession,
      MemoryOnlyInFallback, Times, Null, Busy, RedisSteps, DbSteps, Ops, Modes

\* A call that arrives preserves the invariant.
LEMMA ArriveInvariant ==
  ASSUME SessionInvariant, NEW c \in Calls, Arrive(c)
  PROVE  SessionInvariant'
<1> USE SessionAssumption DEF SessionInvariant, TypeOK, BusyHasSession, MemoryOnlyInFallback,
      Times, Null, Busy, RedisSteps, DbSteps, Ops, Modes, Healthy, InFallback,
      Goto, Begin, Trouble, Overlap, ChooseTier, SetEx, Del, Deliver, Extend,
      LiveRow, LifeLeft, DropMemory, EndInvalidation, AfterRedisError,
      AfterDbError, redis, heap, table, locals, history
<1>1. ASSUME NEW s \in Sessions, Create(c, s)
      PROVE  SessionInvariant'
  BY <1>1 DEF Create
<1>2. ASSUME NEW s \in Sessions, NEW f \in {"get", "refresh"}, Lookup(c, f, s)
      PROVE  SessionInvariant'
  BY <1>2 DEF Lookup
<1>3. ASSUME NEW s \in Sessions, Invalidate(c, s)
      PROVE  SessionInvariant'
  BY <1>3 DEF Invalidate
<1> QED
  BY <1>1, <1>2, <1>3 DEF Arrive

\* Every step of a call preserves the invariant.
LEMMA WorkInvariant ==
  ASSUME SessionInvariant, NEW c \in Calls, Work(c)
  PROVE  SessionInvariant'
<1> USE SessionAssumption DEF SessionInvariant, TypeOK, BusyHasSession, MemoryOnlyInFallback,
      Times, Null, Busy, RedisSteps, DbSteps, Ops, Modes, Healthy, InFallback,
      Goto, Begin, Trouble, Overlap, ChooseTier, SetEx, Del, Deliver, Extend,
      LiveRow, LifeLeft, DropMemory, EndInvalidation, AfterRedisError,
      AfterDbError, redis, heap, table, locals, history
<1>1. CASE CreateInRedis(c)
  BY <1>1 DEF CreateInRedis
<1>2. CASE CreateRow(c)
  BY <1>2 DEF CreateRow
<1>3. CASE GetHit(c)
  BY <1>3 DEF GetHit
<1>4. CASE GetExpired(c)
  BY <1>4 DEF GetExpired
<1>5. CASE GetNothing(c)
  BY <1>5 DEF GetNothing
<1>6. CASE FindRow(c)
  BY <1>6 DEF FindRow
<1>7. CASE Recache(c)
  BY <1>7 DEF Recache
<1>8. CASE FindRowLast(c)
  BY <1>8 DEF FindRowLast
<1>9. CASE FindNothing(c)
  BY <1>9 DEF FindNothing
<1>10. CASE ExtendInRedis(c)
  BY <1>10 DEF ExtendInRedis
<1>11. CASE ExtendRow(c)
  BY <1>11 DEF ExtendRow
<1>12. CASE ExtendMissingRow(c)
  BY <1>12 DEF ExtendMissingRow
<1>13. CASE DeleteFromRedis(c)
  BY <1>13 DEF DeleteFromRedis
<1>14. CASE DeleteRow(c)
  BY <1>14 DEF DeleteRow
<1>15. CASE DeleteRowFails(c)
  BY <1>15 DEF DeleteRowFails
<1> QED
  BY <1>1, <1>2, <1>3, <1>4, <1>5, <1>6, <1>7, <1>8, <1>9, <1>10, <1>11, <1>12, <1>13, <1>14, <1>15 DEF Work

\* Failing commands and statements preserve the invariant.
LEMMA FailureInvariant ==
  ASSUME SessionInvariant, NEW c \in Calls, RedisRejects(c) \/ DbRejects(c)
  PROVE  SessionInvariant'
<1> USE SessionAssumption DEF SessionInvariant, TypeOK, BusyHasSession, MemoryOnlyInFallback,
      Times, Null, Busy, RedisSteps, DbSteps, Ops, Modes, Healthy, InFallback,
      Goto, Begin, Trouble, Overlap, ChooseTier, SetEx, Del, Deliver, Extend,
      LiveRow, LifeLeft, DropMemory, EndInvalidation, AfterRedisError,
      AfterDbError, redis, heap, table, locals, history
<1>1. CASE RedisRejects(c)
  BY <1>1 DEF RedisRejects
<1>2. CASE DbRejects(c)
  BY <1>2 DEF DbRejects
<1> QED
  BY <1>1, <1>2

\* Expiry, eviction, cleanup, outages and restarts preserve the invariant.
LEMMA EnvironmentInvariant ==
  ASSUME SessionInvariant,
         \/ \E s \in Sessions : Evict(s) \/ TimerFires(s)
         \/ CleanupRows \/ CleanupMemory
         \/ HealthChanges \/ Restart \/ Tick
         \/ UNCHANGED vars
  PROVE  SessionInvariant'
<1> USE SessionAssumption DEF SessionInvariant, TypeOK, BusyHasSession, MemoryOnlyInFallback,
      Times, Null, Busy, RedisSteps, DbSteps, Ops, Modes, Healthy, InFallback,
      Goto, Begin, Trouble, Overlap, ChooseTier, SetEx, Del, Deliver, Extend,
      LiveRow, LifeLeft, DropMemory, EndInvalidation, AfterRedisError,
      AfterDbError, redis, heap, table, locals, history
<1>1. ASSUME NEW s \in Sessions, Evict(s)
      PROVE  SessionInvariant'
  BY <1>1 DEF Evict
<1>2. ASSUME NEW s \in Sessions, TimerFires(s)
      PROVE  SessionInvariant'
  BY <1>2 DEF TimerFires
<1>3. CASE CleanupRows
  BY <1>3 DEF CleanupRows
<1>4. CASE CleanupMemory
  BY <1>4 DEF CleanupMemory
<1>5. CASE HealthChanges
  BY <1>5 DEF HealthChanges, HealthNext, Recover, Lose, GiveUp
<1>6. CASE Restart
  BY <1>6 DEF Restart, InFlight
<1>7. CASE Tick
  BY <1>7 DEF Tick
<1>8. CASE UNCHANGED vars
  BY <1>8 DEF vars
<1> QED
  BY <1>1, <1>2, <1>3, <1>4, <1>5, <1>6, <1>7, <1>8

\* Every reachable state of the session service satisfies the invariant.
THEOREM SessionInvariantHolds == Spec => []SessionInvariant
<1>1. SessionInvariant /\ [Next]_vars => SessionInvariant'
  BY ArriveInvariant, WorkInvariant, FailureInvariant, EnvironmentInvariant DEF Next
<1> QED
  BY <1>1, InitInvariant, PTL DEF Spec

\* Every reachable state has the declared types.
THEOREM TypeCorrect == Spec => []TypeOK
<1>1. SessionInvariant => TypeOK
  BY DEF SessionInvariant
<1> QED
  BY <1>1, SessionInvariantHolds, PTL

\* createSession, refreshSession and invalidateSession: process memory holds
\* sessions only in fallback mode, even after a restart.
THEOREM MemoryOnlyInFallbackHolds == Spec => []MemoryOnlyInFallback
<1>1. SessionInvariant => MemoryOnlyInFallback
  BY DEF SessionInvariant
<1> QED
  BY <1>1, SessionInvariantHolds, PTL

-----------------------------------------------------------------------------
(* The tiers agree on calm sessions *)

\* A call on a session that was never created does not exist: Create makes the
\* first one, and every other function asks for a session that is known.
LEMMA CreatedBeforeCalled ==
  ASSUME TypeOK, CalledOnceCreated, [Next]_vars
  PROVE  CalledOnceCreated'
<1> USE DEF TypeOK, CalledOnceCreated
\* Every step but an arrival leaves op and sid alone and makes no call idle.
<1>1. ASSUME op' = op, sid' = sid,
             \A c \in Calls : pc'[c] = "idle" => pc[c] = "idle"
      PROVE  CalledOnceCreated'
  BY <1>1
\* An arrival fills in an idle call, which is nobody's creation.
<1>2. ASSUME NEW c \in Calls, NEW s \in Sessions, NEW f \in Ops \ {"none"},
             pc[c] = "idle", \A d \in Calls : pc'[d] = "idle" => pc[d] = "idle" /\ d # c,
             op' = [op EXCEPT ![c] = f], sid' = [sid EXCEPT ![c] = s],
             f = "create" \/ Known(s)
      PROVE  CalledOnceCreated'
  <2>1. ASSUME NEW d \in Calls
        PROVE  pc'[d] = "idle" => op'[d] = "none"
    BY <1>2, <2>1
  <2>2. PICK creator \in Calls : op'[creator] = "create" /\ sid'[creator] = s
    <3>1. CASE f = "create"
      BY <1>2, <3>1
    <3>2. CASE Known(s)
      <4>1. PICK e \in Calls : op[e] = "create" /\ sid[e] = s /\ pc[e] = "ok"
        BY <3>2 DEF Known
      <4>2. e # c
        BY <1>2, <4>1
      <4> QED
        BY <1>2, <4>1, <4>2
    <3> QED
      BY <1>2, <3>1, <3>2
  <2>3. ASSUME NEW d \in Calls, sid'[d] \in Sessions
        PROVE  \E e \in Calls : op'[e] = "create" /\ sid'[e] = sid'[d]
    <3>1. CASE d = c
      BY <1>2, <2>2, <3>1
    <3>2. CASE d # c
      <4>1. PICK e \in Calls : op[e] = "create" /\ sid[e] = sid[d]
        BY <1>2, <2>3, <3>2
      <4>2. e # c
        BY <1>2, <4>1
      <4> QED
        BY <1>2, <3>2, <4>1, <4>2
    <3> QED
      BY <3>1, <3>2
  <2> QED
    BY <2>1, <2>3
<1>3. ASSUME NEW c \in Calls, NEW s \in Sessions, Create(c, s)
      PROVE  CalledOnceCreated'
  <2>1. pc[c] = "idle" /\ \A d \in Calls : pc'[d] = "idle" => pc[d] = "idle" /\ d # c
    BY <1>3 DEF Create, Begin, Goto
  <2>2. op' = [op EXCEPT ![c] = "create"] /\ sid' = [sid EXCEPT ![c] = s]
    BY <1>3 DEF Create, Begin
  <2> QED
    BY <1>2, <2>1, <2>2 DEF Ops
<1>4. ASSUME NEW c \in Calls, NEW s \in Sessions, NEW f \in {"get", "refresh"}, Lookup(c, f, s)
      PROVE  CalledOnceCreated'
  <2>1. pc[c] = "idle" /\ \A d \in Calls : pc'[d] = "idle" => pc[d] = "idle" /\ d # c
    BY <1>4 DEF Lookup, Deliver, Extend, Goto
  <2>2. op' = [op EXCEPT ![c] = f] /\ sid' = [sid EXCEPT ![c] = s] /\ Known(s)
    BY <1>4 DEF Lookup
  <2> QED
    BY <1>2, <2>1, <2>2 DEF Ops
<1>5. ASSUME NEW c \in Calls, NEW s \in Sessions, Invalidate(c, s)
      PROVE  CalledOnceCreated'
  <2>1. pc[c] = "idle" /\ \A d \in Calls : pc'[d] = "idle" => pc[d] = "idle" /\ d # c
    BY <1>5 DEF Invalidate, Begin, Goto
  <2>2. op' = [op EXCEPT ![c] = "invalidate"] /\ sid' = [sid EXCEPT ![c] = s] /\ Known(s)
    BY <1>5 DEF Invalidate, Begin
  <2> QED
    BY <1>2, <2>1, <2>2 DEF Ops
<1>6. ASSUME NEW c \in Calls, Work(c)
      PROVE  CalledOnceCreated'
  <2>1. op' = op /\ sid' = sid
    BY <1>6 DEF Work, CreateInRedis, CreateRow, GetHit, GetExpired, GetNothing,
      FindRow, Recache, FindRowLast, FindNothing, ExtendInRedis, ExtendRow,
      ExtendMissingRow, DeleteFromRedis, DeleteRow, DeleteRowFails, EndInvalidation
  <2>2. \E from, to \in Busy \cup {"ok", "none"} : Goto(c, from, to)
    BY <1>6 DEF Work, CreateInRedis, CreateRow, GetHit, GetExpired, GetNothing,
      FindRow, Recache, FindRowLast, FindNothing, ExtendInRedis, ExtendRow,
      ExtendMissingRow, DeleteFromRedis, DeleteRow, DeleteRowFails, EndInvalidation,
      Deliver, Extend, Busy, RedisSteps, DbSteps
  <2>3. \A d \in Calls : pc'[d] = "idle" => pc[d] = "idle"
    BY <2>2 DEF Goto, Busy, RedisSteps, DbSteps
  <2> QED
    BY <1>1, <2>1, <2>3
<1>7. ASSUME NEW c \in Calls, RedisRejects(c) \/ DbRejects(c)
      PROVE  CalledOnceCreated'
  BY <1>1, <1>7 DEF RedisRejects, DbRejects, AfterRedisError, AfterDbError
<1>8. ASSUME \/ \E s \in Sessions : Evict(s) \/ TimerFires(s)
             \/ CleanupRows \/ CleanupMemory
             \/ HealthChanges \/ Restart \/ Tick
             \/ UNCHANGED vars
      PROVE  CalledOnceCreated'
  BY <1>1, <1>8 DEF Evict, TimerFires, CleanupRows, CleanupMemory, HealthChanges,
    Restart, Tick, vars, locals, Busy, RedisSteps, DbSteps
<1> QED
  BY <1>3, <1>4, <1>5, <1>6, <1>7, <1>8 DEF Next, Arrive

\* A step of a call keeps every session calm that is still untroubled.
LEMMA WorkCalm ==
  ASSUME SessionInvariant, CalmInvariant, NEW c \in Calls, Work(c),
         NEW s \in Sessions \ (troubled' \cup bypassed')
  PROVE  CalmSession(s)'
<1> USE DEF SessionInvariant, TypeOK, BusyHasSession, MemoryOnlyInFallback, Times, Null,
      CalmInvariant, CalmSession, Position, Copies, Blank, Writing, Uncreated, InFlight,
      Healthy, InFallback, Busy, RedisSteps, DbSteps, Goto, Trouble, ChooseTier, SetEx, Del,
      redis, heap, table, locals, history
<1>0. sid[c] \in Sessions /\ \E d \in Calls : op[d] = "create" /\ sid[d] = sid[c]
  BY DEF Work, CreateInRedis, CreateRow, GetHit, GetExpired, GetNothing, FindRow, Recache,
    FindRowLast, FindNothing, ExtendInRedis, ExtendRow, ExtendMissingRow, DeleteFromRedis,
    DeleteRow, DeleteRowFails, EndInvalidation, Deliver, Extend, CalledOnceCreated
<1>1. CASE CreateInRedis(c)
  <2>1. CASE s = sid[c]
    BY <1>0, <1>1, <2>1 DEF CreateInRedis
  <2>2. CASE s # sid[c]
    BY <1>1, <2>2 DEF CreateInRedis
  <2> QED
    BY <2>1, <2>2
<1>2. CASE CreateRow(c)
  <2>1. CASE s = sid[c]
    BY <1>0, <1>2, <2>1 DEF CreateRow
  <2>2. CASE s # sid[c]
    BY <1>2, <2>2 DEF CreateRow
  <2> QED
    BY <2>1, <2>2
<1>3. CASE GetHit(c)
  BY <1>3 DEF GetHit, Deliver, Extend
<1>4. CASE GetExpired(c)
  BY <1>4 DEF GetExpired
<1>5. CASE GetNothing(c)
  BY <1>5 DEF GetNothing
<1>6. CASE FindRow(c)
  BY <1>6 DEF FindRow, Deliver, Extend, LiveRow
<1>7. CASE Recache(c)
  <2>1. CASE s = sid[c]
    BY <1>0, <1>7, <2>1 DEF Recache, Deliver, Extend
  <2>2. CASE s # sid[c]
    BY <1>7, <2>2 DEF Recache, Deliver, Extend
  <2> QED
    BY <2>1, <2>2
<1>8. CASE FindRowLast(c)
  BY <1>8 DEF FindRowLast, Deliver, Extend
<1>9. CASE FindNothing(c)
  BY <1>9 DEF FindNothing, LiveRow
<1>10. CASE ExtendInRedis(c)
  <2>1. CASE s = sid[c]
    BY <1>0, <1>10, <2>1 DEF ExtendInRedis
  <2>2. CASE s # sid[c]
    BY <1>10, <2>2 DEF ExtendInRedis
  <2> QED
    BY <2>1, <2>2
<1>11. CASE ExtendRow(c)
  BY <1>11 DEF ExtendRow
<1>12. CASE ExtendMissingRow(c)
  BY <1>12 DEF ExtendMissingRow
<1>13. CASE DeleteFromRedis(c)
  BY <1>13 DEF DeleteFromRedis, DropMemory
<1>14. CASE DeleteRow(c)
  <2>1. CASE s = sid[c]
    BY <1>0, <1>14, <2>1 DEF DeleteRow, EndInvalidation
  <2>2. CASE s # sid[c]
    BY <1>14, <2>2 DEF DeleteRow, EndInvalidation
  <2> QED
    BY <2>1, <2>2
<1>15. CASE DeleteRowFails(c)
  BY <1>15 DEF DeleteRowFails, EndInvalidation
<1> QED
  BY <1>1, <1>2, <1>3, <1>4, <1>5, <1>6, <1>7, <1>8, <1>9, <1>10, <1>11, <1>12, <1>13, <1>14, <1>15 DEF Work

\* A call that arrives either is the only one on its session or marks it as
\* troubled; one that goes past a copy in Redis marks it as bypassed.
LEMMA ArriveCalm ==
  ASSUME SessionInvariant, CalmInvariant, NEW c \in Calls, Arrive(c),
         NEW s \in Sessions \ (troubled' \cup bypassed')
  PROVE  CalmSession(s)'
<1> USE DEF SessionInvariant, TypeOK, BusyHasSession, MemoryOnlyInFallback, Times, Null,
      CalmInvariant, CalmSession, Position, Copies, Blank, Writing, Uncreated, InFlight,
      Healthy, InFallback, Busy, RedisSteps, DbSteps, Goto, Trouble, ChooseTier, SetEx, Del,
      redis, heap, table, locals, history
<1>1. ASSUME NEW t \in Sessions, Create(c, t)
      PROVE  CalmSession(s)'
  <2>1. CASE s = t
    BY <1>1, <2>1 DEF Create, Begin, CalledOnceCreated
  <2>2. CASE s # t
    BY <1>1, <2>2 DEF Create, Begin, CalledOnceCreated
  <2> QED
    BY <2>1, <2>2
<1>2. ASSUME NEW t \in Sessions, NEW f \in {"get", "refresh"}, Lookup(c, f, t)
      PROVE  CalmSession(s)'
  <2>1. CASE s = t
    BY <1>2, <2>1 DEF Lookup, Deliver, Extend, Overlap, Known
  <2>2. CASE s # t
    <3>1. /\ redisExpiry' = redisExpiry /\ memory'[s] = memory[s]
          /\ rows' = rows /\ rowExpiry' = rowExpiry /\ invalidated' = invalidated
          /\ now' = now
          /\ s \notin troubled /\ s \notin bypassed
      BY <1>2, <2>2 DEF Lookup, Deliver, Extend
    <3>2. \A d \in Calls \ {c} :
            pc'[d] = pc[d] /\ op'[d] = op[d] /\ sid'[d] = sid[d] /\ data'[d] = data[d]
      BY <1>2 DEF Lookup, Deliver, Extend
    <3>3. pc[c] = "idle" /\ op[c] = "none" /\ op'[c] # "create" /\ sid'[c] # s
      BY <1>2, <2>2 DEF Lookup, Deliver, Extend, CalledOnceCreated
    <3> QED
      BY <3>1, <3>2, <3>3
  <2> QED
    BY <2>1, <2>2
<1>3. ASSUME NEW t \in Sessions, Invalidate(c, t)
      PROVE  CalmSession(s)'
  <2>1. CASE s = t
    BY <1>3, <2>1 DEF Invalidate, Begin, DropMemory, Overlap, Known
  <2>2. CASE s # t
    BY <1>3, <2>2 DEF Invalidate, Begin, DropMemory, CalledOnceCreated
  <2> QED
    BY <2>1, <2>2
<1> QED
  BY <1>1, <1>2, <1>3 DEF Arrive

\* A failing command or statement troubles its session and no other.
LEMMA FailureCalm ==
  ASSUME SessionInvariant, CalmInvariant, NEW c \in Calls, RedisRejects(c) \/ DbRejects(c),
         NEW s \in Sessions \ (troubled' \cup bypassed')
  PROVE  CalmSession(s)'
<1> USE DEF SessionInvariant, TypeOK, BusyHasSession, MemoryOnlyInFallback, Times, Null,
      CalmInvariant, CalmSession, Position, Copies, Blank, Writing, Uncreated, InFlight,
      Healthy, InFallback, Busy, RedisSteps, DbSteps, Goto, Trouble, ChooseTier, SetEx, Del,
      redis, heap, table, locals, history
<1>1. CASE RedisRejects(c)
  BY <1>1 DEF RedisRejects, AfterRedisError
<1>2. CASE DbRejects(c)
  BY <1>2 DEF DbRejects, AfterDbError
<1> QED
  BY <1>1, <1>2

\* Expiry, eviction, cleanup and outages only ever remove copies and rows; a
\* restart troubles the sessions whose calls it ends.
LEMMA EnvironmentCalm ==
  ASSUME SessionInvariant, CalmInvariant,
         \/ \E t \in Sessions : Evict(t) \/ TimerFires(t)
         \/ CleanupRows \/ CleanupMemory
         \/ HealthChanges \/ Restart \/ Tick
         \/ UNCHANGED vars,
         NEW s \in Sessions \ (troubled' \cup bypassed')
  PROVE  CalmSession(s)'
<1> USE DEF SessionInvariant, TypeOK, BusyHasSession, MemoryOnlyInFallback, Times, Null,
      CalmInvariant, CalmSession, Position, Copies, Blank, Writing, Uncreated, InFlight,
      Healthy, InFallback, Busy, RedisSteps, DbSteps, Goto, Trouble, ChooseTier, SetEx, Del,
      redis, heap, table, locals, history
<1>1. ASSUME NEW t \in Sessions, Evict(t)
      PROVE  CalmSession(s)'
  BY <1>1 DEF Evict
<1>2. ASSUME NEW t \in Sessions, TimerFires(t)
      PROVE  CalmSession(s)'
  BY <1>2 DEF TimerFires
<1>3. CASE CleanupRows
  BY <1>3 DEF CleanupRows
<1>4. CASE CleanupMemory
  BY <1>4 DEF CleanupMemory
<1>5. CASE HealthChanges
  BY <1>5 DEF HealthChanges
<1>6. CASE Restart
  BY <1>6 DEF Restart
<1>7. CASE Tick
  BY <1>7 DEF Tick
<1>8. CASE UNCHANGED vars
  BY <1>8 DEF vars
<1> QED
  BY <1>1, <1>2, <1>3, <1>4, <1>5, <1>6, <1>7, <1>8

\* Nothing is stored initially and no call is in flight.
LEMMA InitCalm == Init => CalmInvariant
  BY SessionAssumption
  DEF Init, CalmInvariant, CalledOnceCreated, CalmSession, Copies, Blank, InFlight,
      Busy, RedisSteps, DbSteps, Null

\* While one call works on a session that is not troubled, the tiers are in the
\* relation that its position says.
THEOREM CalmInvariantHolds == Spec => []CalmInvariant
<1>1. SessionInvariant /\ CalmInvariant /\ [Next]_vars => CalmInvariant'
  <2> SUFFICES ASSUME SessionInvariant, CalmInvariant, [Next]_vars
               PROVE  CalmInvariant'
    OBVIOUS
  <2>1. CalledOnceCreated'
    BY CreatedBeforeCalled DEF SessionInvariant, CalmInvariant
  <2>2. ASSUME NEW s \in Sessions \ (troubled' \cup bypassed')
        PROVE  CalmSession(s)'
    BY <2>2, ArriveCalm, WorkCalm, FailureCalm, EnvironmentCalm DEF Next
  <2> QED
    BY <2>1, <2>2 DEF CalmInvariant
<1> QED
  BY <1>1, InitCalm, SessionInvariantHolds, PTL DEF Spec

\* createSession, getSession, refreshSession and invalidateSession: between
\* calls Redis, memory and the table agree on every session that met no
\* overlap, failure or bypass.
THEOREM TiersAgreeWhenCalmHolds == Spec => []TiersAgreeWhenCalm
<1>1. CalmInvariant => TiersAgreeWhenCalm
  BY DEF CalmInvariant, CalmSession, Copies, TiersAgreeWhenCalm
<1> QED
  BY <1>1, CalmInvariantHolds, PTL

=============================================================================
