--------------------------- MODULE SessionService ---------------------------
(***************************************************************************)
(* services/sessionService.ts: sessions in three tiers, Redis, the memory  *)
(* of the process (in fallback mode) and the Session table.                *)
(*                                                                         *)
(* An operation is a process; each of its steps is one Redis command or    *)
(* database statement with the local code that follows the await.  What    *)
(* isHealthy and isInFallbackMode answer comes from RedisHealth, which     *)
(* RedisManager implements.  Of a session only its expiry is kept: it is   *)
(* the only field that ever changes.                                       *)
(***************************************************************************)
EXTENDS Integers, RedisHealth

CONSTANTS
  Sessions,   \* session ids
  Calls,      \* calls of the service, each made once
  NoSession,
  TTL,        \* SESSION_TTL, 24 hours
  MaxTime     \* bound on the clock

ASSUME SessionAssumption ==
  /\ NoSession \notin Sessions
  /\ TTL \in Nat \ {0}
  /\ MaxTime \in Nat

VARIABLES
  now,          \* the clock of process, Redis and database
  redisExpiry,  \* expiresAt in the value of a session's key; Null: no key
  redisDies,    \* when the key itself expires
  memory,       \* expiresAt in memoryStore; Null: no entry
  timer,        \* when the setTimeout of createSession fires
  rows,         \* sessions with a row in the table
  rowExpiry,    \* column expiresAt; keeps its last value once the row is gone
  op,           \* op[c]: the function that call c runs
  pc,           \* pc[c]: the command or statement it awaits
  sid,          \* sid[c]: its session
  data,         \* data[c]: the expiry it holds in a local variable
  ttl,          \* ttl[c]: the time to live it computed for its SETEX
  cleaner,      \* where the scheduled cleanup is
  invalidated,  \* history: sessions some invalidateSession finished for
  asked,        \* history: sessions some invalidateSession was called for
  troubled,     \* history: sessions that met overlapping calls or a failure
  bypassed      \* history: sessions changed past a copy in an absent Redis

redis == <<redisExpiry, redisDies>>
heap == <<memory, timer>>
table == <<rows, rowExpiry>>
locals == <<op, pc, sid, data, ttl>>
history == <<invalidated, asked, troubled, bypassed>>
vars == <<mode, now, redisExpiry, redisDies, memory, timer, rows, rowExpiry,
          op, pc, sid, data, ttl, cleaner, invalidated, asked, troubled,
          bypassed>>

Null == -1
Times == Nat \cup {Null}

Ops == {"none", "create", "get", "refresh", "invalidate"}
RedisSteps == {"c_setex", "g_get", "g_recache", "f_setex", "i_del"}
DbSteps == {"c_row", "g_row", "g_last", "f_row", "i_row"}
Busy == RedisSteps \cup DbSteps

TypeOK ==
  /\ mode \in Modes
  /\ now \in Nat
  /\ redisExpiry \in [Sessions -> Times]
  /\ redisDies \in [Sessions -> Times]
  /\ memory \in [Sessions -> Times]
  /\ timer \in [Sessions -> Times]
  /\ rows \subseteq Sessions
  /\ rowExpiry \in [Sessions -> Times]
  /\ op \in [Calls -> Ops]
  /\ pc \in [Calls -> Busy \cup {"idle", "ok", "none", "failed"}]
  /\ sid \in [Calls -> Sessions \cup {NoSession}]
  /\ data \in [Calls -> Times]
  /\ ttl \in [Calls -> Nat]
  /\ cleaner \in {"idle", "memory"}
  /\ invalidated \subseteq Sessions
  /\ asked \subseteq Sessions
  /\ troubled \subseteq Sessions
  /\ bypassed \subseteq Sessions

Init ==
  /\ HealthInit
  /\ now = 0
  /\ redisExpiry = [s \in Sessions |-> Null]
  /\ redisDies = [s \in Sessions |-> Null]
  /\ memory = [s \in Sessions |-> Null]
  /\ timer = [s \in Sessions |-> Null]
  /\ rows = {}
  /\ rowExpiry = [s \in Sessions |-> Null]
  /\ op = [c \in Calls |-> "none"]
  /\ pc = [c \in Calls |-> "idle"]
  /\ sid = [c \in Calls |-> NoSession]
  /\ data = [c \in Calls |-> Null]
  /\ ttl = [c \in Calls |-> 0]
  /\ cleaner = "idle"
  /\ invalidated = {}
  /\ asked = {}
  /\ troubled = {}
  /\ bypassed = {}

-----------------------------------------------------------------------------
(* Vocabulary *)

Healthy == mode = "healthy"
InFallback == mode = "fallback"

InFlight(s) == \E c \in Calls : pc[c] \in Busy /\ sid[c] = s

\* Ids are random: a session is created once, and known to its client once the
\* creation has returned.
Uncreated(s) == \A c \in Calls : op[c] = "create" => sid[c] # s
Known(s) == \E c \in Calls : op[c] = "create" /\ sid[c] = s /\ pc[c] = "ok"

Goto(c, from, to) ==
  /\ pc[c] = from
  /\ pc' = [pc EXCEPT ![c] = to]

Trouble(S) == troubled' = troubled \cup S

\* A writer of s looks whether to write through Redis: it goes past Redis even
\* when Redis holds a copy that it would change.
ChooseTier(s) ==
  bypassed' = IF ~Healthy /\ redisExpiry[s] # Null THEN bypassed \cup {s} ELSE bypassed

SetEx(s, expiry, life) ==
  /\ redisExpiry' = [redisExpiry EXCEPT ![s] = expiry]
  /\ redisDies' = [redisDies EXCEPT ![s] = now + life]

Del(s) ==
  /\ redisExpiry' = [redisExpiry EXCEPT ![s] = Null]
  /\ redisDies' = [redisDies EXCEPT ![s] = Null]

\* Call c of function f on session s arrives and stops at its first await.
Begin(c, f, s, first) ==
  /\ Goto(c, "idle", first)
  /\ op' = [op EXCEPT ![c] = f]
  /\ sid' = [sid EXCEPT ![c] = s]

Overlap(s) == IF InFlight(s) THEN {s} ELSE {}

-----------------------------------------------------------------------------
(* createSession *)

Create(c, s) ==
  /\ Uncreated(s)
  /\ Begin(c, "create", s, IF Healthy THEN "c_setex" ELSE "c_row")
  /\ data' = [data EXCEPT ![c] = now + TTL]
  /\ IF InFallback
       THEN /\ memory' = [memory EXCEPT ![s] = now + TTL]
            /\ timer' = [timer EXCEPT ![s] = now + TTL]
       ELSE UNCHANGED heap
  /\ UNCHANGED <<mode, now, redis, table, ttl, cleaner, history>>

CreateInRedis(c) ==
  /\ Healthy
  /\ Goto(c, "c_setex", "c_row")
  /\ SetEx(sid[c], data[c], TTL)
  /\ UNCHANGED <<mode, now, heap, table, op, sid, data, ttl, cleaner, history>>

CreateRow(c) ==
  /\ Goto(c, "c_row", "ok")
  /\ rows' = rows \cup {sid[c]}
  /\ rowExpiry' = [rowExpiry EXCEPT ![sid[c]] = data[c]]
  /\ UNCHANGED <<mode, now, redis, heap, op, sid, data, ttl, cleaner, history>>

-----------------------------------------------------------------------------
(* getSession, alone or as the first half of refreshSession *)

\* Mutant: the memory store is written whenever Redis is not healthy.
ExtendInMemory(c, s, from) ==
  /\ Goto(c, from, IF Healthy THEN "f_setex" ELSE "f_row")
  /\ data' = [data EXCEPT ![c] = now + TTL]
  /\ memory' = IF ~Healthy THEN [memory EXCEPT ![s] = now + TTL] ELSE memory
  /\ ChooseTier(s)

\* refreshSession goes on with the session it got, up to its next await.
Extend(c, s, from) ==
  /\ Goto(c, from, IF Healthy THEN "f_setex" ELSE "f_row")
  /\ data' = [data EXCEPT ![c] = now + TTL]
  /\ memory' = IF InFallback THEN [memory EXCEPT ![s] = now + TTL] ELSE memory
  /\ ChooseTier(s)

\* getSession has the session and returns it to the caller of function f.
Deliver(c, f, s, from) ==
  \/ f = "refresh" /\ Extend(c, s, from)
  \/ f = "get" /\ Goto(c, from, "ok") /\ UNCHANGED <<data, memory, bypassed>>

Lookup(c, f, s) ==
  /\ Known(s)
  /\ op' = [op EXCEPT ![c] = f]
  /\ sid' = [sid EXCEPT ![c] = s]
  /\ IF InFallback /\ memory[s] > now
       THEN Deliver(c, f, s, "idle")
       ELSE /\ Goto(c, "idle", IF Healthy THEN "g_get" ELSE "g_row")
            /\ UNCHANGED <<data, memory, bypassed>>
  /\ Trouble(Overlap(s))
  /\ UNCHANGED <<mode, now, redis, timer, table, ttl, cleaner, invalidated, asked>>

\* Redis answers with a copy, expired or not, or with nothing.
GetHit(c) ==
  /\ Healthy
  /\ Deliver(c, op[c], sid[c], "g_get")
  /\ redisExpiry[sid[c]] > now
  /\ UNCHANGED <<mode, now, redis, timer, table, op, sid, ttl, cleaner,
                 invalidated, asked, troubled>>

GetExpired(c) ==
  /\ Healthy
  /\ Goto(c, "g_get", "i_del")
  /\ redisExpiry[sid[c]] # Null /\ redisExpiry[sid[c]] <= now
  /\ UNCHANGED <<mode, now, redis, heap, table, op, sid, data, ttl, cleaner,
                 history>>

GetNothing(c) ==
  /\ Healthy
  /\ Goto(c, "g_get", "g_row")
  /\ redisExpiry[sid[c]] = Null
  /\ UNCHANGED <<mode, now, redis, heap, table, op, sid, data, ttl, cleaner,
                 history>>

LiveRow(s) == s \in rows /\ rowExpiry[s] > now

LifeLeft(s) == rowExpiry[s] - now

\* The database has the session.  It goes through Redis if Redis is healthy and
\* a whole second of its life is left (the last unit may be shorter).
FindRow(c) ==
  /\ \/ /\ Healthy
        /\ Goto(c, "g_row", "g_recache")
        /\ data' = [data EXCEPT ![c] = rowExpiry[sid[c]]]
        /\ ttl' = [ttl EXCEPT ![c] = LifeLeft(sid[c])]
        /\ UNCHANGED <<memory, bypassed>>
     \/ /\ Deliver(c, op[c], sid[c], "g_row")
        /\ Healthy => LifeLeft(sid[c]) = 1
        /\ UNCHANGED ttl
  /\ LiveRow(sid[c])
  /\ UNCHANGED <<mode, now, redis, timer, table, op, sid, cleaner, invalidated,
                 asked, troubled>>

Recache(c) ==
  /\ Healthy
  /\ Deliver(c, op[c], sid[c], "g_recache")
  /\ SetEx(sid[c], data[c], ttl[c])
  /\ UNCHANGED <<mode, now, timer, table, op, sid, ttl, cleaner, invalidated,
                 asked, troubled>>

\* The catch block of getSession reads the database once more.
FindRowLast(c) ==
  /\ Deliver(c, op[c], sid[c], "g_last")
  /\ LiveRow(sid[c])
  /\ UNCHANGED <<mode, now, redis, timer, table, op, sid, ttl, cleaner,
                 invalidated, asked, troubled>>

\* No row, or an expired one: null, and refreshSession answers false.
FindNothing(c) ==
  /\ \/ Goto(c, "g_row", "none")
     \/ Goto(c, "g_last", "none")
  /\ ~LiveRow(sid[c])
  /\ UNCHANGED <<mode, now, redis, heap, table, op, sid, data, ttl, cleaner,
                 history>>

-----------------------------------------------------------------------------
(* The second half of refreshSession, from its first await *)

ExtendInRedis(c) ==
  /\ Healthy
  /\ Goto(c, "f_setex", "f_row")
  /\ SetEx(sid[c], data[c], TTL)
  /\ UNCHANGED <<mode, now, heap, table, op, sid, data, ttl, cleaner, history>>

ExtendRow(c) ==
  /\ Goto(c, "f_row", "ok")
  /\ sid[c] \in rows
  /\ rowExpiry' = [rowExpiry EXCEPT ![sid[c]] = data[c]]
  /\ UNCHANGED <<mode, now, redis, heap, rows, op, sid, data, ttl, cleaner,
                 history>>

\* The update throws: refreshSession answers false, but the copy in Redis or in
\* memory is already extended.
ExtendMissingRow(c) ==
  /\ Goto(c, "f_row", "none")
  /\ sid[c] \notin rows
  /\ Trouble({sid[c]})
  /\ UNCHANGED <<mode, now, redis, heap, table, op, sid, data, ttl, cleaner,
                 invalidated, asked, bypassed>>

-----------------------------------------------------------------------------
(* invalidateSession, called by a client or by getSession on an expired copy *)

\* Between the Redis command and the database statement, synchronously.
DropMemory(s) == memory' = IF InFallback THEN [memory EXCEPT ![s] = Null] ELSE memory

Invalidate(c, s) ==
  /\ Known(s)
  /\ Begin(c, "invalidate", s, IF Healthy THEN "i_del" ELSE "i_row")
  /\ IF Healthy THEN UNCHANGED memory ELSE DropMemory(s)
  /\ asked' = asked \cup {s}
  /\ Trouble(Overlap(s))
  /\ ChooseTier(s)
  /\ UNCHANGED <<mode, now, redis, timer, table, data, ttl, cleaner, invalidated>>

\* Mutant: the copy in Redis is left to expire by itself.
DeleteFromRedisLater(c) ==
  /\ Healthy
  /\ Goto(c, "i_del", "i_row")
  /\ DropMemory(sid[c])
  /\ UNCHANGED <<mode, now, redis, timer, table, op, sid, data, ttl, cleaner,
                 history>>

DeleteFromRedis(c) ==
  /\ Healthy
  /\ Goto(c, "i_del", "i_row")
  /\ Del(sid[c])
  /\ DropMemory(sid[c])
  /\ UNCHANGED <<mode, now, timer, table, op, sid, data, ttl, cleaner, history>>

\* What follows the database statement, whether or not it succeeded.
EndInvalidation(c) ==
  /\ Goto(c, "i_row", IF op[c] = "invalidate" THEN "ok" ELSE "none")
  /\ invalidated' = IF op[c] = "invalidate" THEN invalidated \cup {sid[c]}
                                            ELSE invalidated
  /\ UNCHANGED <<mode, now, redis, heap, rowExpiry, op, sid, data, ttl, cleaner,
                 asked, bypassed>>

DeleteRow(c) ==
  /\ EndInvalidation(c)
  /\ rows' = rows \ {sid[c]}
  /\ UNCHANGED troubled

\* .catch(() => {}) swallows every error of the deletion.
DeleteRowFails(c) ==
  /\ EndInvalidation(c)
  /\ Trouble({sid[c]})
  /\ UNCHANGED rows

-----------------------------------------------------------------------------
(* Failures *)

\* Where a call goes whose Redis command rejects.
AfterRedisError(c) ==
  CASE pc[c] = "c_setex"                            -> "failed"
    [] pc[c] = "f_setex"                            -> "none"
    [] pc[c] = "i_del" /\ op[c] = "invalidate"      -> "failed"
    [] OTHER                                        -> "g_last"

\* A command rejects when the connection breaks under it, applied or not.
RedisRejects(c) ==
  /\ pc[c] \in RedisSteps
  /\ pc' = [pc EXCEPT ![c] = AfterRedisError(c)]
  /\ Trouble({sid[c]})
  /\ \/ UNCHANGED redis
     \/ pc[c] = "g_recache" /\ SetEx(sid[c], data[c], ttl[c])
     \/ pc[c] \in {"c_setex", "f_setex"} /\ SetEx(sid[c], data[c], TTL)
     \/ pc[c] = "i_del" /\ Del(sid[c])
  /\ UNCHANGED <<mode, now, heap, table, op, sid, data, ttl, cleaner, invalidated,
                 asked, bypassed>>

AfterDbError(c) ==
  CASE pc[c] = "c_row" -> "failed"
    [] pc[c] = "g_row" -> "g_last"
    [] OTHER           -> "none"

\* A statement rejects, or its acknowledgement is lost (the deletion of
\* invalidateSession: DeleteRowFails).
DbRejects(c) ==
  /\ pc[c] \in DbSteps \ {"i_row"}
  /\ pc' = [pc EXCEPT ![c] = AfterDbError(c)]
  /\ Trouble({sid[c]})
  /\ \/ UNCHANGED table
     \/ /\ \/ pc[c] = "c_row"
           \/ pc[c] = "f_row" /\ sid[c] \in rows
        /\ rows' = rows \cup {sid[c]}
        /\ rowExpiry' = [rowExpiry EXCEPT ![sid[c]] = data[c]]
  /\ UNCHANGED <<mode, now, redis, heap, op, sid, data, ttl, cleaner, invalidated,
                 asked, bypassed>>

\* The process restarts: memory, timers and calls are gone.
Restart ==
  /\ mode' = "unavailable"
  /\ memory' = [s \in Sessions |-> Null]
  /\ timer' = [s \in Sessions |-> Null]
  /\ pc' = [c \in Calls |-> IF pc[c] \in Busy THEN "failed" ELSE pc[c]]
  /\ cleaner' = "idle"
  /\ Trouble({s \in Sessions : InFlight(s)})
  /\ UNCHANGED <<now, redis, table, op, sid, data, ttl, invalidated, asked,
                 bypassed>>

-----------------------------------------------------------------------------
(* Expiry: Redis, the timers and the hourly cleanup *)

\* The whole store: a key whose life is over disappears by itself.
Tick ==
  /\ now < MaxTime
  /\ now' = now + 1
  /\ redisExpiry' = [s \in Sessions |->
                       IF redisDies[s] <= now' THEN Null ELSE redisExpiry[s]]
  /\ redisDies' = [s \in Sessions |->
                     IF redisDies[s] <= now' THEN Null ELSE redisDies[s]]
  /\ UNCHANGED <<mode, heap, table, locals, cleaner, history>>

\* maxmemory-policy allkeys-lru.
Evict(s) ==
  /\ redisExpiry[s] # Null
  /\ Del(s)
  /\ UNCHANGED <<mode, now, heap, table, locals, cleaner, history>>

TimerFires(s) ==
  /\ timer[s] # Null /\ timer[s] <= now
  /\ timer' = [timer EXCEPT ![s] = Null]
  /\ memory' = [memory EXCEPT ![s] = Null]
  /\ UNCHANGED <<mode, now, redis, table, locals, cleaner, history>>

\* cleanupExpiredSessions: first the table; an error ends the run ...
CleanupRows ==
  /\ cleaner = "idle"
  /\ rows' = {s \in rows : ~(rowExpiry[s] < now)}
  /\ cleaner' \in {"memory", "idle"}
  /\ UNCHANGED <<mode, now, redis, heap, rowExpiry, locals, history>>

\* ... then, in fallback mode, the memory store.
CleanupMemory ==
  /\ cleaner = "memory"
  /\ cleaner' = "idle"
  /\ memory' = [s \in Sessions |->
                  IF InFallback /\ memory[s] < now THEN Null ELSE memory[s]]
  /\ UNCHANGED <<mode, now, redis, timer, table, locals, history>>

HealthChanges ==
  /\ HealthNext
  /\ UNCHANGED <<now, redis, heap, table, locals, cleaner, history>>

-----------------------------------------------------------------------------

Arrive(c) ==
  \E s \in Sessions :
    \/ Create(c, s)
    \/ Lookup(c, "get", s) \/ Lookup(c, "refresh", s)
    \/ Invalidate(c, s)

Work(c) ==
  \/ CreateInRedis(c) \/ CreateRow(c)
  \/ GetHit(c) \/ GetExpired(c) \/ GetNothing(c)
  \/ FindRow(c) \/ Recache(c) \/ FindRowLast(c) \/ FindNothing(c)
  \/ ExtendInRedis(c) \/ ExtendRow(c) \/ ExtendMissingRow(c)
  \/ DeleteFromRedis(c) \/ DeleteRow(c) \/ DeleteRowFails(c)

Next ==
  \/ \E c \in Calls : Arrive(c) \/ Work(c) \/ RedisRejects(c) \/ DbRejects(c)
  \/ \E s \in Sessions : Evict(s) \/ TimerFires(s)
  \/ CleanupRows \/ CleanupMemory
  \/ HealthChanges \/ Restart \/ Tick

Spec == Init /\ [][Next]_vars

-----------------------------------------------------------------------------
(* Properties *)

\* The two volatile stores are never both in use: process memory holds a
\* session only in fallback mode, so that a copy in memory can never disagree
\* with one that Redis still serves.
MemoryOnlyInFallback ==
  \A s \in Sessions : memory[s] # Null => InFallback

\* Between calls the tiers agree on every session that met no overlapping
\* calls, no failing command or statement and no writer that had to go past
\* Redis: a copy carries the expiry of the row, an invalidated session is nowhere,
\* and one that is neither invalidated nor expired has its row, whichever timer,
\* eviction or cleanup took the copies.
TiersAgreeWhenCalm ==
  \A s \in Sessions \ (troubled \cup bypassed) : ~InFlight(s) =>
    /\ redisExpiry[s] # Null => redisExpiry[s] = rowExpiry[s]
    /\ memory[s] # Null => memory[s] = rowExpiry[s]
    /\ s \in invalidated =>
         s \notin rows /\ redisExpiry[s] = Null /\ memory[s] = Null
    /\ s \notin invalidated /\ rowExpiry[s] > now => s \in rows

\* REDIS_ARCHITECTURE.md: multi-layer synchronization ensures data integrity.
\* It does not, even for calls that neither overlap nor fail: a session
\* invalidated while Redis is away is served again when Redis is back.
InvalidatedStaysInvalid ==
  \A s \in invalidated \ troubled : ~InFlight(s) => redisExpiry[s] = Null

\* The same claim, the other way round: an unexpired session that nobody
\* invalidated keeps its row.  The old copy of a session that was refreshed
\* while Redis was away expires, and getSession then deletes the session.
UninvalidatedSessionKept ==
  \A s \in Sessions \ (asked \cup troubled) :
    Known(s) /\ rowExpiry[s] > now => s \in rows

-----------------------------------------------------------------------------
(* Why the safety properties hold: an inductive invariant, in parts *)

\* A call in flight works on a session.
BusyHasSession == \A c \in Calls : pc[c] \in Busy => sid[c] \in Sessions

\* A session that no createSession was called for has no call at all.
CalledOnceCreated ==
  \A c \in Calls :
    /\ pc[c] = "idle" => op[c] = "none"
    /\ sid[c] \in Sessions => \E d \in Calls : op[d] = "create" /\ sid[d] = sid[c]

SessionInvariant ==
  /\ TypeOK
  /\ BusyHasSession
  /\ MemoryOnlyInFallback

\* Nothing is stored of a session before its creation.
Blank(s) ==
  redisExpiry[s] = Null /\ memory[s] = Null /\ s \notin rows /\ s \notin invalidated

\* The copies of s, if there are any, carry the expiry e.
Copies(s, e) == redisExpiry[s] \in {Null, e} /\ memory[s] \in {Null, e}

\* Calls that have still to write their expiry into the row.
Writing == {"c_row", "f_row"}

\* What the tiers hold of s while call c on it is in flight.
Position(c, s) ==
  /\ pc[c] # "g_last"
  /\ pc[c] \in Writing => Copies(s, data[c])
  /\ pc[c] \notin Writing => Copies(s, rowExpiry[s])
  /\ pc[c] = "c_setex" => redisExpiry[s] = Null
  /\ pc[c] = "g_recache" => data[c] = rowExpiry[s]
  /\ pc[c] = "i_row" => redisExpiry[s] = Null
  /\ pc[c] \in {"i_del", "i_row"} /\ op[c] # "invalidate" => rowExpiry[s] <= now
  /\ pc[c] \in {"c_setex", "g_recache", "f_setex", "i_del", "i_row"} => memory[s] = Null
  /\ pc[c] \in {"c_setex", "c_row", "g_recache", "f_setex", "f_row"} => s \notin invalidated

\* Of a session that met no overlap, failure or bypass.
CalmSession(s) ==
  /\ \A c, d \in Calls :
       pc[c] \in Busy /\ pc[d] \in Busy /\ sid[c] = s /\ sid[d] = s => c = d
  /\ \A c \in Calls : pc[c] \in Busy /\ sid[c] = s => Position(c, s)
  /\ ~InFlight(s) => Copies(s, rowExpiry[s])
  /\ Uncreated(s) => Blank(s)
  /\ s \in invalidated => s \notin rows /\ redisExpiry[s] = Null /\ memory[s] = Null
  /\ s \notin invalidated /\ rowExpiry[s] > now => s \in rows

\* The tiers agree between calls because each step of the one call in flight
\* leaves them in a known relation.
CalmInvariant ==
  /\ CalledOnceCreated
  /\ \A s \in Sessions \ (troubled \cup bypassed) : CalmSession(s)

=============================================================================
