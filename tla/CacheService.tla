---------------------------- MODULE CacheService ----------------------------
(***************************************************************************)
(* services/cacheService.ts: values with a life, in Redis or, in fallback  *)
(* mode, in a Map of the process.                                          *)
(*                                                                         *)
(* A call is a process; each of its steps is one Redis command with the    *)
(* local code that follows the await.  What isHealthy and isInFallbackMode *)
(* answer comes from RedisHealth.  Every error is swallowed, so a caller   *)
(* cannot tell a removal that failed from one that worked.  The value a    *)
(* set call stores is called like the call.                                *)
(*                                                                         *)
(* The permission and role helpers are these calls on keys of their own.   *)
(* Redis keeps what it holds while the process cannot reach it, and when   *)
(* the process restarts.                                                   *)
(***************************************************************************)
EXTENDS Integers, RedisHealth

CONSTANTS
  Keys,
  Calls,     \* calls of the service, each made once
  NoValue,
  Lives,     \* lifetimes callers ask for
  MaxTime    \* bound on the clock

ASSUME CacheAssumption ==
  /\ NoValue \notin Calls
  /\ Lives \subseteq Nat \ {0}
  /\ MaxTime \in Nat

VARIABLES
  now,        \* the clock of the process and of Redis
  redisVal,   \* the value under a key in Redis
  redisDies,  \* when that key expires
  memVal,     \* the value under a key in memoryCache
  memExp,     \* its expiresAt
  timers,     \* pending timeouts of set: key and time
  op,         \* op[c]: the function that call c runs
  pc,         \* pc[c]: the command it awaits
  target,     \* target[c]: the keys it names
  life,       \* life[c]: the lifetime it sets
  found,      \* found[c]: the keys that KEYS returned to it
  got,        \* got[c]: the value a reading call saw
  at,         \* history: when call c stored or saw its value
  older,      \* history: older[c]: values stored before removal c was called
  purged      \* history: values that a removal has reached

redis == <<redisVal, redisDies>>
memory == <<memVal, memExp, timers>>
arguments == <<op, target, life>>
vars == <<mode, now, redisVal, redisDies, memVal, memExp, timers, op, pc,
          target, life, found, got, at, older, purged>>

Values == Calls \cup {NoValue}
Reads == {"get", "exists", "ttl"}
Removals == {"del", "invalidate", "flush"}
Commands == {"read", "setex", "keys", "remove"}

TypeOK ==
  /\ mode \in Modes
  /\ now \in Nat
  /\ redisVal \in [Keys -> Values]
  /\ redisDies \in [Keys -> Nat]
  /\ memVal \in [Keys -> Values]
  /\ memExp \in [Keys -> Nat]
  /\ timers \subseteq Keys \X Nat
  /\ op \in [Calls -> {"none", "set"} \cup Reads \cup Removals]
  /\ pc \in [Calls -> Commands \cup {"idle", "done"}]
  /\ target \in [Calls -> SUBSET Keys]
  /\ life \in [Calls -> Nat]
  /\ found \in [Calls -> SUBSET Keys]
  /\ got \in [Calls -> Values]
  /\ at \in [Calls -> Nat]
  /\ older \in [Calls -> SUBSET Calls]
  /\ purged \subseteq Calls

Init ==
  /\ HealthInit
  /\ now = 0
  /\ redisVal = [k \in Keys |-> NoValue]
  /\ redisDies = [k \in Keys |-> 0]
  /\ memVal = [k \in Keys |-> NoValue]
  /\ memExp = [k \in Keys |-> 0]
  /\ timers = {}
  /\ op = [c \in Calls |-> "none"]
  /\ pc = [c \in Calls |-> "idle"]
  /\ target = [c \in Calls |-> {}]
  /\ life = [c \in Calls |-> 0]
  /\ found = [c \in Calls |-> {}]
  /\ got = [c \in Calls |-> NoValue]
  /\ at = [c \in Calls |-> 0]
  /\ older = [c \in Calls |-> {}]
  /\ purged = {}

-----------------------------------------------------------------------------
(* Vocabulary *)

Healthy == mode = "healthy"
InFallback == mode = "fallback"

\* Mutant: the comparison is the wrong way round.
ExpiredInverted(k) == memVal[k] # NoValue /\ memExp[k] > now

\* cached.expiresAt <= Date.now()
Expired(k) == memVal[k] # NoValue /\ memExp[k] <= now

Without(f, K) == [k \in Keys |-> IF k \in K THEN NoValue ELSE f[k]]

\* Values whose set call has returned, under the keys K.
Stored(K) == {v \in Calls : op[v] = "set" /\ pc[v] = "done" /\ target[v] \subseteq K}

Goto(c, from, to) ==
  /\ pc[c] = from
  /\ pc' = [pc EXCEPT ![c] = to]

\* Call c of function f arrives.
Begin(c, f, K, l, first) ==
  /\ Goto(c, "idle", first)
  /\ op' = [op EXCEPT ![c] = f]
  /\ target' = [target EXCEPT ![c] = K]
  /\ life' = [life EXCEPT ![c] = l]

See(c, v) ==
  /\ got' = [got EXCEPT ![c] = v]
  /\ at' = [at EXCEPT ![c] = now]

-----------------------------------------------------------------------------
(* get, exists, ttl *)

\* Mutant: an expired entry is removed, and served once more.
BeginReadExpired(c, f, k) ==
  /\ Begin(c, f, {k}, 0, IF Healthy THEN "read" ELSE "done")
  /\ IF InFallback THEN See(c, memVal[k]) ELSE UNCHANGED <<got, at>>
  /\ memVal' = IF InFallback /\ f = "get" /\ Expired(k) THEN Without(memVal, {k}) ELSE memVal
  /\ UNCHANGED <<mode, now, redis, memExp, timers, found, older, purged>>

\* Redis is asked, or memory in fallback mode, or nobody.  A get removes the
\* expired entry it meets.
BeginRead(c, f, k) ==
  /\ Begin(c, f, {k}, 0, IF Healthy THEN "read" ELSE "done")
  /\ IF InFallback
       THEN See(c, IF Expired(k) THEN NoValue ELSE memVal[k])
       ELSE UNCHANGED <<got, at>>
  /\ memVal' = IF InFallback /\ f = "get" /\ Expired(k) THEN Without(memVal, {k}) ELSE memVal
  /\ UNCHANGED <<mode, now, redis, memExp, timers, found, older, purged>>

ReadRedis(c) ==
  /\ Healthy
  /\ Goto(c, "read", "done")
  /\ \E k \in target[c] : See(c, redisVal[k])
  /\ UNCHANGED <<mode, now, redis, memory, arguments, found, older, purged>>

-----------------------------------------------------------------------------
(* set *)

SetMemory(c, k, l) ==
  /\ memVal' = [memVal EXCEPT ![k] = c]
  /\ memExp' = [memExp EXCEPT ![k] = now + l]
  /\ timers' = timers \cup {<<k, now + l>>}
  /\ at' = [at EXCEPT ![c] = now]

\* The memory is written in fallback mode only: while Redis is merely away
\* nothing is cached.
BeginSet(c, k, l) ==
  /\ Begin(c, "set", {k}, l, IF Healthy THEN "setex" ELSE "done")
  /\ IF InFallback THEN SetMemory(c, k, l) ELSE UNCHANGED <<memory, at>>
  /\ UNCHANGED <<mode, now, redis, found, got, older, purged>>

\* Mutant: the life is rounded up on its way to Redis.
SetRedisRoundingUp(c) ==
  /\ Healthy
  /\ Goto(c, "setex", "done")
  /\ redisVal' = [k \in Keys |-> IF k \in target[c] THEN c ELSE redisVal[k]]
  /\ redisDies' = [k \in Keys |-> IF k \in target[c] THEN now + life[c] + 1 ELSE redisDies[k]]
  /\ at' = [at EXCEPT ![c] = now]
  /\ UNCHANGED <<mode, now, memory, arguments, found, got, older, purged>>

\* SETEX is applied; its answer arrives or is lost, which makes no difference.
SetRedis(c) ==
  /\ Healthy
  /\ Goto(c, "setex", "done")
  /\ redisVal' = [k \in Keys |-> IF k \in target[c] THEN c ELSE redisVal[k]]
  /\ redisDies' = [k \in Keys |-> IF k \in target[c] THEN now + life[c] ELSE redisDies[k]]
  /\ at' = [at EXCEPT ![c] = now]
  /\ UNCHANGED <<mode, now, memory, arguments, found, got, older, purged>>

-----------------------------------------------------------------------------
(* del, invalidate, flush *)

\* Mutant: memory is cleared only after Redis was.
BeginRemoveKeepingMemory(c, f, K, L) ==
  /\ Begin(c, f, K, 0,
           IF ~Healthy THEN "done" ELSE IF f = "invalidate" THEN "keys" ELSE "remove")
  /\ older' = [older EXCEPT ![c] = Stored(K)]
  /\ IF Healthy
       THEN UNCHANGED <<memVal, purged>>
       ELSE /\ purged' = purged \cup {v \in Stored(K) : \A k \in K : redisVal[k] # v}
            /\ UNCHANGED memVal
  /\ UNCHANGED <<mode, now, redis, memExp, timers, found, got, at>>

\* The call names the keys K, and L in memory.  Without Redis only the memory
\* is cleared, and nothing remembers that Redis still holds the values.
BeginRemove(c, f, K, L) ==
  /\ Begin(c, f, K, 0,
           IF ~Healthy THEN "done" ELSE IF f = "invalidate" THEN "keys" ELSE "remove")
  /\ older' = [older EXCEPT ![c] = Stored(K)]
  /\ IF Healthy
       THEN UNCHANGED <<memVal, purged>>
       ELSE /\ memVal' = Without(memVal, L)
            /\ purged' = purged \cup {v \in Stored(K) : \A k \in K : redisVal[k] # v}
  /\ UNCHANGED <<mode, now, redis, memExp, timers, found, got, at>>

\* A removal by pattern first asks Redis for the keys.  The memory is left
\* alone, since Redis is healthy.
ScanKeys(c) ==
  LET present == {k \in target[c] : redisVal[k] # NoValue} IN
  /\ Healthy
  /\ Goto(c, "keys", IF present = {} THEN "done" ELSE "remove")
  /\ found' = [found EXCEPT ![c] = present]
  /\ purged' = IF present = {} THEN purged \cup older[c] ELSE purged
  /\ UNCHANGED <<mode, now, redis, memory, arguments, got, at, older>>

\* The keys that call c deletes in Redis.
Doomed(c) == IF op[c] = "invalidate" THEN found[c] ELSE target[c]

\* DEL or FLUSHDB is applied and acknowledged; del and flush clear the memory
\* as well.
RemoveRedis(c) ==
  /\ Healthy
  /\ Goto(c, "remove", "done")
  /\ redisVal' = Without(redisVal, Doomed(c))
  /\ memVal' = IF op[c] = "invalidate" THEN memVal ELSE Without(memVal, target[c])
  /\ purged' = purged \cup older[c]
  /\ UNCHANGED <<mode, now, redisDies, memExp, timers, arguments, found, got, at, older>>

\* It is applied, but the answer is lost: the catch skips the memory.
RemoveUnacknowledged(c) ==
  /\ Healthy
  /\ Goto(c, "remove", "done")
  /\ redisVal' = Without(redisVal, Doomed(c))
  /\ UNCHANGED <<mode, now, redisDies, memory, arguments, found, got, at, older, purged>>

\* A command is rejected without having been applied; the call returns all the
\* same.
CommandFails(c) ==
  /\ pc[c] \in Commands
  /\ pc' = [pc EXCEPT ![c] = "done"]
  /\ UNCHANGED <<mode, now, redis, memory, arguments, found, got, at, older, purged>>

-----------------------------------------------------------------------------
(* Timers, the clock, Redis and the process *)

\* The timeout that a set left behind: the key may have been set again since.
TimerFires(k, t) ==
  /\ <<k, t>> \in timers
  /\ t <= now
  /\ timers' = timers \ {<<k, t>>}
  /\ memVal' = IF Expired(k) THEN Without(memVal, {k}) ELSE memVal
  /\ UNCHANGED <<mode, now, redis, memExp, arguments, pc, found, got, at, older, purged>>

\* cleanupMemoryCache, every five minutes
Cleanup ==
  /\ \E k \in Keys : Expired(k)
  /\ memVal' = Without(memVal, {k \in Keys : Expired(k)})
  /\ UNCHANGED <<mode, now, redis, memExp, timers, arguments, pc, found, got, at,
                 older, purged>>

\* Time passes, and Redis forgets the keys that expire.
Tick ==
  /\ now < MaxTime
  /\ now' = now + 1
  /\ redisVal' = Without(redisVal, {k \in Keys : redisDies[k] <= now'})
  /\ UNCHANGED <<mode, redisDies, memory, arguments, pc, found, got, at, older, purged>>

\* Redis evicts a key (allkeys-lru).
Evict(k) ==
  /\ redisVal[k] # NoValue
  /\ redisVal' = Without(redisVal, {k})
  /\ UNCHANGED <<mode, now, redisDies, memory, arguments, pc, found, got, at, older, purged>>

Health ==
  /\ HealthNext
  /\ UNCHANGED <<now, redis, memory, arguments, pc, found, got, at, older, purged>>

\* The process is replaced: its memory, its timers and its calls are gone, and
\* it connects to Redis again.
Restart ==
  /\ mode # "unavailable"
  /\ mode' = "unavailable"
  /\ memVal' = Without(memVal, Keys)
  /\ timers' = {}
  /\ pc' = [c \in Calls |-> IF pc[c] \in Commands THEN "done" ELSE pc[c]]
  /\ UNCHANGED <<now, redis, memExp, arguments, found, got, at, older, purged>>

Arrive(c) ==
  \/ \E k \in Keys, f \in Reads : BeginRead(c, f, k)
  \/ \E k \in Keys, l \in Lives : BeginSet(c, k, l)
  \/ \E k \in Keys : BeginRemove(c, "del", {k}, {k})
  \* A pattern as RegExp matches at least what it matches as glob.
  \/ \E K \in SUBSET Keys, L \in SUBSET Keys :
       K \subseteq L /\ BeginRemove(c, "invalidate", K, L)
  \/ BeginRemove(c, "flush", Keys, Keys)

Work(c) ==
  \/ ReadRedis(c) \/ SetRedis(c) \/ ScanKeys(c)
  \/ RemoveRedis(c) \/ RemoveUnacknowledged(c) \/ CommandFails(c)

Timers == \E k \in Keys, t \in 0..now : TimerFires(k, t)

Next ==
  \/ \E c \in Calls : Arrive(c) \/ Work(c)
  \/ Timers \/ Cleanup \/ Tick \/ Health \/ Restart
  \/ \E k \in Keys : Evict(k)

Spec == Init /\ [][Next]_vars

\* Timeouts fire.  The interval of startCleanupScheduler is not counted on.
FairSpec == Spec /\ WF_vars(Timers)

-----------------------------------------------------------------------------
(* Properties *)

\* No reading call sees a value once the life it was stored with is over,
\* whichever tier answers and whatever timers and cleanups have run.
ServedWithinLife ==
  \A c \in Calls : LET v == got[c] IN
    v # NoValue => at[c] < at[v] + life[v]

\* A value that a removal has reached is gone from both tiers for good: no
\* outage, restart, timer or overlapping call brings it back.
PurgedStaysOut ==
  \A v \in purged, k \in Keys : redisVal[k] # v /\ memVal[k] # v

\* Memory does not fill up with expired entries: the timeout of its last set
\* removes each, even after earlier timeouts of the key found it renewed.
ExpiredEntriesGo ==
  \A k \in Keys : Expired(k) ~> ~Expired(k)

-----------------------------------------------------------------------------
(* The two tiers as one cache *)

\* The entries of both tiers, but for those of memory that no read serves.
InRedis == {k \in Keys : redisVal[k] # NoValue}
InMemory == {k \in Keys : memVal[k] # NoValue /\ ~Expired(k)}
Kept ==
  {<<k, redisVal[k], redisDies[k]>> : k \in InRedis}
    \cup {<<k, memVal[k], memExp[k]>> : k \in InMemory}

Cache == INSTANCE LossyCache WITH
  kept <- Kept,
  over <- {c \in Calls : pc[c] = "done"}

\* Behind the tiers, timers and swallowed errors there is one cache: a value is
\* in once, for its own key and life, and no read sees one that is out.
ImplementsLossyCache == Cache!Spec

-----------------------------------------------------------------------------
(* Why the safety properties hold: an inductive invariant, in parts *)

\* What a tier holds was put there by a set call for that key, which will not
\* write again.
ValuesWereSet ==
  \A k \in Keys, v \in Calls :
    redisVal[k] = v \/ memVal[k] = v => op[v] = "set" /\ pc[v] = "done" /\ k \in target[v]

\* A call runs one function, and a reading call has no value before it is done.
CallsInOrder ==
  \A c \in Calls :
    /\ op[c] = "none" <=> pc[c] = "idle"
    /\ pc[c] = "read" => op[c] \in Reads
    /\ pc[c] = "setex" => op[c] = "set"
    /\ pc[c] \in {"keys", "remove"} => op[c] \in Removals
    /\ got[c] # NoValue => op[c] \in Reads /\ pc[c] = "done"

\* A call that sets or reads is about one key.
ArgumentsFit ==
  \A c \in Calls :
    /\ op[c] = "none" => target[c] = {} /\ life[c] = 0
    /\ op[c] = "set" => life[c] \in Lives /\ \E k \in Keys : target[c] = {k}
    /\ op[c] \in Reads => life[c] = 0 /\ \E k \in Keys : target[c] = {k}
    /\ op[c] \in Removals => life[c] = 0

\* Entries carry the expiry that their set call asked for.
LivesAreKept ==
  /\ \A k \in Keys : redisVal[k] # NoValue =>
       now < redisDies[k] /\ redisDies[k] = at[redisVal[k]] + life[redisVal[k]]
  /\ \A k \in Keys : memVal[k] # NoValue =>
       memExp[k] = at[memVal[k]] + life[memVal[k]]
  /\ \A c \in Calls : got[c] # NoValue => op[got[c]] = "set" /\ pc[got[c]] = "done"

\* The process caches in its memory only in fallback mode, which it leaves
\* only by a restart.
MemoryOnlyInFallback == \A k \in Keys : memVal[k] # NoValue => InFallback

\* A removal that reaches Redis deletes every older value there.
OlderAreDoomed ==
  \A c \in Calls : pc[c] \in {"keys", "remove"} => \A v \in older[c] :
    /\ op[v] = "set" /\ pc[v] = "done" /\ target[v] \subseteq target[c]
    /\ pc[c] = "remove" => \A k \in Keys : redisVal[k] = v => k \in Doomed(c)

PurgedWasSet == \A v \in purged : op[v] = "set" /\ pc[v] = "done"

CacheInvariant ==
  /\ TypeOK
  /\ CallsInOrder
  /\ ArgumentsFit
  /\ ValuesWereSet
  /\ LivesAreKept
  /\ MemoryOnlyInFallback
  /\ OlderAreDoomed
  /\ PurgedWasSet
  /\ PurgedStaysOut
  /\ ServedWithinLife

=============================================================================
