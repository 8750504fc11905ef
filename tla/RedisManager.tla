---------------------------- MODULE RedisManager ----------------------------
(***************************************************************************)
(* The connection manager of config/redisManager.ts and, as its            *)
(* environment, the socket loop of node-redis 4 (RedisSocket of            *)
(* @redis/client 1.6) and the Redis server.                                *)
(*                                                                         *)
(* The socket loop opens the connection, emits 'connect', runs the         *)
(* handshake and emits 'ready'; when an attempt fails it asks the          *)
(* reconnection strategy, emits 'error', sleeps and tries again, until the *)
(* strategy answers with an Error: the loop then ends for good, although   *)
(* the client still counts as open.                                        *)
(***************************************************************************)
EXTENDS Integers

CONSTANTS
  MaxRetries    \* 10 in reconnectStrategy

ASSUME ManagerAssumption == MaxRetries \in Nat

VARIABLES
  server,             \* the Redis server: "up", "loading" or "down"
  socket,             \* where the socket loop is
  open,               \* isOpen of the client: connect() was called, and not quit()
  retries,            \* the loop's attempt counter
  call,               \* the call of connect() at startup
  isConnected,
  reconnectAttempts,
  fallbackMode,
  failures            \* history: attempts that failed in a row

flags == <<isConnected, reconnectAttempts, fallbackMode>>
vars == <<server, socket, open, retries, call, isConnected,
          reconnectAttempts, fallbackMode, failures>>

ServerStates == {"up", "loading", "down"}

\* closed: never opened, or quit and done.  waiting: asleep between two attempts.
\* dead: the strategy returned an Error; the client is open without a socket.
SocketStates == {"closed", "connecting", "handshake", "ready", "waiting", "dead"}

TypeOK ==
  /\ server \in ServerStates
  /\ socket \in SocketStates
  /\ open \in BOOLEAN
  /\ retries \in 0 .. MaxRetries + 2
  /\ call \in {"none", "pending", "resolved", "rejected"}
  /\ isConnected \in BOOLEAN
  /\ reconnectAttempts \in 0 .. MaxRetries + 1
  /\ fallbackMode \in BOOLEAN
  /\ failures \in Nat

Init ==
  /\ server \in ServerStates
  /\ socket = "closed"
  /\ open = FALSE
  /\ retries = 0
  /\ call = "none"
  /\ isConnected = FALSE
  /\ reconnectAttempts = 0
  /\ fallbackMode = FALSE
  /\ failures = 0

-----------------------------------------------------------------------------

\* isHealthy; client.isReady is that of the socket.
Healthy == isConnected /\ socket = "ready"

\* reconnectStrategy answers with an Error, not with a delay.
GivesUp(n) == n > MaxRetries

\* The startup code calls connect() once; client.connect() opens the socket.
Connect ==
  /\ call = "none"
  /\ call' = "pending"
  /\ socket' = "connecting"
  /\ open' = TRUE
  /\ retries' = 0
  /\ failures' = 0
  /\ UNCHANGED <<server, flags>>

\* 'connect'
SocketOpened ==
  /\ socket = "connecting"
  /\ server # "down"
  /\ socket' = "handshake"
  /\ isConnected' = TRUE
  /\ reconnectAttempts' = 0
  /\ UNCHANGED <<server, open, retries, call, fallbackMode, failures>>

\* 'ready'; a pending connect() resolves and sets isConnected once more.
HandshakeDone ==
  /\ socket = "handshake"
  /\ server = "up"
  /\ socket' = "ready"
  /\ fallbackMode' = FALSE
  /\ call' = IF call = "pending" THEN "resolved" ELSE call
  /\ isConnected' = IF call = "pending" THEN TRUE ELSE isConnected
  /\ failures' = 0
  /\ UNCHANGED <<server, open, retries, reconnectAttempts>>

\* Mutant: giving up is not recorded as fallback mode.
StrategyForgetsFallback(connected) ==
  /\ reconnectAttempts' = retries
  /\ retries' = retries + 1
  /\ failures' = failures + 1
  /\ IF GivesUp(retries)
       THEN /\ socket' = "dead"
            /\ call' = IF call = "pending" THEN "rejected" ELSE call
            /\ isConnected' = connected
            /\ UNCHANGED fallbackMode
       ELSE /\ socket' = "waiting"
            /\ isConnected' = FALSE
            /\ UNCHANGED <<call, fallbackMode>>

\* Mutant: every failed attempt switches to fallback mode.
StrategyFallsBackAtOnce(connected) ==
  /\ reconnectAttempts' = retries
  /\ retries' = retries + 1
  /\ failures' = failures + 1
  /\ fallbackMode' = TRUE
  /\ IF GivesUp(retries)
       THEN /\ socket' = "dead"
            /\ call' = IF call = "pending" THEN "rejected" ELSE call
            /\ isConnected' = connected
       ELSE /\ socket' = "waiting"
            /\ isConnected' = FALSE
            /\ UNCHANGED call

\* An attempt failed: reconnectStrategy(retries++), then either the loop throws
\* (and rejects a pending connect()) without emitting 'error', or it emits
\* 'error' and sleeps.  `connected' is isConnected when the strategy is asked.
Strategy(connected) ==
  /\ reconnectAttempts' = retries
  /\ retries' = retries + 1
  /\ failures' = failures + 1
  /\ IF GivesUp(retries)
       THEN /\ fallbackMode' = TRUE
            /\ socket' = "dead"
            /\ call' = IF call = "pending" THEN "rejected" ELSE call
            /\ isConnected' = connected
       ELSE /\ socket' = "waiting"
            /\ isConnected' = FALSE
            /\ UNCHANGED <<call, fallbackMode>>

ConnectionRefused ==
  /\ socket = "connecting"
  /\ server = "down"
  /\ Strategy(isConnected)
  /\ UNCHANGED <<server, open>>

\* The socket breaks during the handshake: its own 'error' comes first.
HandshakeBroken ==
  /\ socket = "handshake"
  /\ server = "down"
  /\ Strategy(FALSE)
  /\ UNCHANGED <<server, open>>

\* The server answers the handshake with an error, for instance LOADING; the
\* socket is destroyed silently.
HandshakeRefused ==
  /\ socket = "handshake"
  /\ server = "loading"
  /\ Strategy(isConnected)
  /\ UNCHANGED <<server, open>>

\* 'reconnecting'; the loop ends without a connection when quit() was called
\* meanwhile, and then a pending connect() resolves nevertheless.
BackoffOver ==
  /\ socket = "waiting"
  /\ IF open
       THEN socket' = "connecting" /\ UNCHANGED <<call, isConnected>>
       ELSE /\ socket' = "closed"
            /\ call' = IF call = "pending" THEN "resolved" ELSE call
            /\ isConnected' = (isConnected \/ call = "pending")
  /\ UNCHANGED <<server, open, retries, reconnectAttempts, fallbackMode, failures>>

\* Mutant: a lost connection continues the old retry budget.
ConnectionLostKeepsBudget ==
  /\ socket = "ready" /\ open
  /\ socket' = "connecting"
  /\ isConnected' = FALSE
  /\ reconnectAttempts' = 0
  /\ failures' = 0
  /\ UNCHANGED <<server, open, retries, call, fallbackMode>>

\* 'error' on an established connection; strategy(0) is a number, and a new
\* loop starts in the background, its rejection unobserved.
ConnectionLost ==
  /\ socket = "ready" /\ open
  /\ socket' = "connecting"
  /\ retries' = 0
  /\ isConnected' = FALSE
  /\ reconnectAttempts' = 0
  /\ failures' = 0
  /\ UNCHANGED <<server, open, call, fallbackMode>>

\* disconnect() when isConnected is set: QUIT is queued, for a client that may not
\* be ready yet, or never will be.  The library refuses a second one, and then to
\* disconnect; nothing changes, as when isConnected is not set.
Disconnect ==
  /\ isConnected /\ open
  /\ open' = FALSE
  /\ UNCHANGED <<server, socket, retries, call, flags, failures>>

\* Mutant: disconnect() does not await quit().
QuitEndsUnanswered ==
  /\ socket = "ready" /\ ~open
  /\ isConnected' = FALSE
  /\ UNCHANGED <<server, socket, open, retries, call, reconnectAttempts, fallbackMode,
                 failures>>

\* A ready client sends QUIT.  It is answered, 'end', or its connection is lost,
\* 'error'; a client that was quit does not connect again.
QuitEnds ==
  /\ socket = "ready" /\ ~open
  /\ socket' = "closed"
  /\ isConnected' = FALSE
  /\ UNCHANGED <<server, open, retries, call, reconnectAttempts, fallbackMode, failures>>

\* The environment.
ServerChanges ==
  /\ server' \in ServerStates \ {server}
  /\ UNCHANGED <<socket, open, retries, call, flags, failures>>

LoopStep ==
  \/ SocketOpened \/ HandshakeDone
  \/ ConnectionRefused \/ HandshakeBroken \/ HandshakeRefused
  \/ BackoffOver

Next == Connect \/ LoopStep \/ ConnectionLost \/ Disconnect \/ QuitEnds \/ ServerChanges

Spec == Init /\ [][Next]_vars

\* An attempt ends and a sleep is over; a client whose server is gone notices.
FairSpec ==
  /\ Spec
  /\ WF_vars(Connect)
  /\ WF_vars(LoopStep)
  /\ WF_vars(server = "down" /\ ConnectionLost)

-----------------------------------------------------------------------------
(* Properties *)

\* Fallback mode is entered only after the retries of a whole budget failed in a
\* row, and then the socket loop is over: a shorter outage never switches the
\* services to process memory, whatever was left of the budget of an earlier one.
FallbackMeansGivenUp ==
  /\ fallbackMode <=> socket = "dead"
  /\ fallbackMode => failures > MaxRetries

\* REDIS_ARCHITECTURE.md:71: reconnection with maximum 10 attempts, as the message
\* of reconnectStrategy has it, besides the attempt that failed first.  The strategy
\* is asked with 0, 1, ... and allows `retries = 10', so that one more is made.
AtMostMaxRetries == failures <= MaxRetries + 1

\* Requests see Redis as RedisHealth describes it: no flapping between Redis
\* and process memory, and no way back from fallback mode.
Mode ==
  IF Healthy THEN "healthy"
  ELSE IF fallbackMode THEN "fallback"
  ELSE "unavailable"

Health == INSTANCE RedisHealth WITH mode <- Mode

ImplementsHealth == Health!HealthSpec

\* REDIS_ARCHITECTURE.md: self-healing when Redis becomes available again.
\* A process that started well and whose strategy has given up since never
\* connects again.
SelfHealing ==
  <>[](server = "up" /\ call = "resolved") => []<>(Healthy \/ socket = "closed")

-----------------------------------------------------------------------------
(* Why the safety properties hold: an inductive invariant, in parts *)

\* While the socket loop runs, it has counted exactly the attempts that failed
\* since it started, and the budget is not exceeded.
LoopCountsFailures ==
  socket \in {"connecting", "handshake", "waiting"} =>
    retries = failures /\ retries <= MaxRetries + 1

\* The flag is set before the handshake and cleared only on the way out.
OpenSocketIsConnected == socket \in {"handshake", "ready"} => isConnected

\* The socket loop is started by connect() and by nothing else.
ClosedUntilCalled == call = "none" => socket = "closed"

ManagerInvariant ==
  /\ TypeOK
  /\ LoopCountsFailures
  /\ OpenSocketIsConnected
  /\ ClosedUntilCalled
  /\ FallbackMeansGivenUp

=============================================================================
