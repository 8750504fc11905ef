-------------------------- MODULE ServerLifecycle --------------------------
(***************************************************************************)
(* The life of one server process (server.ts): it connects to Redis twice, *)
(* through RedisManager and through the older redisClient, then to the     *)
(* database, and listens.  A shutdown stops listening, waits until the     *)
(* connections are gone and closes the three clients in turn; a timer of   *)
(* its own ends the process if that takes too long.                        *)
(*                                                                         *)
(* Each signal, and in production each unhandled rejection, starts a       *)
(* shutdown of its own, with all steps, whatever the others do.  The Redis *)
(* library refuses QUIT on a client that is quitting.                      *)
(***************************************************************************)
EXTENDS Naturals

CONSTANTS
  Conns,       \* HTTP connections
  Shutdowns,   \* calls of gracefulShutdown
  Production   \* config.isProduction

ASSUME LifecycleAssumption == Production \in BOOLEAN

Clients == {"manager", "legacy"}
Startup == {"manager", "legacy", "database"}
Teardown == {"manager", "legacy", "database"}

VARIABLES
  stage,      \* what startServer awaits, "running", or "exited"
  code,       \* the exit code, "signal" for a process that a signal killed
  client,     \* the state of each Redis client
  connected,  \* isConnected of RedisManager
  db,         \* whether Prisma is connected
  listening,  \* whether the HTTP server accepts connections
  conn,       \* HTTP connections: none, idle or with a request
  step,       \* step[s]: what shutdown s waits for
  skipped     \* history: a shutdown found the manager without a connection

links == <<client, connected, db>>
lifeVars == <<stage, code, client, connected, db, listening, conn, step, skipped>>

LifeTypeOK ==
  /\ stage \in Startup \cup {"running", "exited"}
  /\ code \in {"none", "zero", "one", "signal"}
  /\ client \in [Clients -> {"connecting", "open", "quitting", "closed"}]
  /\ connected \in BOOLEAN /\ db \in BOOLEAN /\ listening \in BOOLEAN
  /\ conn \in [Conns -> {"none", "idle", "busy"}]
  /\ step \in [Shutdowns -> {"none", "draining"} \cup Teardown]
  /\ skipped \in BOOLEAN

LifeInit ==
  /\ stage = "manager" /\ code = "none"
  /\ client = [c \in Clients |-> "connecting"]
  /\ connected = FALSE /\ db = FALSE /\ listening = FALSE
  /\ conn = [c \in Conns |-> "none"]
  /\ step = [s \in Shutdowns |-> "none"]
  /\ skipped = FALSE

Exit(c) == stage' = "exited" /\ code' = c
Alive == stage # "exited" /\ code' = code
Drained == ~listening /\ \A c \in Conns : conn[c] = "none"

-----------------------------------------------------------------------------
(* startServer *)

ConnectManager ==
  /\ stage = "manager" /\ Alive
  /\ stage' = "legacy"
  /\ client' = [client EXCEPT !["manager"] = "open"]
  /\ connected' = TRUE
  /\ UNCHANGED <<db, listening, conn, step, skipped>>

\* The cleanup schedulers start with this step.
ConnectLegacy ==
  /\ stage = "legacy" /\ Alive
  /\ stage' = "database"
  /\ client' = [client EXCEPT !["legacy"] = "open"]
  /\ UNCHANGED <<connected, db, listening, conn, step, skipped>>

\* The app is created, the server listens and the handlers are registered, all
\* in one turn.  If the port is taken, that is an uncaught exception.
ConnectDatabase ==
  /\ stage = "database" /\ Alive
  /\ stage' = "running"
  /\ db' = TRUE
  /\ listening' \in BOOLEAN
  /\ UNCHANGED <<client, connected, conn, step, skipped>>

\* Any connection that fails ends the startup, Redis's too: fallback mode is no
\* help here.
StartupFails ==
  /\ stage \in Startup
  /\ Exit("one")
  /\ UNCHANGED <<links, listening, conn, step, skipped>>

\* A signal before the handlers are registered kills the process.
KilledEarly ==
  /\ stage \in Startup
  /\ Exit("signal")
  /\ UNCHANGED <<links, listening, conn, step, skipped>>

-----------------------------------------------------------------------------
(* Connections *)

Open(c) ==
  /\ stage = "running" /\ listening
  /\ conn[c] = "none"
  /\ conn' = [conn EXCEPT ![c] = "busy"]
  /\ UNCHANGED <<stage, code, links, listening, step, skipped>>

\* A kept connection carries another request, even while the server drains.
Reuse(c) ==
  /\ stage = "running"
  /\ conn[c] = "idle"
  /\ conn' = [conn EXCEPT ![c] = "busy"]
  /\ UNCHANGED <<stage, code, links, listening, step, skipped>>

Respond(c) ==
  /\ stage = "running"
  /\ conn[c] = "busy"
  /\ conn' = [conn EXCEPT ![c] = "idle"]
  /\ UNCHANGED <<stage, code, links, listening, step, skipped>>

\* The client closes the connection, or the server an idle one.
Close(c) ==
  /\ stage = "running"
  /\ conn[c] # "none"
  /\ conn' = [conn EXCEPT ![c] = "none"]
  /\ UNCHANGED <<stage, code, links, listening, step, skipped>>

\* The manager's events: its connection is lost, and found again unless it quits.
LinkChanges ==
  /\ stage # "exited"
  /\ client["manager"] = "open" \/ (client["manager"] = "quitting" /\ connected)
  /\ connected' = ~connected
  /\ UNCHANGED <<stage, code, client, db, listening, conn, step, skipped>>

-----------------------------------------------------------------------------
(* gracefulShutdown *)

Begin(s) ==
  /\ stage = "running" /\ step[s] = "none"
  /\ listening' = FALSE
  /\ step' = [step EXCEPT ![s] = "draining"]
  /\ UNCHANGED <<stage, code, links, conn, skipped>>

\* disconnectRedis is called: a client that cannot quit is passed over.
QuitLegacy(s, opened) ==
  IF opened["legacy"] = "open"
    THEN /\ client' = [opened EXCEPT !["legacy"] = "quitting"]
         /\ step' = [step EXCEPT ![s] = "legacy"]
    ELSE /\ client' = opened
         /\ step' = [step EXCEPT ![s] = "database"]

\* Mutant: the connections are closed right after the server.
TearDownAtOnce(s) ==
  /\ stage = "running" /\ step[s] = "draining"
  /\ IF connected
       THEN /\ client["manager"] = "open"
            /\ client' = [client EXCEPT !["manager"] = "quitting"]
            /\ step' = [step EXCEPT ![s] = "manager"]
            /\ UNCHANGED skipped
       ELSE /\ QuitLegacy(s, client)
            /\ skipped' = TRUE
  /\ UNCHANGED <<stage, code, connected, db, listening, conn>>

\* The server has closed: RedisManager.disconnect quits, or returns at once
\* without a connection.
TearDown(s) ==
  /\ stage = "running" /\ step[s] = "draining" /\ Drained
  /\ IF connected
       THEN /\ client["manager"] = "open"
            /\ client' = [client EXCEPT !["manager"] = "quitting"]
            /\ step' = [step EXCEPT ![s] = "manager"]
            /\ UNCHANGED skipped
       ELSE /\ QuitLegacy(s, client)
            /\ skipped' = TRUE
  /\ UNCHANGED <<stage, code, connected, db, listening, conn>>

\* Another shutdown is quitting, so the library refuses, and then refuses to
\* disconnect: this shutdown ends the process.
TearDownRefused(s) ==
  /\ stage = "running" /\ step[s] = "draining" /\ Drained
  /\ connected /\ client["manager"] # "open"
  /\ Exit("one")
  /\ UNCHANGED <<links, listening, conn, step, skipped>>

\* Mutant: the older client is left open.
ManagerQuitOnly(s) ==
  /\ stage = "running" /\ step[s] = "manager"
  /\ connected' = FALSE
  /\ client' = [client EXCEPT !["manager"] = "closed"]
  /\ step' = [step EXCEPT ![s] = "database"]
  /\ UNCHANGED <<stage, code, db, listening, conn, skipped>>

\* QUIT is answered, and disconnectRedis is called.
ManagerQuit(s) ==
  /\ stage = "running" /\ step[s] = "manager"
  /\ connected' = FALSE
  /\ QuitLegacy(s, [client EXCEPT !["manager"] = "closed"])
  /\ UNCHANGED <<stage, code, db, listening, conn, skipped>>

\* disconnectRedis swallows every error.
LegacyQuit(s) ==
  /\ stage = "running" /\ step[s] = "legacy"
  /\ client' = [client EXCEPT !["legacy"] = "closed"]
  /\ step' = [step EXCEPT ![s] = "database"]
  /\ UNCHANGED <<stage, code, connected, db, listening, conn, skipped>>

DatabaseDisconnects(s) ==
  /\ stage = "running" /\ step[s] = "database"
  /\ db' = FALSE
  /\ Exit("zero")
  /\ UNCHANGED <<client, connected, listening, conn, step, skipped>>

\* QUIT of the manager fails, after which the library refuses to disconnect, or
\* the database fails.
TearDownFails(s) ==
  /\ stage = "running" /\ step[s] \in {"manager", "database"}
  /\ Exit("one")
  /\ UNCHANGED <<links, listening, conn, step, skipped>>

\* Mutant: the timer is cleared when the server has closed.
TimeoutWhileDraining(s) ==
  /\ stage = "running" /\ step[s] = "draining"
  /\ Exit("one")
  /\ UNCHANGED <<links, listening, conn, step, skipped>>

\* Thirty seconds after the shutdown began
Timeout(s) ==
  /\ stage = "running" /\ step[s] # "none"
  /\ Exit("one")
  /\ UNCHANGED <<links, listening, conn, step, skipped>>

\* An uncaught exception ends the process in production only.
Uncaught ==
  /\ stage = "running" /\ Production
  /\ Exit("one")
  /\ UNCHANGED <<links, listening, conn, step, skipped>>

-----------------------------------------------------------------------------

Start == ConnectManager \/ ConnectLegacy \/ ConnectDatabase \/ StartupFails

Shut(s) ==
  \/ TearDown(s) \/ TearDownRefused(s) \/ ManagerQuit(s) \/ LegacyQuit(s)
  \/ DatabaseDisconnects(s) \/ TearDownFails(s)

LifeNext ==
  \/ Start \/ KilledEarly \/ LinkChanges \/ Uncaught
  \/ \E c \in Conns : Open(c) \/ Reuse(c) \/ Respond(c) \/ Close(c)
  \/ \E s \in Shutdowns : Begin(s) \/ Shut(s) \/ Timeout(s)

LifeSpec == LifeInit /\ [][LifeNext]_lifeVars

\* Connecting ends one way or the other, and timers fire.
FairLifeSpec == LifeSpec /\ WF_lifeVars(Start) /\ \A s \in Shutdowns : WF_lifeVars(Timeout(s))

-----------------------------------------------------------------------------
(* Properties *)

InTeardown == stage = "running" /\ \E s \in Shutdowns : step[s] \in Teardown

\* No request whose client still waits loses its Redis or its database to an
\* orderly shutdown, however many of them run: the clients are closed only when
\* every connection is gone and none can come.
AnsweredFirst == InTeardown => Drained

\* Exit code 0 says that no connection was left, the database was disconnected and
\* both Redis clients were told to quit, except a manager that some shutdown found
\* without its connection: that one may be open, and reconnecting.
ZeroMeansClosed ==
  code = "zero" =>
    /\ Drained /\ ~db
    /\ client["legacy"] \in {"quitting", "closed"}
    /\ client["manager"] \in {"quitting", "closed"} \/ skipped

\* A shutdown that has begun ends the process, whatever hangs.
ShutdownEnds == (\E s \in Shutdowns : step[s] # "none") ~> stage = "exited"

-----------------------------------------------------------------------------
(* Why the invariants hold: an inductive invariant, in parts *)

Told(c) == client[c] \in {"quitting", "closed"}

\* Signals are not handled before the server runs, and each client is past its
\* connecting when startServer is.
StartupUndisturbed ==
  /\ stage \in Startup => \A s \in Shutdowns : step[s] = "none"
  /\ stage \in {"legacy", "database", "running"} => client["manager"] # "connecting"
  /\ stage \in {"database", "running"} => client["legacy"] # "connecting"
  /\ code = "none" <=> stage # "exited"

\* A shutdown has told the clients that it is past, or found the manager without
\* a connection; none of them comes back.
PastIsTold ==
  \A s \in Shutdowns :
    /\ step[s] \in Teardown => Told("manager") \/ skipped
    /\ step[s] \in {"legacy", "database"} => Told("legacy")

LifecycleInvariant ==
  /\ LifeTypeOK
  /\ StartupUndisturbed
  /\ PastIsTold
  /\ AnsweredFirst
  /\ ZeroMeansClosed

=============================================================================
