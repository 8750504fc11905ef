--------------------------- MODULE ProcessProofs ---------------------------
(***************************************************************************)
(* Proofs about the two modules that live as long as a server process:     *)
(* RedisManager, for every retry budget, and ServerLifecycle, for any      *)
(* number of connections and of shutdowns; and about their composition.    *)
(***************************************************************************)
EXTENDS ServerProcess, TLAPS

(***************************************************************************)
(* The invariant in two halves, one about counters and one about flags and *)
(* control: the first needs arithmetic, the second only Booleans.          *)
(***************************************************************************)

Counters ==
  /\ retries \in 0 .. MaxRetries + 2
  /\ reconnectAttempts \in 0 .. MaxRetries + 1
  /\ failures \in Nat
  /\ LoopCountsFailures
  /\ socket = "dead" => failures > MaxRetries

Control ==
  /\ server \in ServerStates
  /\ socket \in SocketStates
  /\ open \in BOOLEAN
  /\ call \in {"none", "pending", "resolved", "rejected"}
  /\ isConnected \in BOOLEAN
  /\ fallbackMode \in BOOLEAN
  /\ OpenSocketIsConnected
  /\ ClosedUntilCalled
  /\ fallbackMode <=> socket = "dead"

\* The two halves are the invariant.
LEMMA Halves == ManagerInvariant <=> Counters /\ Control
  BY Zenon DEF ManagerInvariant, TypeOK, FallbackMeansGivenUp, Counters, Control

\* The initial state satisfies both halves: nothing was tried yet.
LEMMA InitInvariant == Init => ManagerInvariant
<1>1. Init => Counters
  BY ManagerAssumption DEF Init, Counters, LoopCountsFailures
<1>2. Init => Control
  BY DEF Init, Control, SocketStates, OpenSocketIsConnected, ClosedUntilCalled
<1> QED
  BY <1>1, <1>2, Halves

\* Every step keeps the loop's counters in step with the failures.
LEMMA CountersNext ==
  ASSUME Counters, Control, [Next]_vars
  PROVE  Counters'
<1> USE ManagerAssumption
    DEF Counters, LoopCountsFailures, flags
<1>1. CASE Connect
  BY <1>1 DEF Connect
<1>2. CASE SocketOpened
  BY <1>2 DEF SocketOpened
<1>3. CASE HandshakeDone
  BY <1>3 DEF HandshakeDone
<1>4. CASE ConnectionRefused
  BY <1>4 DEF ConnectionRefused, Strategy, GivesUp
<1>5. CASE HandshakeBroken
  BY <1>5 DEF HandshakeBroken, Strategy, GivesUp
<1>6. CASE HandshakeRefused
  BY <1>6 DEF HandshakeRefused, Strategy, GivesUp
<1>7. CASE BackoffOver
  BY <1>7 DEF BackoffOver
<1>8. CASE ConnectionLost
  BY <1>8 DEF ConnectionLost
<1>9. CASE Disconnect
  BY <1>9 DEF Disconnect
<1>10. CASE QuitEnds
  BY <1>10 DEF QuitEnds
<1>11. CASE ServerChanges
  BY <1>11 DEF ServerChanges
<1>12. CASE UNCHANGED vars
  BY <1>12 DEF vars
<1> QED
  BY <1>1, <1>2, <1>3, <1>4, <1>5, <1>6, <1>7, <1>8, <1>9, <1>10, <1>11, <1>12
  DEF Next, LoopStep

\* Every step keeps the flags in step with the socket.
LEMMA ControlNext ==
  ASSUME Control, [Next]_vars
  PROVE  Control'
<1> USE DEF Control, OpenSocketIsConnected, ClosedUntilCalled, SocketStates,
      ServerStates, flags
<1>1. CASE Connect
  BY <1>1 DEF Connect
<1>2. CASE SocketOpened
  BY <1>2 DEF SocketOpened
<1>3. CASE HandshakeDone
  BY <1>3 DEF HandshakeDone
<1>4. CASE ConnectionRefused
  BY <1>4 DEF ConnectionRefused, Strategy, GivesUp
<1>5. CASE HandshakeBroken
  BY <1>5 DEF HandshakeBroken, Strategy, GivesUp
<1>6. CASE HandshakeRefused
  BY <1>6 DEF HandshakeRefused, Strategy, GivesUp
<1>7. CASE BackoffOver
  BY <1>7 DEF BackoffOver
<1>8. CASE ConnectionLost
  BY <1>8 DEF ConnectionLost
<1>9. CASE Disconnect
  BY <1>9 DEF Disconnect
<1>10. CASE QuitEnds
  BY <1>10 DEF QuitEnds
<1>11. CASE ServerChanges
  BY <1>11 DEF ServerChanges
<1>12. CASE UNCHANGED vars
  BY <1>12 DEF vars
<1> QED
  BY <1>1, <1>2, <1>3, <1>4, <1>5, <1>6, <1>7, <1>8, <1>9, <1>10, <1>11, <1>12
  DEF Next, LoopStep

\* Every step of the manager and of its environment preserves the invariant.
LEMMA NextInvariant == ManagerInvariant /\ [Next]_vars => ManagerInvariant'
<1> SUFFICES ASSUME ManagerInvariant, [Next]_vars
             PROVE  ManagerInvariant'
  OBVIOUS
<1>1. Counters' /\ Control'
  BY Halves, CountersNext, ControlNext
<1> QED
  BY <1>1, Halves, PTL

\* Every reachable state of the manager satisfies the invariant.
THEOREM ManagerInvariantHolds == Spec => []ManagerInvariant
  BY InitInvariant, NextInvariant, PTL DEF Spec

-----------------------------------------------------------------------------
(* The safety properties *)

\* Every reachable state has the declared types: in particular the attempt
\* counter never exceeds the budget by more than two.
THEOREM TypeCorrect == Spec => []TypeOK
<1>1. ManagerInvariant => TypeOK
  BY DEF ManagerInvariant
<1> QED
  BY <1>1, ManagerInvariantHolds, PTL

\* reconnectStrategy: fallback mode means that the retries of a whole budget failed
\* in a row and that the socket loop is over.
THEOREM FallbackMeansGivenUpHolds == Spec => []FallbackMeansGivenUp
<1>1. ManagerInvariant => FallbackMeansGivenUp
  BY DEF ManagerInvariant
<1> QED
  BY <1>1, ManagerInvariantHolds, PTL

-----------------------------------------------------------------------------
(* The manager implements RedisHealth *)

\* A step of the manager moves its mode as RedisHealth allows, or not at all.
LEMMA StepImplements ==
  ASSUME ManagerInvariant, [Next]_vars
  PROVE  [Health!HealthNext]_Mode
<1>0. Control
  BY Halves
<1> USE <1>0 DEF Control, OpenSocketIsConnected, ClosedUntilCalled, SocketStates,
      flags, Mode, Healthy, Health!HealthNext
<1>1. CASE HandshakeDone
  BY <1>1 DEF HandshakeDone, Health!Recover
<1>2. CASE ConnectionLost
  BY <1>2 DEF ConnectionLost, Health!Lose
<1>3. CASE Disconnect \/ QuitEnds
  BY <1>3 DEF Disconnect, QuitEnds, Health!Lose
<1>4. CASE ConnectionRefused \/ HandshakeBroken \/ HandshakeRefused
  BY <1>4
  DEF ConnectionRefused, HandshakeBroken, HandshakeRefused, Strategy, Health!GiveUp
<1>5. CASE Connect \/ SocketOpened \/ BackoffOver \/ ServerChanges
  BY <1>5 DEF Connect, SocketOpened, BackoffOver, ServerChanges
<1>6. CASE UNCHANGED vars
  BY <1>6 DEF vars
<1> QED
  BY <1>1, <1>2, <1>3, <1>4, <1>5, <1>6 DEF Next, LoopStep

\* isHealthy and isInFallbackMode answer as RedisHealth says, which is what
\* SessionService is modelled over.
THEOREM ManagerImplementsHealth == Spec => ImplementsHealth
<1>1. Init => Health!HealthInit
  BY DEF Init, Health!HealthInit, Mode, Healthy
<1> QED
  BY <1>1, StepImplements, ManagerInvariantHolds, PTL
  DEF Spec, ImplementsHealth, Health!HealthSpec

-----------------------------------------------------------------------------
(* The life of the process *)

\* The process starts with nothing connected and no shutdown.
LEMMA LifeInitInvariant == LifeInit => LifecycleInvariant
  BY DEF LifeInit, LifecycleInvariant, LifeTypeOK, StartupUndisturbed, PastIsTold,
     AnsweredFirst, ZeroMeansClosed, InTeardown, Startup, Teardown,
     Clients

\* The parts of the invariant speak of nothing that a step leaves alone.
LEMMA LifeUnchanged ==
  ASSUME LifecycleInvariant, UNCHANGED lifeVars
  PROVE  LifecycleInvariant'
  BY DEF lifeVars, LifecycleInvariant, LifeTypeOK, StartupUndisturbed,
     PastIsTold, AnsweredFirst, ZeroMeansClosed, InTeardown, Drained,
     Told

\* startServer, and the ends that it may come to.
LEMMA LifeStartInvariant ==
  ASSUME LifecycleInvariant, Start \/ KilledEarly
  PROVE  LifecycleInvariant'
<1> USE DEF LifecycleInvariant, LifeTypeOK, StartupUndisturbed, PastIsTold,
      AnsweredFirst, ZeroMeansClosed, InTeardown, Drained, Told,
      Startup, Teardown, Clients, Exit, Alive, links
<1>1. CASE ConnectManager
  BY <1>1 DEF ConnectManager
<1>2. CASE ConnectLegacy
  BY <1>2 DEF ConnectLegacy
<1>3. CASE ConnectDatabase
  BY <1>3 DEF ConnectDatabase
<1>4. CASE StartupFails
  BY <1>4 DEF StartupFails
<1>5. CASE KilledEarly
  BY <1>5 DEF KilledEarly
<1> QED
  BY <1>1, <1>2, <1>3, <1>4, <1>5 DEF Start

\* Connections come and go, and the manager's own connection does.
LEMMA LifeTrafficInvariant ==
  ASSUME LifecycleInvariant,
         \/ \E c \in Conns : Open(c) \/ Reuse(c) \/ Respond(c) \/ Close(c)
         \/ LinkChanges
  PROVE  LifecycleInvariant'
<1> USE DEF LifecycleInvariant, LifeTypeOK, StartupUndisturbed, PastIsTold,
      AnsweredFirst, ZeroMeansClosed, InTeardown, Drained, Told,
      Startup, links
<1>1. ASSUME NEW c \in Conns, Open(c)
      PROVE  LifecycleInvariant'
  BY <1>1 DEF Open
<1>2. ASSUME NEW c \in Conns, Reuse(c)
      PROVE  LifecycleInvariant'
  BY <1>2 DEF Reuse
<1>3. ASSUME NEW c \in Conns, Respond(c)
      PROVE  LifecycleInvariant'
  BY <1>3 DEF Respond
<1>4. ASSUME NEW c \in Conns, Close(c)
      PROVE  LifecycleInvariant'
  BY <1>4 DEF Close
<1>5. CASE LinkChanges
  BY <1>5 DEF LinkChanges
<1> QED
  BY <1>1, <1>2, <1>3, <1>4, <1>5

\* gracefulShutdown, the timer of each shutdown, and the end by an exception.
LEMMA LifeShutdownInvariant ==
  ASSUME LifecycleInvariant,
         \/ \E s \in Shutdowns : Begin(s) \/ Shut(s) \/ Timeout(s)
         \/ Uncaught
  PROVE  LifecycleInvariant'
<1> USE DEF LifecycleInvariant, LifeTypeOK, StartupUndisturbed, PastIsTold,
      AnsweredFirst, ZeroMeansClosed, InTeardown, Drained, Told,
      Startup, Teardown, Clients, Exit, links
<1>1. ASSUME NEW s \in Shutdowns, Begin(s)
      PROVE  LifecycleInvariant'
  BY <1>1 DEF Begin
<1>2. ASSUME NEW s \in Shutdowns, TearDown(s)
      PROVE  LifecycleInvariant'
  <2>1. CASE connected
    BY <1>2, <2>1 DEF TearDown
  <2>2. CASE ~connected
    <3>1. CASE client["legacy"] = "open"
      BY <1>2, <2>2, <3>1 DEF TearDown, QuitLegacy
    <3>2. CASE client["legacy"] # "open"
      BY <1>2, <2>2, <3>2 DEF TearDown, QuitLegacy
    <3> QED
      BY <3>1, <3>2
  <2> QED
    BY <2>1, <2>2
<1>3. ASSUME NEW s \in Shutdowns, TearDownRefused(s)
      PROVE  LifecycleInvariant'
  BY <1>3 DEF TearDownRefused
<1>4. ASSUME NEW s \in Shutdowns, ManagerQuit(s)
      PROVE  LifecycleInvariant'
  <2>1. CASE client["legacy"] = "open"
    BY <1>4, <2>1 DEF ManagerQuit, QuitLegacy
  <2>2. CASE client["legacy"] # "open"
    BY <1>4, <2>2 DEF ManagerQuit, QuitLegacy
  <2> QED
    BY <2>1, <2>2
<1>5. ASSUME NEW s \in Shutdowns, LegacyQuit(s)
      PROVE  LifecycleInvariant'
  BY <1>5 DEF LegacyQuit
<1>6. ASSUME NEW s \in Shutdowns, DatabaseDisconnects(s)
      PROVE  LifecycleInvariant'
  BY <1>6 DEF DatabaseDisconnects
<1>7. ASSUME NEW s \in Shutdowns, TearDownFails(s)
      PROVE  LifecycleInvariant'
  BY <1>7 DEF TearDownFails
<1>8. ASSUME NEW s \in Shutdowns, Timeout(s)
      PROVE  LifecycleInvariant'
  BY <1>8 DEF Timeout
<1>9. CASE Uncaught
  BY <1>9 DEF Uncaught
<1> QED
  BY <1>1, <1>2, <1>3, <1>4, <1>5, <1>6, <1>7, <1>8, <1>9 DEF Shut

\* Every reachable state of the process satisfies the invariant, for any number of
\* connections and of shutdowns that run at once.
THEOREM LifecycleInvariantHolds == LifeSpec => []LifecycleInvariant
<1>1. LifecycleInvariant /\ [LifeNext]_lifeVars => LifecycleInvariant'
  <2> SUFFICES ASSUME LifecycleInvariant, [LifeNext]_lifeVars
               PROVE  LifecycleInvariant'
    OBVIOUS
  <2> QED
    BY LifeStartInvariant, LifeTrafficInvariant, LifeShutdownInvariant, LifeUnchanged DEF LifeNext
<1> QED
  BY <1>1, LifeInitInvariant, PTL DEF LifeSpec

\* gracefulShutdown: no request whose client still waits loses Redis or the database
\* to an orderly shutdown.
THEOREM AnsweredFirstHolds == LifeSpec => []AnsweredFirst
<1>1. LifecycleInvariant => AnsweredFirst
  BY DEF LifecycleInvariant
<1> QED
  BY <1>1, LifecycleInvariantHolds, PTL

\* gracefulShutdown: exit code 0 is given only with the database disconnected and the
\* clients told to quit, or a manager passed over that was without its connection.
THEOREM ZeroMeansClosedHolds == LifeSpec => []ZeroMeansClosed
<1>1. LifecycleInvariant => ZeroMeansClosed
  BY DEF LifecycleInvariant
<1> QED
  BY <1>1, LifecycleInvariantHolds, PTL

-----------------------------------------------------------------------------
(***************************************************************************)
(* The process: each of its steps is a step of the manager or leaves it    *)
(* alone, and likewise a step of the life, so that all of the above holds  *)
(* of it.                                                                  *)
(***************************************************************************)

\* What the manager's steps are to the process are steps of its life.
LEMMA SeenIsLife ==
  ASSUME Seen
  PROVE  [LifeNext]_lifeVars
  BY DEF Seen, LifeNext, Start

\* No answer to the manager touches a shutdown or ends the process well.
LEMMA SeenKeeps ==
  ASSUME Seen
  PROVE  step' = step /\ skipped' = skipped /\ (code' = "zero" => code = "zero")
  BY DEF Seen, ConnectManager, StartupFails, LinkChanges, Alive, Exit, lifeVars

\* A step of the process is one of each of the two modules, or leaves it alone.
LEMMA ProcessStep ==
  ASSUME [ProcessNext]_processVars
  PROVE  [Next]_vars /\ [LifeNext]_lifeVars
<1>1. CASE ManagerOpens \/ ManagerLoops \/ ManagerLoses
  BY <1>1, SeenIsLife DEF ManagerOpens, ManagerLoops, ManagerLoses, Next
<1>2. CASE StartupGoesOn
  BY <1>2 DEF StartupGoesOn, LifeNext, Start
<1>3. CASE Elsewhere
  BY <1>3 DEF Elsewhere, LifeNext, Shut
<1>4. ASSUME NEW s \in Shutdowns, CallDisconnect(s)
      PROVE  [Next]_vars /\ [LifeNext]_lifeVars
  BY <1>4 DEF CallDisconnect, Next, LifeNext, Shut
<1>5. ASSUME NEW s \in Shutdowns, Disconnected(s)
      PROVE  [Next]_vars /\ [LifeNext]_lifeVars
  BY <1>5 DEF Disconnected, Next, LifeNext, Shut
<1>6. ASSUME NEW s \in Shutdowns, ShutdownTimeout(s)
      PROVE  [Next]_vars /\ [LifeNext]_lifeVars
  BY <1>6 DEF ShutdownTimeout, LifeNext
<1>7. CASE ServerChanges /\ UNCHANGED lifeVars
  BY <1>7 DEF Next
<1>8. CASE UNCHANGED processVars
  BY <1>8 DEF processVars
<1> QED
  BY <1>1, <1>2, <1>3, <1>4, <1>5, <1>6, <1>7, <1>8 DEF ProcessNext

\* The process behaves as its manager does, and as server.ts does.
THEOREM ProcessImplementsParts == ProcessSpec => Spec /\ LifeSpec
  BY ProcessStep, PTL DEF ProcessSpec, ProcessInit, Spec, LifeSpec

\* A shutdown that is past the manager, and exit code 0, leave a connection that is
\* over or that some shutdown did not find.
LeftBehind ==
  /\ \A s \in Shutdowns :
       step[s] \in {"legacy", "database"} => socket = "closed" \/ skipped
  /\ ZeroLeavesRedis

\* A closed socket is opened by connect() alone, which startServer calls before
\* there is any shutdown.
LEMMA LeftBehindNext ==
  ASSUME LifecycleInvariant, LeftBehind, [ProcessNext]_processVars
  PROVE  LeftBehind'
<1> USE DEF LeftBehind, ZeroLeavesRedis
<1>1. CASE ManagerOpens
  <2>1. code = "none" /\ \A s \in Shutdowns : step[s] = "none"
    BY <1>1 DEF ManagerOpens, LifecycleInvariant, StartupUndisturbed, Startup
  <2> QED
    BY <1>1, <2>1 DEF ManagerOpens, lifeVars
<1>2. CASE ManagerLoops
  <2>1. socket # "closed"
    BY <1>2 DEF ManagerLoops, LoopStep, SocketOpened, HandshakeDone, ConnectionRefused,
                HandshakeBroken, HandshakeRefused, BackoffOver
  <2>2. step' = step /\ skipped' = skipped /\ (code' = "zero" => code = "zero")
    BY <1>2, SeenKeeps DEF ManagerLoops
  <2> QED
    BY <2>1, <2>2
<1>3. CASE ManagerLoses
  <2>1. socket # "closed"
    BY <1>3 DEF ManagerLoses, ConnectionLost
  <2>2. step' = step /\ skipped' = skipped /\ (code' = "zero" => code = "zero")
    BY <1>3, SeenKeeps DEF ManagerLoses
  <2> QED
    BY <2>1, <2>2
<1>4. CASE StartupGoesOn
  BY <1>4 DEF StartupGoesOn, ConnectLegacy, ConnectDatabase, StartupFails, Alive, Exit, vars
<1>5. CASE Elsewhere
  <2>1. socket' = socket
    BY <1>5 DEF Elsewhere, vars
  <2>2. CASE KilledEarly \/ Uncaught
    BY <2>1, <2>2 DEF KilledEarly, Uncaught, Exit
  <2>3. CASE \E c \in Conns : Open(c) \/ Reuse(c) \/ Respond(c) \/ Close(c)
    BY <2>1, <2>3 DEF Open, Reuse, Respond, Close
  <2>4. ASSUME NEW s \in Shutdowns, Begin(s) \/ LegacyQuit(s)
        PROVE  LeftBehind'
    BY <2>1, <2>4 DEF Begin, LegacyQuit, LifecycleInvariant, LifeTypeOK, Teardown
  <2>5. ASSUME NEW s \in Shutdowns,
               TearDownRefused(s) \/ DatabaseDisconnects(s) \/ TearDownFails(s)
        PROVE  LeftBehind'
    BY <2>1, <2>5 DEF TearDownRefused, DatabaseDisconnects, TearDownFails, Exit
  <2> QED
    BY <1>5, <2>2, <2>3, <2>4, <2>5 DEF Elsewhere
<1>6. ASSUME NEW s \in Shutdowns, CallDisconnect(s)
      PROVE  LeftBehind'
  <2>1. socket' = socket /\ TearDown(s)
    BY <1>6 DEF CallDisconnect, Disconnect, vars
  <2> QED
    BY <2>1 DEF TearDown, LifecycleInvariant, LifeTypeOK, Teardown
<1>7. ASSUME NEW s \in Shutdowns, Disconnected(s)
      PROVE  LeftBehind'
  <2>1. socket' = "closed"
    BY <1>7 DEF Disconnected, QuitEnds
  <2> QED
    BY <2>1
<1>8. ASSUME NEW s \in Shutdowns, ShutdownTimeout(s)
      PROVE  LeftBehind'
  BY <1>8 DEF ShutdownTimeout, Timeout, Exit, vars
<1>9. CASE ServerChanges /\ UNCHANGED lifeVars
  BY <1>9 DEF ServerChanges, lifeVars
<1>10. CASE UNCHANGED processVars
  BY <1>10 DEF processVars, vars, lifeVars
<1> QED
  BY <1>1, <1>2, <1>3, <1>4, <1>5, <1>6, <1>7, <1>8, <1>9, <1>10 DEF ProcessNext

\* redisManager.disconnect() is awaited: exit code 0 means that the connection of
\* the manager was over, unless some shutdown found the manager without one.
THEOREM ZeroLeavesRedisHolds == ProcessSpec => []ZeroLeavesRedis
<1>1. ProcessInit => LeftBehind
  BY DEF ProcessInit, Init, LifeInit, LeftBehind, ZeroLeavesRedis
<1>2. LeftBehind => ZeroLeavesRedis
  BY DEF LeftBehind
<1>3. ProcessSpec => []LifecycleInvariant
  BY ProcessImplementsParts, LifecycleInvariantHolds, PTL
<1> QED
  BY <1>1, <1>2, <1>3, LeftBehindNext, PTL DEF ProcessSpec

=============================================================================
