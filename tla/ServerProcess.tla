--------------------------- MODULE ServerProcess ---------------------------
(***************************************************************************)
(* One server process: the life of server.ts (ServerLifecycle) with the    *)
(* Redis manager that it connects and disconnects (RedisManager).          *)
(*                                                                         *)
(* startServer awaits connect(), and each shutdown awaits disconnect(); in *)
(* between the manager's events set the flag that a shutdown looks at.     *)
(* Each step is one of the two modules, with the other's answer to it.     *)
(***************************************************************************)
EXTENDS RedisManager, ServerLifecycle

processVars == <<vars, lifeVars>>

ProcessInit == Init /\ LifeInit

-----------------------------------------------------------------------------
(* The manager *)

\* What a step of the manager is to the process: connect() returns or throws, or
\* isConnected changes, or nothing is seen of it.
Seen ==
  \/ call = "pending" /\ call' = "resolved" /\ ConnectManager
  \/ call = "pending" /\ call' = "rejected" /\ StartupFails
  \/ /\ call = "pending" => call' = "pending"
     /\ IF stage # "manager" /\ isConnected' # isConnected
          THEN LinkChanges
          ELSE UNCHANGED lifeVars

ManagerOpens == stage = "manager" /\ Connect /\ UNCHANGED lifeVars

ManagerLoops == stage # "exited" /\ LoopStep /\ Seen

ManagerLoses == stage # "exited" /\ ConnectionLost /\ Seen

-----------------------------------------------------------------------------
(* The process *)

\* Startup behind the manager
StartupGoesOn ==
  /\ stage # "manager"
  /\ ConnectLegacy \/ ConnectDatabase \/ StartupFails
  /\ UNCHANGED vars

\* A shutdown calls disconnect().
CallDisconnect(s) ==
  /\ TearDown(s)
  /\ IF isConnected THEN Disconnect ELSE UNCHANGED vars

\* It returns, or throws.
Disconnected(s) ==
  /\ QuitEnds
  /\ ManagerQuit(s) \/ (step[s] = "manager" /\ TearDownFails(s))

ShutdownTimeout(s) == Timeout(s) /\ UNCHANGED vars

\* What the process does without the manager.
Elsewhere ==
  /\ \/ KilledEarly \/ Uncaught
     \/ \E c \in Conns : Open(c) \/ Reuse(c) \/ Respond(c) \/ Close(c)
     \/ \E s \in Shutdowns :
          \/ Begin(s) \/ TearDownRefused(s) \/ LegacyQuit(s) \/ DatabaseDisconnects(s)
          \/ step[s] = "database" /\ TearDownFails(s)
  /\ UNCHANGED vars

ProcessNext ==
  \/ ManagerOpens \/ ManagerLoops \/ ManagerLoses
  \/ StartupGoesOn \/ Elsewhere
  \/ \E s \in Shutdowns : CallDisconnect(s) \/ Disconnected(s) \/ ShutdownTimeout(s)
  \/ ServerChanges /\ UNCHANGED lifeVars

ProcessSpec == ProcessInit /\ [][ProcessNext]_processVars

\* Connecting ends one way or the other, attempts and sleeps end, a client whose
\* server is gone notices, and timers fire.
FairProcessSpec ==
  /\ ProcessSpec
  /\ WF_processVars(ManagerOpens)
  /\ WF_processVars(ManagerLoops)
  /\ WF_processVars(server = "down" /\ ManagerLoses)
  /\ WF_processVars(StartupGoesOn)
  /\ \A s \in Shutdowns : WF_processVars(ShutdownTimeout(s))

-----------------------------------------------------------------------------
(* Properties *)

\* Once the server stays up, the manager is healthy again and again, unless it has
\* given up, was disconnected or its process has ended: it is never stuck between
\* attempts.
RecoversOrGivesUp ==
  <>[](server = "up") =>
    []<>(Healthy \/ fallbackMode \/ socket = "closed" \/ stage = "exited")

\* Exit code 0 means that the connection of the manager was over when its process
\* ended, however losses, reconnections and other shutdowns met the QUIT: no
\* command was cut off.  Only a manager that some shutdown found without its
\* connection may have found it again since.
ZeroLeavesRedis == code = "zero" => socket = "closed" \/ skipped

=============================================================================
