---------------------------- MODULE RedisHealth ----------------------------
(***************************************************************************)
(* What the services of one server process may observe of Redis through    *)
(* isHealthy and isInFallbackMode: Redis comes and goes while the manager  *)
(* retries, and once the manager has given up the process stays in         *)
(* fallback mode.  The two flags are never true together.                  *)
(*                                                                         *)
(* RedisManager implements this specification; SessionService builds on it.*)
(***************************************************************************)

VARIABLE mode

Modes == {"healthy", "unavailable", "fallback"}

HealthInit == mode = "unavailable"

\* The client is connected and ready.
Recover ==
  /\ mode = "unavailable"
  /\ mode' = "healthy"

\* The connection is lost or closed.
Lose ==
  /\ mode = "healthy"
  /\ mode' = "unavailable"

\* The reconnection budget is used up.
GiveUp ==
  /\ mode = "unavailable"
  /\ mode' = "fallback"

HealthNext == Recover \/ Lose \/ GiveUp

HealthSpec == HealthInit /\ [][HealthNext]_mode

=============================================================================
