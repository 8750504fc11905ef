---------------------------- MODULE TokenService ----------------------------
(***************************************************************************)
(* Refresh tokens, sessions and access tokens of the production server:    *)
(* JwtService, the login tail, refresh and logout of AuthController, and   *)
(* authenticateTokenFromCookie, over the RefreshToken and Session tables.  *)
(*                                                                         *)
(* A request is a process; each of its steps is one database statement     *)
(* with the local code that follows the await, so that requests interleave *)
(* exactly where the code awaits.  A login or a refresh mints one grant: a *)
(* session id, an access token and a refresh token.  The ids come from     *)
(* crypto.randomUUID and crypto.randomBytes(128) and never collide, so the *)
(* grant minted by request r is called r.                                  *)
(*                                                                         *)
(* `Fail' stands for a statement that rejects, an acknowledgement that is  *)
(* lost after the statement was applied (the step, then Fail), a crash of  *)
(* the process, and a response the client never receives.                  *)
(***************************************************************************)
EXTENDS Integers

CONSTANTS
  Requests,     \* HTTP requests; also the grants they may mint
  NoGrant,      \* the request presented no grant
  AccessTTL,    \* 15 minutes
  SessionTTL,   \* 24 hours
  RefreshTTL,   \* 7 days
  Retention,    \* 30 days, how long revoked tokens are kept
  MaxTime       \* bound on the clock

ASSUME TokenAssumption ==
  /\ NoGrant \notin Requests
  /\ AccessTTL \in Nat \ {0}
  /\ SessionTTL \in Nat
  /\ AccessTTL <= SessionTTL
  /\ RefreshTTL \in Nat \ {0}
  /\ Retention \in Nat
  /\ MaxTime \in Nat

VARIABLES
  now,            \* the clock of server and database
  kind,           \* kind[r]: which handler serves r
  pc,             \* pc[r]: the statement r awaits
  given,          \* given[r]: the grant whose cookie r carries
  tokens,         \* ids of the rows of RefreshToken
  tokenExpiry,    \* column expiresAt; Null until the row is first inserted
  revokedAt,      \* column revokedAt
  sessions,       \* ids of the rows of Session
  sessionExpiry,  \* column expiresAt; Null until the row is first inserted
  accessExpiry,   \* exp claim of the access token of a grant
  late            \* history: refreshes that arrived with a spent token

tables == <<tokens, tokenExpiry, revokedAt, sessions, sessionExpiry>>
tokenTable == <<tokens, tokenExpiry, revokedAt>>
sessionTable == <<sessions, sessionExpiry>>
requestVars == <<kind, pc, given, late>>
vars == <<now, kind, pc, given, tokens, tokenExpiry, revokedAt, sessions,
          sessionExpiry, accessExpiry, late>>

\* A column that was never set.  The columns of a deleted row keep their last
\* value and so double as the row's history.
Null == -1
Times == Nat \cup {Null}

Kinds == {"none", "login", "refresh", "logout", "me"}

\* The statements of generateRefreshToken and createSession, shared by login
\* and refresh, then those of the refresh, then those behind the cookie
\* middleware.
MintSteps == {"create_token", "clean_tokens", "clean_sessions", "create_session"}
RefreshSteps == {"find", "audit_mismatch", "revoke_parent"}
CookieSteps == {"verify", "touch", "revoke_own", "delete_session"}
Busy == MintSteps \cup RefreshSteps \cup CookieSteps \cup {"respond"}

TypeOK ==
  /\ now \in Nat
  /\ kind \in [Requests -> Kinds]
  /\ pc \in [Requests -> Busy \cup {"idle", "ok", "failed"}]
  /\ given \in [Requests -> Requests \cup {NoGrant}]
  /\ tokens \subseteq Requests
  /\ tokenExpiry \in [Requests -> Times]
  /\ revokedAt \in [Requests -> Times]
  /\ sessions \subseteq Requests
  /\ sessionExpiry \in [Requests -> Times]
  /\ accessExpiry \in [Requests -> Times]
  /\ late \subseteq Requests

Init ==
  /\ now = 0
  /\ kind = [r \in Requests |-> "none"]
  /\ pc = [r \in Requests |-> "idle"]
  /\ given = [r \in Requests |-> NoGrant]
  /\ tokens = {}
  /\ tokenExpiry = [r \in Requests |-> Null]
  /\ revokedAt = [r \in Requests |-> Null]
  /\ sessions = {}
  /\ sessionExpiry = [r \in Requests |-> Null]
  /\ accessExpiry = [r \in Requests |-> Null]
  /\ late = {}

-----------------------------------------------------------------------------
(* Vocabulary *)

\* Grants whose cookies a client received.
Delivered == {g \in Requests : kind[g] \in {"login", "refresh"} /\ pc[g] = "ok"}

\* Grants whose logout was answered with success.
LoggedOut == {given[r] : r \in {q \in Requests : kind[q] = "logout" /\ pc[q] = "ok"}}

\* Live, with the revocation test forgotten.
LiveOrRevoked(g) == g \in tokens /\ tokenExpiry[g] > now

\* The where clause of verifyAndRefreshToken's findMany.
Live(g) == g \in tokens /\ tokenExpiry[g] > now /\ revokedAt[g] = Null

Goto(r, from, to) ==
  /\ pc[r] = from
  /\ pc' = [pc EXCEPT ![r] = to]

-----------------------------------------------------------------------------
(* Arrival of requests.  A client may present any grant it ever received:   *)
(* cookies outlive the grant, tabs share a jar, clients retry.              *)

\* handleGoogleCallback once the employee is known: sign, then store.
StartLogin(r) ==
  /\ Goto(r, "idle", "create_token")
  /\ kind' = [kind EXCEPT ![r] = "login"]
  /\ accessExpiry' = [accessExpiry EXCEPT ![r] = now + AccessTTL]
  /\ UNCHANGED <<now, given, tables, late>>

StartRefresh(r, g) ==
  /\ g \in Delivered
  /\ Goto(r, "idle", "find")
  /\ kind' = [kind EXCEPT ![r] = "refresh"]
  /\ given' = [given EXCEPT ![r] = g]
  /\ late' = IF Live(g) THEN late ELSE late \cup {r}
  /\ UNCHANGED <<now, tables, accessExpiry>>

\* logout and getCurrentUser, behind authenticateTokenFromCookie.
StartAuthenticated(r, g, k) ==
  /\ g \in Delivered
  /\ Goto(r, "idle", "verify")
  /\ kind' = [kind EXCEPT ![r] = k]
  /\ given' = [given EXCEPT ![r] = g]
  /\ UNCHANGED <<now, tables, accessExpiry, late>>

-----------------------------------------------------------------------------
(* verifyAndRefreshToken *)

\* The access token is signed right before the next statement is sent.
Sign(r) == accessExpiry' = [accessExpiry EXCEPT ![r] = now + AccessTTL]

\* Mutant: the lookup forgets revokedAt: null.
FindTokenAnyRow(r) ==
  /\ LiveOrRevoked(given[r])
  /\ Goto(r, "find", "revoke_parent")
  /\ Sign(r)
  /\ UNCHANGED <<now, kind, given, tables, late>>

\* Mutant: the successor is created before the old token is revoked.
FindTokenThenCreate(r) ==
  /\ Live(given[r])
  /\ Goto(r, "find", "create_token")
  /\ Sign(r)
  /\ UNCHANGED <<now, kind, given, tables, late>>

\* findMany returns the row.  A request from another address than the one the
\* token was issued to is recorded first, but goes on.
FindToken(r) ==
  /\ Live(given[r])
  /\ \/ Goto(r, "find", "revoke_parent") /\ Sign(r)
     \/ Goto(r, "find", "audit_mismatch") /\ UNCHANGED accessExpiry
  /\ UNCHANGED <<now, kind, given, tables, late>>

AuditMismatch(r) ==
  /\ Goto(r, "audit_mismatch", "revoke_parent")
  /\ Sign(r)
  /\ UNCHANGED <<now, kind, given, tables, late>>

\* Token not found: 401, and the controller clears the cookies.
RejectToken(r) ==
  /\ ~Live(given[r])
  /\ Goto(r, "find", "failed")
  /\ UNCHANGED <<now, kind, given, tables, accessExpiry, late>>

\* The update names the row by id only: it does not look at revokedAt again.
RevokeParent(r) ==
  /\ given[r] \in tokens
  /\ Goto(r, "revoke_parent", "create_token")
  /\ revokedAt' = [revokedAt EXCEPT ![given[r]] = now]
  /\ UNCHANGED <<now, kind, given, tokens, tokenExpiry, sessionTable,
                 accessExpiry, late>>

\* Mutant: a missing row is never reported.
RevokeMissingParentHangs(r) == FALSE

\* The row was deleted since it was found: the update throws.
RevokeMissingParent(r) ==
  /\ given[r] \notin tokens
  /\ Goto(r, "revoke_parent", "failed")
  /\ UNCHANGED <<now, kind, given, tables, accessExpiry, late>>

-----------------------------------------------------------------------------
(* generateRefreshToken, cleanupExpiredTokens and createSession *)

CreateToken(r) ==
  /\ Goto(r, "create_token", "clean_tokens")
  /\ tokens' = tokens \cup {r}
  /\ tokenExpiry' = [tokenExpiry EXCEPT ![r] = now + RefreshTTL]
  /\ UNCHANGED <<now, kind, given, revokedAt, sessionTable, accessExpiry, late>>

\* Mutant: the comparison of the expiry is turned round.
StaleWhileUnexpired(g) ==
  \/ tokenExpiry[g] > now
  \/ revokedAt[g] # Null /\ revokedAt[g] < now - Retention

\* The where clause of the deleteMany on refresh tokens.
Stale(g) ==
  \/ tokenExpiry[g] < now
  \/ revokedAt[g] # Null /\ revokedAt[g] < now - Retention

CleanTokens(r) ==
  /\ Goto(r, "clean_tokens", "clean_sessions")
  /\ tokens' = {g \in tokens : ~Stale(g)}
  /\ UNCHANGED <<now, kind, given, tokenExpiry, revokedAt, sessionTable,
                 accessExpiry, late>>

\* Mutant: the comparison of the session cleanup is turned round.
UnexpiredSessions(s) == {g \in s : sessionExpiry[g] < now}

\* What deleteMany(expiresAt < now) leaves of the session rows s.
KeptSessions(s) == {g \in s : ~(sessionExpiry[g] < now)}

CleanSessions(r) ==
  /\ Goto(r, "clean_sessions", "create_session")
  /\ sessions' = KeptSessions(sessions)
  /\ UNCHANGED <<now, kind, given, tokenTable, sessionExpiry, accessExpiry, late>>

CreateSession(r) ==
  /\ Goto(r, "create_session", "respond")
  /\ sessions' = sessions \cup {r}
  /\ sessionExpiry' = [sessionExpiry EXCEPT ![r] = now + SessionTTL]
  /\ UNCHANGED <<now, kind, given, tokenTable, accessExpiry, late>>

-----------------------------------------------------------------------------
(* authenticateTokenFromCookie, then logout or getCurrentUser *)

\* verifyAccessToken accepts the access token of g.
Accepts(g) ==
  /\ now < accessExpiry[g]
  /\ g \in sessions
  /\ ~(sessionExpiry[g] < now)

VerifyAccess(r) ==
  /\ Goto(r, "verify", IF Accepts(given[r]) THEN "touch" ELSE "failed")
  /\ UNCHANGED <<now, kind, given, tables, accessExpiry, late>>

\* updateSessionActivity throws when the row is gone, and the middleware turns
\* that into a 401.
TouchSession(r) ==
  /\ \/ /\ given[r] \in sessions
        /\ Goto(r, "touch", IF kind[r] = "logout" THEN "revoke_own" ELSE "respond")
     \/ given[r] \notin sessions /\ Goto(r, "touch", "failed")
  /\ UNCHANGED <<now, kind, given, tables, accessExpiry, late>>

\* Mutant: logout ignores a failed revocation, as it ignores a failed deletion.
RevokeOwnIgnoringErrors(r) ==
  /\ Goto(r, "revoke_own", "delete_session")
  /\ \/ revokedAt' = [revokedAt EXCEPT ![given[r]] = now]
     \/ UNCHANGED revokedAt
  /\ UNCHANGED <<now, kind, given, tokens, tokenExpiry, sessionTable,
                 accessExpiry, late>>

\* revokeRefreshToken: update where token hash.
RevokeOwn(r) ==
  /\ given[r] \in tokens
  /\ Goto(r, "revoke_own", "delete_session")
  /\ revokedAt' = [revokedAt EXCEPT ![given[r]] = now]
  /\ UNCHANGED <<now, kind, given, tokens, tokenExpiry, sessionTable,
                 accessExpiry, late>>

RevokeMissingOwn(r) ==
  /\ given[r] \notin tokens
  /\ Goto(r, "revoke_own", "failed")
  /\ UNCHANGED <<now, kind, given, tables, accessExpiry, late>>

DeleteSession(r) ==
  /\ Goto(r, "delete_session", "respond")
  /\ sessions' = sessions \ {given[r]}
  /\ UNCHANGED <<now, kind, given, tokenTable, sessionExpiry, accessExpiry, late>>

\* .catch(() => {}) swallows every failure of the deletion, not only that of a
\* row that is already gone.
DeleteSessionFails(r) ==
  /\ Goto(r, "delete_session", "respond")
  /\ UNCHANGED <<now, kind, given, tables, accessExpiry, late>>

-----------------------------------------------------------------------------

\* The audit log (its errors are swallowed) and the response.
Respond(r) ==
  /\ Goto(r, "respond", "ok")
  /\ UNCHANGED <<now, kind, given, tables, accessExpiry, late>>

\* The awaited statement rejects, or its answer or the response is lost.
Fail(r) ==
  /\ pc[r] \in Busy
  /\ pc' = [pc EXCEPT ![r] = "failed"]
  /\ UNCHANGED <<now, kind, given, tables, accessExpiry, late>>

\* SessionService.cleanupExpiredSessions, every hour, on the same table.
ScheduledCleanup ==
  /\ sessions' = KeptSessions(sessions)
  /\ UNCHANGED <<now, requestVars, tokenTable, sessionExpiry, accessExpiry>>

Tick ==
  /\ now < MaxTime
  /\ now' = now + 1
  /\ UNCHANGED <<requestVars, tables, accessExpiry>>

Arrive(r) ==
  \/ StartLogin(r)
  \/ \E g \in Requests : StartRefresh(r, g)
  \/ \E g \in Requests : StartAuthenticated(r, g, "logout")
  \/ \E g \in Requests : StartAuthenticated(r, g, "me")

\* The next step of the handler of r.
Step(r) ==
  \/ FindToken(r) \/ RejectToken(r) \/ AuditMismatch(r)
  \/ RevokeParent(r) \/ RevokeMissingParent(r)
  \/ CreateToken(r) \/ CleanTokens(r) \/ CleanSessions(r) \/ CreateSession(r)
  \/ VerifyAccess(r) \/ TouchSession(r)
  \/ RevokeOwn(r) \/ RevokeMissingOwn(r)
  \/ DeleteSession(r) \/ DeleteSessionFails(r)
  \/ Respond(r)

Next ==
  \/ \E r \in Requests : Arrive(r) \/ Step(r) \/ Fail(r)
  \/ ScheduledCleanup
  \/ Tick

Spec == Init /\ [][Next]_vars

\* Node runs every continuation whose statement completed, and a statement
\* completes or rejects.  Nothing makes clients send requests or time pass.
FairSpec == Spec /\ \A r \in Requests : WF_vars(Step(r))

-----------------------------------------------------------------------------
(* Properties *)

Issued(g) == tokenExpiry[g] # Null

\* A refresh token gets a successor only after it was itself revoked: no
\* failure between the two statements leaves both redeemable
\* (verifyAndRefreshToken revokes, then generates).
SuccessorAfterRevocation ==
  \A r \in Requests :
    kind[r] = "refresh" /\ Issued(r) => revokedAt[given[r]] # Null

\* A refresh that arrives when its token is already spent, expired or deleted
\* issues nothing, whatever other requests do meanwhile: replay in sequence is
\* always rejected.
LateRefreshIssuesNothing ==
  \A r \in late : ~Issued(r) /\ sessionExpiry[r] = Null

\* Once a logout was answered with success, the refresh token it carried is not
\* live, and never becomes live again.
LogoutSpendsToken == \A g \in LoggedOut : ~Live(g)

\* Grants whose session row some logout deleted or is about to delete.
Closing == {given[r] : r \in {q \in Requests : kind[q] = "logout"
                                /\ pc[q] \in {"delete_session", "respond", "ok", "failed"}}}

\* A client that holds the cookies of a grant is served until its access token
\* expires, unless it logged out: neither cleanup removes a session that a
\* delivered access token still needs.
DeliveredAccessIsAccepted ==
  \A g \in Delivered \ Closing : now < accessExpiry[g] => Accepts(g)

\* A delivered refresh token that nobody spent can be redeemed until it
\* expires: the cleanups of other requests never remove it.
DeliveredTokenIsLive ==
  \A g \in Delivered :
    now < tokenExpiry[g] /\ revokedAt[g] = Null => Live(g)

\* Every request that reached a handler is answered, whatever rows vanish
\* under it.
EveryRequestEnds ==
  \A r \in Requests : pc[r] \in Busy ~> pc[r] \in {"ok", "failed"}

\* The tables implement the life of refresh tokens that
\* RefreshTokenLifecycle describes.
LifeOf(g) ==
  IF ~Issued(g) THEN "unissued"
  ELSE IF tokenExpiry[g] <= now \/ g \notin tokens THEN "lapsed"
  ELSE IF revokedAt[g] # Null THEN "spent"
  ELSE "live"

Life == [g \in Requests |-> LifeOf(g)]

\* The token whose redemption issued g.
Parent == [g \in Requests |-> IF Issued(g) THEN given[g] ELSE NoGrant]

Lifecycle == INSTANCE RefreshTokenLifecycle WITH
  Grants   <- Requests,
  Lifetime <- RefreshTTL,
  clock    <- now,
  status   <- Life,
  parent   <- Parent,
  expiry   <- tokenExpiry

ImplementsLifecycle == Lifecycle!Spec

\* api-documentation.md: refresh tokens are single use.  Two refreshes that
\* both looked the token up before either revoked it break it.
RefreshTokenSingleUse ==
  \A r, q \in Requests :
    /\ kind[r] = "refresh" /\ kind[q] = "refresh"
    /\ Issued(r) /\ Issued(q)
    /\ given[r] = given[q]
    => r = q

\* API.md: logout invalidates the user's session.  A failed deletion is
\* swallowed and the logout still answers success.
LogoutDeletesSession == \A g \in LoggedOut : g \notin sessions

-----------------------------------------------------------------------------
(* Why the safety properties hold: an inductive invariant, in parts *)

\* The handlers of refresh, logout and me have the grant of a client.
CarriesGrant ==
  \A r \in Requests :
    IF kind[r] \in {"refresh", "logout", "me"} THEN given[r] \in Requests
                                             ELSE given[r] = NoGrant

\* A request is at a statement of its own handler.
StepsOfKind ==
  \A r \in Requests :
    /\ pc[r] = "idle" => kind[r] = "none"
    /\ pc[r] \in RefreshSteps => kind[r] = "refresh"
    /\ pc[r] \in MintSteps => kind[r] \in {"login", "refresh"}
    /\ pc[r] \in CookieSteps => kind[r] \in {"logout", "me"}
    /\ pc[r] \in {"revoke_own", "delete_session"} => kind[r] = "logout"

\* A request has written no row before the statement that writes it.
NothingStoredYet ==
  \A r \in Requests :
    /\ pc[r] \in {"idle", "create_token"} \cup RefreshSteps => ~Issued(r)
    /\ pc[r] \in {"idle", "find", "audit_mismatch"} => sessionExpiry[r] = Null

\* A refresh that is about to create its token, or has created it, has revoked
\* the token it was given.
ParentRevokedFirst ==
  \A r \in Requests :
    kind[r] = "refresh" /\ (pc[r] = "create_token" \/ Issued(r))
      => revokedAt[given[r]] # Null

\* A late refresh can only find that its token is not live: the request that
\* minted the token is over and nothing else would issue it again.
LateIsHopeless ==
  \A r \in late :
    /\ kind[r] = "refresh"
    /\ pc[r] \in {"find", "failed"}
    /\ pc[given[r]] = "ok"
    /\ ~Live(given[r])
    /\ ~Issued(r) /\ sessionExpiry[r] = Null

\* A logout past its revocation has revoked its token.
LogoutRevokedFirst ==
  \A r \in Requests :
    kind[r] = "logout" /\ pc[r] \in {"delete_session", "respond", "ok"}
      => revokedAt[given[r]] # Null

\* Only a token that was issued has a row or was revoked.
RowsWereIssued ==
  \A g \in Requests : g \in tokens \/ revokedAt[g] # Null => Issued(g)

\* The token that a client holds was issued.
DeliveredWereIssued ==
  /\ \A r \in Requests :
       kind[r] \in {"login", "refresh"}
         /\ pc[r] \in {"clean_tokens", "clean_sessions", "create_session", "respond", "ok"}
       => Issued(r)
  /\ \A r \in Requests : given[r] \in Requests => Issued(given[r])

\* No cleanup deletes the row of a token that is neither spent nor expired.
UnspentTokensKept ==
  \A g \in Requests :
    Issued(g) /\ now <= tokenExpiry[g] /\ revokedAt[g] = Null => g \in tokens

\* No cleanup deletes a session that has not expired; only a logout does.
OpenSessionsKept ==
  \A g \in Requests \ Closing :
    sessionExpiry[g] # Null /\ now <= sessionExpiry[g] => g \in sessions

\* An access token is signed before its session is stored, and for no longer.
AccessWithinSession ==
  \A g \in Requests :
    /\ accessExpiry[g] <= now + AccessTTL
    /\ sessionExpiry[g] # Null => accessExpiry[g] <= sessionExpiry[g]
    /\ kind[g] \in {"login", "refresh"} /\ pc[g] \in {"respond", "ok"}
         => sessionExpiry[g] # Null

\* The invariant that the steps of the specification preserve.  It ties the
\* statement each handler awaits to what the tables already hold.
TokenInvariant ==
  /\ TypeOK
  /\ CarriesGrant
  /\ StepsOfKind
  /\ NothingStoredYet
  /\ ParentRevokedFirst
  /\ LateIsHopeless
  /\ LogoutRevokedFirst
  /\ RowsWereIssued
  /\ DeliveredWereIssued
  /\ UnspentTokensKept
  /\ OpenSessionsKept
  /\ AccessWithinSession

=============================================================================
