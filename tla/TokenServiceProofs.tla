------------------------- MODULE TokenServiceProofs -------------------------
(***************************************************************************)
(* Proofs about TokenService, for every set of requests, every lifetime    *)
(* and every retention that TokenAssumption admits.                        *)
(***************************************************************************)
EXTENDS TokenService, TLAPS

-----------------------------------------------------------------------------
(* Type correctness *)

\* The initial state has the declared types.
LEMMA InitTypeOK == Init => TypeOK
  BY DEF Init, TypeOK, Times, Null, Kinds

\* Every request that arrives leaves the declared types.
LEMMA ArriveTypeOK ==
  ASSUME TypeOK, NEW r \in Requests, Arrive(r)
  PROVE  TypeOK'
<1> USE TokenAssumption DEF TypeOK, Times, Null, Kinds, Goto, tables
<1>1. CASE StartLogin(r)
  BY <1>1 DEF StartLogin, Busy, MintSteps
<1>2. ASSUME NEW g \in Requests, StartRefresh(r, g)
      PROVE  TypeOK'
  BY <1>2 DEF StartRefresh, Busy, RefreshSteps
<1>3. ASSUME NEW g \in Requests, NEW k \in {"logout", "me"}, StartAuthenticated(r, g, k)
      PROVE  TypeOK'
  BY <1>3 DEF StartAuthenticated, Busy, CookieSteps
<1> QED
  BY <1>1, <1>2, <1>3 DEF Arrive

\* Every step of a handler leaves the declared types.
LEMMA StepTypeOK ==
  ASSUME TypeOK, NEW r \in Requests, Step(r)
  PROVE  TypeOK'
<1> USE TokenAssumption DEF TypeOK, Times, Null, Goto, tables, tokenTable,
      sessionTable
<1>1. CASE FindToken(r) \/ RejectToken(r) \/ AuditMismatch(r)
  BY <1>1 DEF FindToken, RejectToken, AuditMismatch, Sign, Busy, RefreshSteps
<1>2. CASE RevokeParent(r) \/ RevokeMissingParent(r)
  BY <1>2 DEF RevokeParent, RevokeMissingParent, Busy, MintSteps
<1>3. CASE CreateToken(r) \/ CleanTokens(r)
  BY <1>3 DEF CreateToken, CleanTokens, Busy, MintSteps
<1>4. CASE CleanSessions(r) \/ CreateSession(r)
  BY <1>4 DEF CleanSessions, CreateSession, KeptSessions, Busy, MintSteps
<1>5. CASE VerifyAccess(r) \/ TouchSession(r)
  BY <1>5 DEF VerifyAccess, TouchSession, Busy, CookieSteps
<1>6. CASE RevokeOwn(r) \/ RevokeMissingOwn(r)
  BY <1>6 DEF RevokeOwn, RevokeMissingOwn, Busy, CookieSteps
<1>7. CASE DeleteSession(r) \/ DeleteSessionFails(r) \/ Respond(r)
  BY <1>7 DEF DeleteSession, DeleteSessionFails, Respond, Busy
<1> QED
  BY <1>1, <1>2, <1>3, <1>4, <1>5, <1>6, <1>7 DEF Step

\* Every step of the specification leaves the declared types.
LEMMA NextTypeOK == TypeOK /\ [Next]_vars => TypeOK'
<1> SUFFICES ASSUME TypeOK, [Next]_vars
             PROVE  TypeOK'
  OBVIOUS
<1>1. ASSUME NEW r \in Requests, Arrive(r)
      PROVE  TypeOK'
  BY <1>1, ArriveTypeOK
<1>2. ASSUME NEW r \in Requests, Step(r)
      PROVE  TypeOK'
  BY <1>2, StepTypeOK
<1>3. ASSUME NEW r \in Requests, Fail(r)
      PROVE  TypeOK'
  BY <1>3 DEF TypeOK, Fail, tables
<1>4. CASE ScheduledCleanup
  BY <1>4 DEF TypeOK, ScheduledCleanup, requestVars, tokenTable, KeptSessions
<1>5. CASE Tick
  BY <1>5 DEF TypeOK, Tick, requestVars, tables
<1>6. CASE UNCHANGED vars
  BY <1>6 DEF TypeOK, vars
<1> QED
  BY <1>1, <1>2, <1>3, <1>4, <1>5, <1>6 DEF Next

\* Every reachable state of the token service has the declared types.
THEOREM TypeCorrect == Spec => []TypeOK
  BY InitTypeOK, NextTypeOK, PTL DEF Spec

-----------------------------------------------------------------------------
(* The inductive invariant *)

\* The initial state satisfies the invariant: nothing is issued.
LEMMA InitInvariant == Init => TokenInvariant
  BY InitTypeOK, TokenAssumption
  DEF Init, TokenInvariant, CarriesGrant, StepsOfKind, NothingStoredYet,
      ParentRevokedFirst, LateIsHopeless, LogoutRevokedFirst, RowsWereIssued,
      DeliveredWereIssued, UnspentTokensKept, OpenSessionsKept,
      AccessWithinSession, Issued, RefreshSteps, MintSteps, CookieSteps, Null

\* A request that arrives preserves the invariant.
LEMMA ArriveInvariant ==
  ASSUME TokenInvariant, NEW r \in Requests, Arrive(r)
  PROVE  TokenInvariant'
<1>0. TypeOK'
  BY ArriveTypeOK DEF TokenInvariant
<1> USE <1>0, TokenAssumption DEF TokenInvariant, TypeOK, CarriesGrant, StepsOfKind,
      NothingStoredYet, ParentRevokedFirst, LateIsHopeless, LogoutRevokedFirst,
      RowsWereIssued, DeliveredWereIssued, UnspentTokensKept, OpenSessionsKept,
      AccessWithinSession, Closing, KeptSessions, Stale, Issued, Live, RefreshSteps, MintSteps, CookieSteps, Times, Null, Goto,
      tables, tokenTable, sessionTable
<1>1. CASE StartLogin(r)
  BY <1>1 DEF StartLogin
<1>2. ASSUME NEW g \in Requests, StartRefresh(r, g)
      PROVE  TokenInvariant'
  BY <1>2 DEF StartRefresh, Delivered
<1>3. ASSUME NEW g \in Requests, NEW k \in {"logout", "me"}, StartAuthenticated(r, g, k)
      PROVE  TokenInvariant'
  BY <1>3 DEF StartAuthenticated, Delivered
<1> QED
  BY <1>1, <1>2, <1>3 DEF Arrive

\* Every step of a handler preserves the invariant.
LEMMA StepInvariant ==
  ASSUME TokenInvariant, NEW r \in Requests, Step(r)
  PROVE  TokenInvariant'
<1>0. TypeOK'
  BY StepTypeOK DEF TokenInvariant
<1> USE <1>0, TokenAssumption DEF TokenInvariant, TypeOK, CarriesGrant, StepsOfKind,
      NothingStoredYet, ParentRevokedFirst, LateIsHopeless, LogoutRevokedFirst,
      RowsWereIssued, DeliveredWereIssued, UnspentTokensKept, OpenSessionsKept,
      AccessWithinSession, Closing, KeptSessions, Stale, Issued, Live, RefreshSteps, MintSteps, CookieSteps, Times, Null, Goto,
      tables, tokenTable, sessionTable
<1>1. CASE FindToken(r)
  BY <1>1 DEF FindToken, Sign
<1>2. CASE RejectToken(r)
  BY <1>2 DEF RejectToken
<1>3. CASE RevokeParent(r)
  BY <1>3 DEF RevokeParent
<1>4. CASE RevokeMissingParent(r)
  BY <1>4 DEF RevokeMissingParent
<1>5. CASE CreateToken(r)
  BY <1>5 DEF CreateToken
<1>6. CASE CleanTokens(r)
  BY <1>6 DEF CleanTokens
<1>7. CASE CleanSessions(r)
  BY <1>7 DEF CleanSessions, KeptSessions
<1>8. CASE CreateSession(r)
  BY <1>8 DEF CreateSession
<1>9. CASE VerifyAccess(r)
  BY <1>9 DEF VerifyAccess
<1>10. CASE TouchSession(r)
  BY <1>10 DEF TouchSession
<1>11. CASE RevokeOwn(r)
  BY <1>11 DEF RevokeOwn
<1>12. CASE RevokeMissingOwn(r)
  BY <1>12 DEF RevokeMissingOwn
<1>13. CASE DeleteSession(r)
  BY <1>13 DEF DeleteSession
<1>14. CASE DeleteSessionFails(r)
  BY <1>14 DEF DeleteSessionFails
<1>15. CASE Respond(r)
  BY <1>15 DEF Respond
<1>16. CASE AuditMismatch(r)
  BY <1>16 DEF AuditMismatch, Sign
<1> QED
  BY <1>1, <1>2, <1>3, <1>4, <1>5, <1>6, <1>7, <1>8, <1>9, <1>10, <1>11, <1>12, <1>13, <1>14, <1>15,
     <1>16 DEF Step

\* A failure, a cleanup and the clock preserve the invariant.
LEMMA EnvironmentInvariant ==
  ASSUME TokenInvariant,
         \/ \E r \in Requests : Fail(r)
         \/ ScheduledCleanup
         \/ Tick
         \/ UNCHANGED vars
  PROVE  TokenInvariant'
<1>0. TypeOK'
  BY NextTypeOK DEF TokenInvariant, Next
<1> USE <1>0, TokenAssumption DEF TokenInvariant, TypeOK, CarriesGrant, StepsOfKind,
      NothingStoredYet, ParentRevokedFirst, LateIsHopeless, LogoutRevokedFirst,
      RowsWereIssued, DeliveredWereIssued, UnspentTokensKept, OpenSessionsKept,
      AccessWithinSession, Closing, KeptSessions, Stale, Issued, Live,
      RefreshSteps, MintSteps, CookieSteps, Times, Null
<1>1. ASSUME NEW r \in Requests, Fail(r)
      PROVE  TokenInvariant'
  BY <1>1 DEF Fail, Busy, tables
<1>2. CASE ScheduledCleanup
  BY <1>2 DEF ScheduledCleanup, requestVars, tokenTable
<1>3. CASE Tick
  BY <1>3 DEF Tick, requestVars, tables
<1>4. CASE UNCHANGED vars
  BY <1>4 DEF vars
<1> QED
  BY <1>1, <1>2, <1>3, <1>4

\* Every reachable state of the token service satisfies the invariant.
THEOREM TokenInvariantHolds == Spec => []TokenInvariant
<1>1. Init => TokenInvariant
  BY InitInvariant
<1>2. TokenInvariant /\ [Next]_vars => TokenInvariant'
  BY ArriveInvariant, StepInvariant, EnvironmentInvariant DEF Next
<1> QED
  BY <1>1, <1>2, PTL DEF Spec

-----------------------------------------------------------------------------
(* The safety properties *)

\* verifyAndRefreshToken: no refresh token has a successor before it is revoked,
\* whatever fails or interleaves between the two statements.
THEOREM SuccessorAfterRevocationHolds == Spec => []SuccessorAfterRevocation
<1>1. TokenInvariant => SuccessorAfterRevocation
  BY DEF TokenInvariant, ParentRevokedFirst, SuccessorAfterRevocation
<1> QED
  BY <1>1, TokenInvariantHolds, PTL

\* verifyAndRefreshToken: a refresh that arrives with a spent, expired or deleted
\* token stores neither a token nor a session.
THEOREM LateRefreshIssuesNothingHolds == Spec => []LateRefreshIssuesNothing
<1>1. TokenInvariant => LateRefreshIssuesNothing
  BY DEF TokenInvariant, LateIsHopeless, LateRefreshIssuesNothing
<1> QED
  BY <1>1, TokenInvariantHolds, PTL

\* logout: after its answer the refresh token it carried is never live again.
THEOREM LogoutSpendsTokenHolds == Spec => []LogoutSpendsToken
<1>1. TokenInvariant => LogoutSpendsToken
  BY DEF TokenInvariant, LogoutRevokedFirst, LogoutSpendsToken, LoggedOut, Live
<1> QED
  BY <1>1, TokenInvariantHolds, PTL

\* cleanupExpiredTokens and the hourly cleanup leave every session row that a
\* delivered, unexpired access token needs.
THEOREM DeliveredAccessIsAcceptedHolds == Spec => []DeliveredAccessIsAccepted
<1>1. TokenInvariant => DeliveredAccessIsAccepted
  <2> SUFFICES ASSUME TokenInvariant, NEW g \in Delivered \ Closing,
                      now < accessExpiry[g]
               PROVE  Accepts(g)
    BY DEF DeliveredAccessIsAccepted
  <2> USE DEF TokenInvariant, TypeOK, Times, Null
  <2>1. g \in Requests /\ sessionExpiry[g] # Null
    BY DEF Delivered, AccessWithinSession
  <2>2. now <= sessionExpiry[g]
    BY <2>1 DEF AccessWithinSession
  <2>3. g \in sessions
    BY <2>1, <2>2 DEF OpenSessionsKept
  <2> QED
    BY <2>1, <2>2, <2>3 DEF Accepts
<1> QED
  BY <1>1, TokenInvariantHolds, PTL

\* cleanupExpiredTokens never deletes a refresh token that its holder could still
\* redeem.
THEOREM DeliveredTokenIsLiveHolds == Spec => []DeliveredTokenIsLive
<1>1. TokenInvariant => DeliveredTokenIsLive
  BY DEF TokenInvariant, TypeOK, Times, Null, DeliveredTokenIsLive, Delivered,
         DeliveredWereIssued, UnspentTokensKept, Live
<1> QED
  BY <1>1, TokenInvariantHolds, PTL

-----------------------------------------------------------------------------
(* The tables implement RefreshTokenLifecycle *)

\* No row of the initial state is a token.
LEMMA InitImplements == Init => Lifecycle!Init
  BY DEF Init, Lifecycle!Init, Life, Parent, LifeOf, Issued, Null

\* A step that touches neither the clock nor the token table is invisible.
LEMMA Invisible ==
  ASSUME UNCHANGED <<now, tokenTable>>,
         \A g \in Requests : Issued(g) => given'[g] = given[g]
  PROVE  UNCHANGED Lifecycle!vars
<1>1. \A g \in Requests : LifeOf(g)' = LifeOf(g)
  BY DEF tokenTable, LifeOf, Issued
<1>2. Parent' = Parent
  BY DEF tokenTable, Parent, Issued
<1> QED
  BY <1>1, <1>2 DEF Lifecycle!vars, Life, tokenTable

\* The revocation of a row spends a live token; of any other, it changes nothing.
LEMMA RevocationSpends ==
  ASSUME TokenInvariant, NEW g \in tokens,
         revokedAt' = [revokedAt EXCEPT ![g] = now],
         UNCHANGED <<now, given, tokens, tokenExpiry>>
  PROVE  Lifecycle!Spend(g) \/ UNCHANGED Lifecycle!vars
<1> USE DEF TokenInvariant, TypeOK, Times, Null
<1>1. g \in Requests
  OBVIOUS
<1>2. Parent' = Parent
  BY DEF Parent, Issued
<1>3. \A h \in Requests \ {g} : LifeOf(h)' = LifeOf(h)
  BY DEF LifeOf, Issued
<1>4. CASE LifeOf(g) = "live"
  <2>1. LifeOf(g)' = "spent"
    BY <1>1, <1>4 DEF LifeOf, Issued
  <2>2. Life' = [Life EXCEPT ![g] = "spent"]
    BY <1>1, <1>3, <2>1 DEF Life
  <2> QED
    BY <1>1, <1>2, <1>4, <2>2 DEF Lifecycle!Spend, Life
<1>5. CASE LifeOf(g) # "live"
  <2>1. LifeOf(g)' = LifeOf(g)
    BY <1>1, <1>5 DEF LifeOf, Issued
  <2>2. Life' = Life
    BY <1>1, <1>3, <2>1 DEF Life
  <2> QED
    BY <1>2, <2>2 DEF Lifecycle!vars
<1> QED
  BY <1>4, <1>5

\* generateRefreshToken issues the token, at a login or as the successor of a
\* token that is no longer live.
LEMMA CreationIssues ==
  ASSUME TokenInvariant, NEW r \in Requests, CreateToken(r)
  PROVE  \/ Lifecycle!IssueAtLogin(r)
         \/ \E p \in Requests : Lifecycle!IssueSuccessor(r, p)
<1> USE TokenAssumption
    DEF TokenInvariant, TypeOK, Times, Null, CreateToken, Goto, sessionTable
<1>1. ~Issued(r) /\ Issued(r)'
  BY DEF NothingStoredYet, RefreshSteps, Issued
<1>2. revokedAt[r] = Null
  BY <1>1 DEF RowsWereIssued
<1>3. LifeOf(r) = "unissued" /\ LifeOf(r)' = "live"
  BY <1>1, <1>2 DEF LifeOf
<1>4. \A h \in Requests \ {r} : LifeOf(h)' = LifeOf(h)
  BY DEF LifeOf, Issued
<1>5. Life' = [Life EXCEPT ![r] = "live"]
  BY <1>3, <1>4 DEF Life
<1>6. Parent' = [Parent EXCEPT ![r] = given[r]]
  BY <1>1 DEF Parent, Issued
<1>7. Lifecycle!Issue(r, given[r])
  BY <1>3, <1>5, <1>6 DEF Lifecycle!Issue, Life
<1>8. kind[r] \in {"login", "refresh"}
  BY DEF StepsOfKind, MintSteps
<1>9. CASE kind[r] = "login"
  BY <1>7, <1>9 DEF CarriesGrant, Lifecycle!IssueAtLogin
<1>10. CASE kind[r] = "refresh"
  <2>1. given[r] \in Requests /\ Issued(given[r])
    BY <1>10 DEF CarriesGrant, DeliveredWereIssued
  <2>2. revokedAt[given[r]] # Null
    BY <1>10 DEF ParentRevokedFirst
  <2>3. Life[given[r]] \in {"spent", "lapsed"}
    BY <2>1, <2>2 DEF Life, LifeOf
  <2> QED
    BY <1>7, <2>1, <2>3 DEF Lifecycle!IssueSuccessor
<1> QED
  BY <1>8, <1>9, <1>10

\* cleanupExpiredTokens forgets spent tokens; the expired ones had lapsed.
LEMMA CleanupPurges ==
  ASSUME TokenInvariant, NEW r \in Requests, CleanTokens(r)
  PROVE  \E S \in SUBSET Requests : Lifecycle!Purge(S)
<1> DEFINE S == {g \in tokens : Stale(g) /\ LifeOf(g) = "spent"}
<1> USE DEF TokenInvariant, TypeOK, Times, Null, CleanTokens, sessionTable
<1>1. S \in SUBSET Requests
  OBVIOUS
<1>2. ASSUME NEW g \in Requests
      PROVE  LifeOf(g)' = IF g \in S THEN "lapsed" ELSE LifeOf(g)
  BY TokenAssumption DEF LifeOf, Issued, Stale
<1>3. Parent' = Parent
  BY DEF Parent, Issued
<1>4. Lifecycle!Purge(S)
  BY <1>1, <1>2, <1>3 DEF Lifecycle!Purge, Life
<1> QED
  BY <1>1, <1>4

\* The clock moves both, and exactly the tokens that reach their expiry lapse.
LEMMA TimePasses ==
  ASSUME TokenInvariant, Tick
  PROVE  Lifecycle!Tick
<1> USE DEF TokenInvariant, TypeOK, Times, Null, Tick, requestVars, tables
<1>1. ASSUME NEW g \in Requests
      PROVE  LifeOf(g)' = IF LifeOf(g) # "unissued" /\ tokenExpiry[g] <= now'
                            THEN "lapsed" ELSE LifeOf(g)
  BY DEF LifeOf, Issued
<1>2. Parent' = Parent
  BY DEF Parent, Issued
<1> QED
  BY <1>1, <1>2 DEF Lifecycle!Tick, Life

\* A request changes what it carries only when it arrives, before it could have
\* issued anything.
LEMMA ArrivalInvisible ==
  ASSUME TokenInvariant, NEW r \in Requests, Arrive(r)
  PROVE  UNCHANGED Lifecycle!vars
<1> USE DEF TokenInvariant, TypeOK, NothingStoredYet, Goto, tables
<1>1. UNCHANGED <<now, tokenTable>>
  BY DEF Arrive, StartLogin, StartRefresh, StartAuthenticated, tokenTable
<1>2. pc[r] = "idle" /\ \A g \in Requests \ {r} : given'[g] = given[g]
  BY DEF Arrive, StartLogin, StartRefresh, StartAuthenticated
<1>3. ~Issued(r)
  BY <1>2
<1> QED
  BY <1>1, <1>2, <1>3, Invisible

\* Every step of a handler is a step of the lifecycle or invisible.
LEMMA StepImplements ==
  ASSUME TokenInvariant, NEW r \in Requests, Step(r)
  PROVE  [Lifecycle!Next]_(Lifecycle!vars)
<1>1. CASE RevokeParent(r) \/ RevokeOwn(r)
  <2>1. Lifecycle!Spend(given[r]) \/ UNCHANGED Lifecycle!vars
    BY <1>1, RevocationSpends DEF RevokeParent, RevokeOwn, sessionTable
  <2>2. given[r] \in Requests
    BY <1>1 DEF RevokeParent, RevokeOwn, TokenInvariant, TypeOK
  <2> QED
    BY <2>1, <2>2 DEF Lifecycle!Next
<1>2. CASE CreateToken(r)
  BY <1>2, CreationIssues DEF Lifecycle!Next
<1>3. CASE CleanTokens(r)
  BY <1>3, CleanupPurges DEF Lifecycle!Next
<1>4. CASE \/ FindToken(r) \/ RejectToken(r) \/ AuditMismatch(r)
           \/ RevokeMissingParent(r)
           \/ CleanSessions(r) \/ CreateSession(r)
  BY <1>4, Invisible
  DEF FindToken, RejectToken, AuditMismatch, RevokeMissingParent, CleanSessions,
      CreateSession,
      tables, tokenTable
<1>5. CASE \/ VerifyAccess(r) \/ TouchSession(r) \/ RevokeMissingOwn(r)
           \/ DeleteSession(r) \/ DeleteSessionFails(r) \/ Respond(r)
  BY <1>5, Invisible
  DEF VerifyAccess, TouchSession, RevokeMissingOwn, DeleteSession,
      DeleteSessionFails, Respond, tables, tokenTable
<1> QED
  BY <1>1, <1>2, <1>3, <1>4, <1>5 DEF Step

\* The database rows of refresh tokens, under every interleaving of requests,
\* failures, cleanups and time, behave as RefreshTokenLifecycle says.
THEOREM TokenServiceImplementsLifecycle == Spec => ImplementsLifecycle
<1>1. ASSUME TokenInvariant, [Next]_vars
      PROVE  [Lifecycle!Next]_(Lifecycle!vars)
  <2>1. ASSUME NEW r \in Requests, Fail(r)
        PROVE  UNCHANGED Lifecycle!vars
    BY <2>1, Invisible DEF Fail, tables, tokenTable
  <2>2. CASE ScheduledCleanup
    BY <2>2, Invisible DEF ScheduledCleanup, requestVars, tokenTable
  <2>3. CASE UNCHANGED vars
    BY <2>3, Invisible DEF vars, tokenTable
  <2> QED
    BY <1>1, <2>1, <2>2, <2>3, ArrivalInvisible, StepImplements, TimePasses
    DEF Next, Lifecycle!Next
<1> QED
  BY <1>1, InitImplements, TokenInvariantHolds, PTL
  DEF Spec, ImplementsLifecycle, Lifecycle!Spec

=============================================================================
