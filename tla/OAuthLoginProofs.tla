-------------------------- MODULE OAuthLoginProofs --------------------------
(***************************************************************************)
(* Proofs about OAuthLogin, for every number of URL requests, callbacks    *)
(* and codes, every pool size and every lifetime of a state.               *)
(***************************************************************************)
EXTENDS OAuthLogin, TLAPS

\* The initial state satisfies the invariant: nothing is issued or open.
LEMMA InitInvariant == Init => OAuthInvariant
  BY OAuthAssumption
  DEF Init, OAuthInvariant, TypeOK, StatesWereIssued, InsertedOnce, ConsumedIsUsed,
      LateIsHopeless, ExchangeFollowsCommit, ResourcesReturned, Times, Null,
      CallbackSteps, TxSteps

\* A request for a URL preserves the invariant, its cleanup included.
LEMMA UrlInvariant ==
  ASSUME OAuthInvariant, NEW u \in Urls,
         RequestUrl(u) \/ UrlStep(u) \/ FailUrl(u)
  PROVE  OAuthInvariant'
<1> USE OAuthAssumption DEF OAuthInvariant, TypeOK, StatesWereIssued, InsertedOnce,
      ConsumedIsUsed, LateIsHopeless, ExchangeFollowsCommit, ResourcesReturned,
      Acceptable, Expired, Times, Null, Ended, UrlSteps, CallbackSteps, TxSteps, Goto,
      EndTransaction, stateTable, google, request
<1>1. CASE RequestUrl(u)
  BY <1>1 DEF RequestUrl
<1>2. CASE CreateState(u)
  BY <1>2 DEF CreateState
<1>3. CASE CleanStates(u)
  BY <1>3 DEF CleanStates
<1>4. CASE FailUrl(u)
  BY <1>4 DEF FailUrl
<1> HIDE DEF OAuthInvariant
<1> QED
  BY <1>1, <1>2, <1>3, <1>4 DEF UrlStep

\* Consents, arriving callbacks and the clock preserve the invariant.
LEMMA EnvironmentInvariant ==
  ASSUME OAuthInvariant,
         \/ \E u \in Urls, c \in Codes : Consent(u, c)
         \/ \E r \in Callbacks, c \in Codes, same \in BOOLEAN : StartCallback(r, c, same)
         \/ Tick
         \/ UNCHANGED vars
  PROVE  OAuthInvariant'
<1> USE OAuthAssumption DEF OAuthInvariant, TypeOK, StatesWereIssued, InsertedOnce,
      ConsumedIsUsed, LateIsHopeless, ExchangeFollowsCommit, ResourcesReturned,
      Acceptable, Expired, Times, Null, Ended, UrlSteps, CallbackSteps, TxSteps, Goto,
      EndTransaction, stateTable, google, request
<1>1. ASSUME NEW u \in Urls, NEW c \in Codes, Consent(u, c)
      PROVE  OAuthInvariant'
  BY <1>1 DEF Consent
<1>2. ASSUME NEW r \in Callbacks, NEW c \in Codes, NEW same \in BOOLEAN,
             StartCallback(r, c, same)
      PROVE  OAuthInvariant'
  BY <1>2 DEF StartCallback
<1>3. CASE Tick
  BY <1>3 DEF Tick
<1>4. CASE UNCHANGED vars
  BY <1>4 DEF vars
<1> HIDE DEF OAuthInvariant
<1> QED
  BY <1>1, <1>2, <1>3, <1>4

\* Every step of a callback preserves the invariant.
LEMMA StepInvariant ==
  ASSUME OAuthInvariant, NEW r \in Callbacks,
         CallbackStep(r)
  PROVE  OAuthInvariant'
<1> USE OAuthAssumption DEF OAuthInvariant, TypeOK, StatesWereIssued, InsertedOnce,
      ConsumedIsUsed, LateIsHopeless, ExchangeFollowsCommit, ResourcesReturned,
      Acceptable, Expired, Times, Null, Ended, UrlSteps, CallbackSteps, TxSteps, Goto,
      EndTransaction, stateTable, google, request
<1>1. CASE BeginTransaction(r)
  BY <1>1 DEF BeginTransaction
<1>2. CASE FindState(r)
  BY <1>2 DEF FindState
<1>3. CASE AuditIpMismatch(r)
  BY <1>3 DEF AuditIpMismatch
<1>4. CASE AuditRejection(r)
  BY <1>4 DEF AuditRejection
<1>5. CASE MarkUsed(r)
  BY <1>5 DEF MarkUsed
<1>6. CASE StatementRejected(r)
  BY <1>6 DEF StatementRejected
<1>7. CASE Commit(r)
  BY <1>7 DEF Commit
<1>8. CASE ExchangeCode(r)
  BY <1>8 DEF ExchangeCode
<1>9. CASE CodeRefused(r)
  BY <1>9 DEF CodeRefused
<1> HIDE DEF OAuthInvariant
<1> QED
  BY <1>1, <1>2, <1>3, <1>4, <1>5, <1>6, <1>7, <1>8, <1>9 DEF CallbackStep

\* Failures and the timeout of Prisma preserve the invariant.
LEMMA FailureInvariant ==
  ASSUME OAuthInvariant, NEW r \in Callbacks,
         \/ AuditFails(r) \/ CommitUnacknowledged(r)
         \/ Fail(r) \/ TransactionTimeout(r)
  PROVE  OAuthInvariant'
<1> USE OAuthAssumption DEF OAuthInvariant, TypeOK, StatesWereIssued, InsertedOnce,
      ConsumedIsUsed, LateIsHopeless, ExchangeFollowsCommit, ResourcesReturned,
      Acceptable, Expired, Times, Null, Ended, UrlSteps, CallbackSteps, TxSteps, Goto,
      EndTransaction, stateTable, google, request
<1>1. CASE AuditFails(r)
  BY <1>1 DEF AuditFails
<1>2. CASE CommitUnacknowledged(r)
  BY <1>2 DEF CommitUnacknowledged
<1>3. CASE Fail(r)
  BY <1>3 DEF Fail
<1>4. CASE TransactionTimeout(r)
  BY <1>4 DEF TransactionTimeout
<1> QED
  BY <1>1, <1>2, <1>3, <1>4

\* Every reachable state of the login flow satisfies the invariant.
THEOREM OAuthInvariantHolds == Spec => []OAuthInvariant
<1>1. OAuthInvariant /\ [Next]_vars => OAuthInvariant'
  BY UrlInvariant, EnvironmentInvariant, StepInvariant, FailureInvariant DEF Next
<1> QED
  BY <1>1, InitInvariant, PTL DEF Spec

-----------------------------------------------------------------------------
(* The safety properties *)

\* Every reachable state has the declared types.
THEOREM TypeCorrect == Spec => []TypeOK
<1>1. OAuthInvariant => TypeOK
  BY DEF OAuthInvariant
<1> QED
  BY <1>1, OAuthInvariantHolds, PTL

\* validateAuthCode: a callback that arrives with a consumed, expired or deleted
\* state never reaches Google.
THEOREM LateCallbackRejectedHolds == Spec => []LateCallbackRejected
<1>1. OAuthInvariant => LateCallbackRejected
  BY DEF OAuthInvariant, LateIsHopeless, LateCallbackRejected
<1> QED
  BY <1>1, OAuthInvariantHolds, PTL

\* validateAuthCode: the code is exchanged only behind the callback's own commit,
\* even when Prisma closes the transaction under it.
THEOREM ExchangeFollowsCommitHolds == Spec => []ExchangeFollowsCommit
<1>1. OAuthInvariant => ExchangeFollowsCommit
  BY DEF OAuthInvariant
<1> QED
  BY <1>1, OAuthInvariantHolds, PTL

\* validateAuthCode: connections and row locks are held only inside a transaction.
THEOREM ResourcesReturnedHolds == Spec => []ResourcesReturned
<1>1. OAuthInvariant => ResourcesReturned
  BY DEF OAuthInvariant
<1> QED
  BY <1>1, OAuthInvariantHolds, PTL

-----------------------------------------------------------------------------
(* The refinement of StateLifecycle *)

\* What the abstract specification sees of the table and of the callbacks.
AbstractStanding == [u \in Urls |-> Standing(u)]
AbstractPhase == [r \in Callbacks |-> Phase(r)]

\* A step of callback r changes the phase of r alone.
LEMMA PhaseOfOthers ==
  ASSUME TypeOK, NEW r \in Callbacks, NEW to, pc' = [pc EXCEPT ![r] = to]
  PROVE  AbstractPhase' = [AbstractPhase EXCEPT ![r] = Phase(r)']
<1>1. \A q \in Callbacks \ {r} : pc'[q] = pc[q]
  BY DEF TypeOK
<1>2. \A q \in Callbacks \ {r} : AbstractPhase'[q] = AbstractPhase[q]
  BY <1>1 DEF AbstractPhase, Phase
<1>3. AbstractPhase'[r] = Phase(r)'
  BY DEF AbstractPhase
<1>4. /\ AbstractPhase' = [q \in Callbacks |-> AbstractPhase'[q]]
      /\ AbstractPhase = [q \in Callbacks |-> AbstractPhase[q]]
  BY DEF AbstractPhase
<1> QED
  BY <1>2, <1>3, <1>4

\* A step of a request for a URL shows no callback anything.
LEMMA PhaseOfUrls ==
  ASSUME TypeOK, NEW u \in Urls, NEW to, pc' = [pc EXCEPT ![u] = to]
  PROVE  UNCHANGED AbstractPhase
<1>1. \A q \in Callbacks : pc'[q] = pc[q]
  BY OAuthAssumption DEF TypeOK
<1> QED
  BY <1>1 DEF AbstractPhase, Phase

\* The standing of a state is read off its row and the clock.
LEMMA StandingKept ==
  ASSUME UNCHANGED <<now, rows, expiry, used>>
  PROVE  UNCHANGED AbstractStanding
BY DEF AbstractStanding, Standing, Acceptable, Expired

\* The steps of a callback that leave the table and its own phase alone.
LEMMA QuietSteps ==
  ASSUME OAuthInvariant, NEW r \in Callbacks,
         UNCHANGED <<now, stateTable, google, request>>,
         \/ \E to : /\ pc' = [pc EXCEPT ![r] = to]
                    /\ \/ pc[r] \in {"begin", "find"} /\ to \in {"begin", "find"}
                       \/ /\ pc[r] \in {"audit_ip", "update", "commit"}
                          /\ to \in {"audit_ip", "update", "commit"}
                       \/ pc[r] \in {"audit_reject", "failed"} /\ to \in {"audit_reject", "failed"}
         \/ UNCHANGED pc
  PROVE  UNCHANGED States!vars
<1>1. UNCHANGED AbstractStanding
  BY StandingKept DEF stateTable
<1>2. UNCHANGED AbstractPhase
  <2>1. CASE UNCHANGED pc
    BY <2>1 DEF AbstractPhase, Phase
  <2>2. CASE ~ UNCHANGED pc
    <3>1. PICK to : /\ pc' = [pc EXCEPT ![r] = to]
                    /\ \/ pc[r] \in {"begin", "find"} /\ to \in {"begin", "find"}
                       \/ /\ pc[r] \in {"audit_ip", "update", "commit"}
                          /\ to \in {"audit_ip", "update", "commit"}
                       \/ pc[r] \in {"audit_reject", "failed"} /\ to \in {"audit_reject", "failed"}
      BY <2>2
    <3>2. pc'[r] = to
      BY <3>1 DEF OAuthInvariant, TypeOK
    <3>3. Phase(r)' = Phase(r)
      BY <3>1, <3>2 DEF Phase
    <3>4. AbstractPhase' = [AbstractPhase EXCEPT ![r] = AbstractPhase[r]]
      BY <3>1, <3>3, PhaseOfOthers DEF OAuthInvariant, AbstractPhase
    <3> QED
      BY <3>4 DEF AbstractPhase
  <2> QED
    BY <2>1, <2>2
<1> QED
  BY <1>1, <1>2 DEF States!vars, AbstractStanding, AbstractPhase, google, request

\* The insertion issues the state; the rest of the request, its cleanup of
\* expired rows included, changes no standing.
LEMMA UrlRefines ==
  ASSUME OAuthInvariant, NEW u \in Urls, RequestUrl(u) \/ UrlStep(u) \/ FailUrl(u)
  PROVE  States!Issue(u) \/ UNCHANGED States!vars
<1> USE DEF OAuthInvariant
<1>1. CASE CreateState(u)
  <2>1. /\ pc[u] = "create" /\ pc' = [pc EXCEPT ![u] = "clean"]
        /\ expiry[u] = Null /\ ~used[u]
        /\ u \in rows' /\ expiry'[u] = now + StateTTL /\ UNCHANGED <<now, used>>
        /\ \A v \in Urls \ {u} : expiry'[v] = expiry[v] /\ (v \in rows' <=> v \in rows)
        /\ UNCHANGED <<google, request>>
    BY <1>1 DEF CreateState, Goto, InsertedOnce, TypeOK
  <2>2. UNCHANGED AbstractPhase
    BY <2>1, PhaseOfUrls
  <2>3. \A v \in Urls \ {u} : AbstractStanding'[v] = AbstractStanding[v]
    BY <2>1 DEF AbstractStanding, Standing, Acceptable, Expired
  <2>4. AbstractStanding[u] = "unissued"
    BY <2>1 DEF AbstractStanding, Standing
  <2>5. now + StateTTL # Null /\ ~(now + StateTTL < now)
    BY OAuthAssumption DEF TypeOK, Null
  <2>6. AbstractStanding'[u] = "open"
    BY <2>1, <2>5 DEF AbstractStanding, Standing, Acceptable, Expired
  <2>7. /\ AbstractStanding' = [v \in Urls |-> AbstractStanding'[v]]
        /\ AbstractStanding = [v \in Urls |-> AbstractStanding[v]]
    BY DEF AbstractStanding
  <2>8. AbstractStanding' = [AbstractStanding EXCEPT ![u] = "open"]
    BY <2>3, <2>6, <2>7
  <2> QED
    BY <2>1, <2>2, <2>4, <2>8
    DEF States!Issue, AbstractStanding, AbstractPhase, google, request
<1>2. CASE CleanStates(u)
  <2>1. /\ pc' = [pc EXCEPT ![u] = "ok"] /\ rows' = {v \in rows : ~Expired(v)}
        /\ UNCHANGED <<now, expiry, used, google, request>>
    BY <1>2 DEF CleanStates, Goto
  <2>2. UNCHANGED AbstractPhase
    BY <2>1, PhaseOfUrls
  <2>3. UNCHANGED AbstractStanding
    BY <2>1 DEF AbstractStanding, Standing, Acceptable, Expired
  <2> QED
    BY <2>1, <2>2, <2>3 DEF States!vars, AbstractStanding, AbstractPhase, google, request
<1>3. CASE RequestUrl(u) \/ FailUrl(u)
  <2>1. /\ \E to : pc' = [pc EXCEPT ![u] = to]
        /\ UNCHANGED <<now, stateTable, google, request>>
    BY <1>3 DEF RequestUrl, FailUrl, Goto
  <2>2. UNCHANGED AbstractPhase
    BY <2>1, PhaseOfUrls
  <2>3. UNCHANGED AbstractStanding
    BY <2>1, StandingKept DEF stateTable
  <2> QED
    BY <2>1, <2>2, <2>3 DEF States!vars, AbstractStanding, AbstractPhase, google, request
<1> QED
  BY <1>1, <1>2, <1>3 DEF UrlStep

\* Consents and arrivals are the abstract ones; as the clock advances, the states
\* whose rows expire lapse together.
LEMMA EnvironmentRefines ==
  ASSUME OAuthInvariant,
         \/ \E u \in Urls, c \in Codes : Consent(u, c)
         \/ \E r \in Callbacks, c \in Codes, same \in BOOLEAN : StartCallback(r, c, same)
         \/ Tick
         \/ UNCHANGED vars
  PROVE  [States!Next]_(States!vars)
<1> USE DEF OAuthInvariant
<1>1. ASSUME NEW u \in Urls, NEW c \in Codes, Consent(u, c)
      PROVE  States!Consent(u, c)
  <2>1. /\ pc[u] = "ok" /\ codeOf[c] = None /\ codeOf' = [codeOf EXCEPT ![c] = u]
        /\ UNCHANGED <<now, pc, stateTable, exchanged, request>>
    BY <1>1 DEF Consent
  <2>2. UNCHANGED AbstractPhase
    BY <2>1 DEF AbstractPhase, Phase
  <2>3. UNCHANGED AbstractStanding
    BY <2>1, StandingKept DEF stateTable
  <2>4. AbstractStanding[u] # "unissued"
    BY <2>1 DEF AbstractStanding, Standing, InsertedOnce
  <2> QED
    BY <2>1, <2>2, <2>3, <2>4
    DEF States!Consent, AbstractStanding, AbstractPhase, request
<1>2. ASSUME NEW r \in Callbacks, NEW c \in Codes, NEW same \in BOOLEAN,
             StartCallback(r, c, same)
      PROVE  States!Arrive(r, c)
  <2>1. /\ codeOf[c] # None /\ pc[r] = "idle" /\ pc' = [pc EXCEPT ![r] = "begin"]
        /\ code' = [code EXCEPT ![r] = c] /\ pc'[r] = "begin"
        /\ UNCHANGED <<now, stateTable, google>>
    BY <1>2 DEF StartCallback, Goto, TypeOK
  <2>2. Phase(r) = "none" /\ Phase(r)' = "waiting"
    BY <2>1 DEF Phase
  <2>3. AbstractPhase[r] = "none" /\ AbstractPhase' = [AbstractPhase EXCEPT ![r] = "waiting"]
    BY <2>1, <2>2, PhaseOfOthers DEF AbstractPhase
  <2>4. UNCHANGED AbstractStanding
    BY <2>1, StandingKept DEF stateTable
  <2> QED
    BY <2>1, <2>3, <2>4
    DEF States!Arrive, States!Move, AbstractStanding, AbstractPhase, google
<1>3. CASE Tick
  <2> DEFINE S == {u \in Urls : Standing(u) = "open" /\ now + 1 > expiry[u]}
  <2>1. /\ now' = now + 1 /\ now \in Nat /\ expiry \in [Urls -> Times]
        /\ UNCHANGED <<pc, rows, expiry, used, google, request>>
    BY <1>3 DEF Tick, TypeOK, stateTable
  <2>2. UNCHANGED AbstractPhase
    BY <2>1 DEF AbstractPhase, Phase
  <2>3. ASSUME NEW u \in Urls
        PROVE  AbstractStanding'[u] = IF u \in S THEN "lapsed" ELSE AbstractStanding[u]
    <3>1. expiry[u] \in Int /\ now \in Int
      BY <2>1 DEF Times, Null
    <3>2. /\ AbstractStanding'[u] = IF used[u] THEN "spent"
                                    ELSE IF expiry[u] = Null THEN "unissued"
                                    ELSE IF u \in rows /\ ~used[u] /\ ~(expiry[u] < now + 1)
                                         THEN "open" ELSE "lapsed"
          /\ AbstractStanding[u] = Standing(u)
          /\ Standing(u) = IF used[u] THEN "spent"
                           ELSE IF expiry[u] = Null THEN "unissued"
                           ELSE IF u \in rows /\ ~used[u] /\ ~(expiry[u] < now)
                                THEN "open" ELSE "lapsed"
      BY <2>1 DEF AbstractStanding, Standing, Acceptable, Expired
    <3> QED
      BY <3>1, <3>2
  <2>4. /\ AbstractStanding' = [u \in Urls |-> AbstractStanding'[u]]
        /\ S \in SUBSET Urls /\ \A u \in S : AbstractStanding[u] = "open"
    BY DEF AbstractStanding
  <2> HIDE DEF S
  <2>5. AbstractStanding' = [u \in Urls |-> IF u \in S THEN "lapsed" ELSE AbstractStanding[u]]
    BY <2>3, <2>4
  <2>6. States!Lapse(S)
    BY <2>1, <2>2, <2>4, <2>5
    DEF States!Lapse, AbstractStanding, AbstractPhase, google, request
  <2> QED
    BY <2>4, <2>6 DEF States!Next
<1>4. CASE UNCHANGED vars
  <2>1. UNCHANGED <<now, pc, rows, expiry, used, google, request>>
    BY <1>4 DEF vars, google, request
  <2>2. UNCHANGED AbstractPhase
    BY <2>1 DEF AbstractPhase, Phase
  <2>3. UNCHANGED AbstractStanding
    BY <2>1, StandingKept
  <2> QED
    BY <2>1, <2>2, <2>3 DEF States!vars, AbstractStanding, AbstractPhase, google, request
<1> QED
  BY <1>1, <1>2, <1>3, <1>4 DEF States!Next

\* The read of the row vets the callback or refuses it, by what is committed now.
LEMMA FindRefines ==
  ASSUME OAuthInvariant, NEW r \in Callbacks, FindState(r)
  PROVE  States!Vet(r) \/ States!Refuse(r)
<1> USE DEF OAuthInvariant
<1>1. /\ pc[r] = "find" /\ state[r] = codeOf[code[r]] /\ state[r] \in Urls
      /\ UNCHANGED <<now, stateTable, google, request>>
  BY DEF FindState, Goto, TypeOK, StatesWereIssued, CallbackSteps, TxSteps
<1>2. Phase(r) = "waiting"
  BY <1>1 DEF Phase
<1>3. UNCHANGED AbstractStanding
  BY <1>1, StandingKept DEF stateTable
<1>4. CASE Acceptable(state[r])
  <2>1. PICK to \in {"update", "audit_ip"} : pc' = [pc EXCEPT ![r] = to]
    BY <1>4 DEF FindState, Goto
  <2>2. pc'[r] = to
    BY <2>1 DEF TypeOK
  <2>3. Phase(r)' = "vetted"
    BY <2>2 DEF Phase
  <2>4. AbstractPhase' = [AbstractPhase EXCEPT ![r] = "vetted"]
    BY <2>1, <2>3, PhaseOfOthers
  <2>5. expiry[state[r]] # Null
    BY <1>1, OAuthAssumption DEF StatesWereIssued, InsertedOnce
  <2>6. AbstractStanding[state[r]] = "open" /\ AbstractPhase[r] = "waiting"
    BY <1>1, <1>2, <1>4, <2>5 DEF AbstractStanding, AbstractPhase, Standing, Acceptable
  <2> QED
    BY <1>1, <1>3, <2>4, <2>6
    DEF States!Vet, States!Move, States!StateOf, AbstractStanding, AbstractPhase, google,
        request
<1>5. CASE ~Acceptable(state[r])
  <2>1. pc' = [pc EXCEPT ![r] = "audit_reject"]
    BY <1>5 DEF FindState, Goto
  <2>2. pc'[r] = "audit_reject"
    BY <2>1 DEF TypeOK
  <2>3. Phase(r)' = "refused"
    BY <2>2 DEF Phase
  <2>4. AbstractPhase' = [AbstractPhase EXCEPT ![r] = "refused"] /\ AbstractPhase[r] = "waiting"
    BY <1>2, <2>1, <2>3, PhaseOfOthers DEF AbstractPhase
  <2> QED
    BY <1>1, <1>3, <2>4
    DEF States!Refuse, States!Move, AbstractStanding, AbstractPhase, google, request
<1> QED
  BY <1>4, <1>5

\* A commit spends the state, whether or not its acknowledgement arrives, and
\* whatever became of the state since it was read.
LEMMA CommitRefines ==
  ASSUME OAuthInvariant, NEW r \in Callbacks, Commit(r) \/ CommitUnacknowledged(r)
  PROVE  States!Spend(r)
<1> USE DEF OAuthInvariant
<1>1. /\ pc[r] = "commit" /\ state[r] = codeOf[code[r]] /\ state[r] \in Urls
      /\ used' = [used EXCEPT ![state[r]] = TRUE]
      /\ UNCHANGED <<now, rows, expiry, google, request>>
  BY DEF Commit, CommitUnacknowledged, Goto, TypeOK, StatesWereIssued, CallbackSteps, TxSteps
<1>2. PICK to \in {"exchange", "failed"} : pc' = [pc EXCEPT ![r] = to]
  BY DEF Commit, CommitUnacknowledged, Goto
<1>3. pc'[r] = to
  BY <1>2 DEF TypeOK
<1>4. Phase(r) = "vetted" /\ Phase(r)' \in {"granted", "refused"}
  BY <1>1, <1>3 DEF Phase
<1>5. /\ AbstractPhase[r] = "vetted"
      /\ \E next \in {"granted", "refused"} :
            AbstractPhase' = [AbstractPhase EXCEPT ![r] = next]
  BY <1>2, <1>4, PhaseOfOthers DEF AbstractPhase
<1>6. \A u \in Urls : /\ used'[u] = (u = state[r] \/ used[u])
                      /\ u # state[r] => used'[u] = used[u]
  BY <1>1 DEF TypeOK
<1>7. AbstractStanding'[state[r]] = "spent"
  BY <1>1, <1>6 DEF AbstractStanding, Standing
<1>8. \A u \in Urls \ {state[r]} : AbstractStanding'[u] = AbstractStanding[u]
  BY <1>1, <1>6 DEF AbstractStanding, Standing, Acceptable, Expired
<1>9. /\ AbstractStanding' = [u \in Urls |-> AbstractStanding'[u]]
      /\ AbstractStanding = [u \in Urls |-> AbstractStanding[u]]
  BY DEF AbstractStanding
<1>10. AbstractStanding' = [AbstractStanding EXCEPT ![codeOf[code[r]]] = "spent"]
  BY <1>1, <1>7, <1>8, <1>9
<1> QED
  BY <1>1, <1>5, <1>10
  DEF States!Spend, States!Move, States!StateOf, AbstractStanding, AbstractPhase, google,
      request

\* The exchange redeems the code, which nobody redeemed before.
LEMMA ExchangeRefines ==
  ASSUME OAuthInvariant, NEW r \in Callbacks, ExchangeCode(r)
  PROVE  States!Redeem(r)
<1> USE DEF OAuthInvariant
<1>1. /\ pc[r] = "exchange" /\ pc' = [pc EXCEPT ![r] = "ok"] /\ pc'[r] = "ok"
      /\ code[r] \notin exchanged /\ exchanged' = exchanged \cup {code[r]}
      /\ UNCHANGED <<now, stateTable, codeOf, request>>
  BY DEF ExchangeCode, Goto, TypeOK
<1>2. Phase(r) = "granted" /\ Phase(r)' = "in"
  BY <1>1 DEF Phase
<1>3. AbstractPhase[r] = "granted" /\ AbstractPhase' = [AbstractPhase EXCEPT ![r] = "in"]
  BY <1>1, <1>2, PhaseOfOthers DEF AbstractPhase
<1>4. UNCHANGED AbstractStanding
  BY <1>1, StandingKept DEF stateTable
<1> QED
  BY <1>1, <1>3, <1>4
  DEF States!Redeem, States!Move, AbstractStanding, AbstractPhase, request

\* Every other end of a callback refuses it, unless it was refused already.
LEMMA EndRefines ==
  ASSUME OAuthInvariant, NEW r \in Callbacks, pc[r] \in CallbackSteps,
         pc' = [pc EXCEPT ![r] = "failed"],
         UNCHANGED <<now, stateTable, google, request>>
  PROVE  States!Refuse(r) \/ UNCHANGED States!vars
<1> USE DEF OAuthInvariant
<1>1. CASE pc[r] = "audit_reject"
  BY <1>1, QuietSteps
<1>2. CASE pc[r] # "audit_reject"
  <2>1. pc'[r] = "failed"
    BY DEF TypeOK
  <2>2. Phase(r) \in {"waiting", "vetted", "granted"} /\ Phase(r)' = "refused"
    BY <1>2, <2>1 DEF Phase, CallbackSteps, TxSteps
  <2>3. /\ AbstractPhase[r] \in {"waiting", "vetted", "granted"}
        /\ AbstractPhase' = [AbstractPhase EXCEPT ![r] = "refused"]
    BY <2>2, PhaseOfOthers DEF AbstractPhase
  <2>4. UNCHANGED AbstractStanding
    BY StandingKept DEF stateTable
  <2> QED
    BY <2>3, <2>4
    DEF States!Refuse, States!Move, AbstractStanding, AbstractPhase, google, request
<1> QED
  BY <1>1, <1>2

\* The handler, its transaction and the cleanup implement the life of a state:
\* each step is one of StateLifecycle or shows nothing.
THEOREM OAuthImplementsStateLifecycle == Spec => ImplementsStateLifecycle
<1>1. Init => States!Init
  <2> SUFFICES ASSUME Init
               PROVE  States!Init
    OBVIOUS
  <2>1. /\ \A u \in Urls : used[u] = FALSE /\ expiry[u] = Null
        /\ \A r \in Callbacks : pc[r] = "idle"
    BY DEF Init
  <2>2. /\ AbstractStanding = [u \in Urls |-> "unissued"]
        /\ AbstractPhase = [r \in Callbacks |-> "none"]
    BY <2>1 DEF AbstractStanding, AbstractPhase, Standing, Phase
  <2> QED
    BY <2>2 DEF Init, States!Init, AbstractStanding, AbstractPhase
<1>2. ASSUME OAuthInvariant, [Next]_vars
      PROVE  [States!Next]_(States!vars)
  <2>1. ASSUME NEW u \in Urls, RequestUrl(u) \/ UrlStep(u) \/ FailUrl(u)
        PROVE  [States!Next]_(States!vars)
    BY <1>2, <2>1, UrlRefines DEF States!Next
  <2>2. ASSUME NEW r \in Callbacks,
               \/ CallbackStep(r) \/ AuditFails(r)
               \/ CommitUnacknowledged(r) \/ Fail(r) \/ TransactionTimeout(r)
        PROVE  [States!Next]_(States!vars)
    <3>1. CASE FindState(r)
      BY <1>2, <3>1, FindRefines DEF States!Next
    <3>2. CASE Commit(r) \/ CommitUnacknowledged(r)
      BY <1>2, <3>2, CommitRefines DEF States!Next
    <3>3. CASE ExchangeCode(r)
      BY <1>2, <3>3, ExchangeRefines DEF States!Next
    <3>4. CASE BeginTransaction(r)
      BY <1>2, <3>4, QuietSteps DEF BeginTransaction, Goto
    <3>5. CASE AuditIpMismatch(r)
      BY <1>2, <3>5, QuietSteps DEF AuditIpMismatch, Goto
    <3>6. CASE MarkUsed(r)
      BY <1>2, <3>6, QuietSteps DEF MarkUsed, Goto
    <3>7. CASE TransactionTimeout(r)
      BY <1>2, <3>7, QuietSteps DEF TransactionTimeout
    <3>8. CASE \/ AuditRejection(r) \/ StatementRejected(r) \/ CodeRefused(r) \/ Fail(r)
      <4>1. /\ pc[r] \in CallbackSteps /\ pc' = [pc EXCEPT ![r] = "failed"]
            /\ UNCHANGED <<now, stateTable, google, request>>
        BY <3>8 DEF AuditRejection, StatementRejected, CodeRefused, Fail, Goto,
                    CallbackSteps, TxSteps
      <4> QED
        BY <1>2, <4>1, EndRefines DEF States!Next
    <3>9. CASE AuditFails(r)
      BY <1>2, <3>9, QuietSteps DEF AuditFails, Goto
    <3> QED
      BY <2>2, <3>1, <3>2, <3>3, <3>4, <3>5, <3>6, <3>7, <3>8, <3>9 DEF CallbackStep
  <2> QED
    BY <1>2, <2>1, <2>2, EnvironmentRefines DEF Next
<1> QED
  BY <1>1, <1>2, OAuthInvariantHolds, PTL DEF Spec, ImplementsStateLifecycle, States!Spec
=============================================================================
