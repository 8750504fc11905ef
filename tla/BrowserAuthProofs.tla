------------------------- MODULE BrowserAuthProofs -------------------------
(***************************************************************************)
(* Proofs about BrowserAuth, for every number of sign-ins and of requests  *)
(* side by side, and every limit.                                          *)
(***************************************************************************)
EXTENDS BrowserAuth, TLAPS

\* The tab starts with nothing sent but its check.
LEMMA InitInvariant == Init => BrowserInvariant
<1> SUFFICES ASSUME Init PROVE BrowserInvariant
  OBVIOUS
<1>1. {"check", "click", "callback", "logout"} \subseteq Flows
  BY DEF Flows
<1>2. /\ pc \in [Flows -> {"sent", "idle"}]
      /\ \A f \in Flows : pc[f] = IF f = "check" THEN "sent" ELSE "idle"
  BY DEF Init, Fresh
<1>3. TypeOK
  BY <1>2 DEF Init, TypeOK, Routes, Protected, InFlight
<1>4. CheckComesFirst /\ CallbackInPlace
  BY <1>1, <1>2 DEF Init, CheckComesFirst, CallbackInPlace, InFlight
<1>5. DeniedLeaves /\ StoredIsUnposted /\ CodePostedOnce
  BY <1>1, <1>2 DEF Init, DeniedLeaves, StoredIsUnposted, CodePostedOnce
<1> QED
  BY <1>3, <1>4, <1>5 DEF BrowserInvariant

\* A new document starts afresh, whatever became of the requests of the old.
LEMMA LoadInvariant ==
  ASSUME BrowserInvariant, NEW p \in Routes \cup {"google"},
         NEW l \in Logins \cup {None}, Load(p, l)
  PROVE  BrowserInvariant'
<1> USE DEF BrowserInvariant, Load
<1>1. {"check", "click", "callback", "logout"} \subseteq Flows
  BY DEF Flows
<1>2. /\ pc' \in [Flows -> {"sent", "idle"}]
      /\ \A f \in Flows :
            pc'[f] = IF f = "check" /\ p # "google" THEN "sent" ELSE "idle"
      /\ \A f \in Flows : answer'[f] = "none"
  BY DEF Fresh
<1>3. TypeOK'
  <2>1. pc' \in [Flows -> InFlight \cup {"idle", "waiting", "done"}]
    BY <1>2 DEF InFlight
  <2>2. answer' \in [Flows -> {"none", "ok", "unauthorized", "failed"}]
    OBVIOUS
  <2>3. consumed' \subseteq Logins
    <3>1. CASE UNCHANGED consumed
      BY <3>1 DEF TypeOK
    <3>2. CASE pc["callback"] = "sent" /\ consumed' = consumed \cup {urlState}
      BY <3>2 DEF TypeOK, CallbackInPlace, InFlight
    <3> QED
      BY <3>1, <3>2
  <2> QED
    BY <2>1, <2>2, <2>3 DEF TypeOK, cookies
<1>4. CheckComesFirst' /\ CallbackInPlace'
  BY <1>1, <1>2 DEF CheckComesFirst, CallbackInPlace, InFlight
<1>5. (StoredIsUnposted /\ CodePostedOnce)'
  BY DEF StoredIsUnposted, CodePostedOnce
<1>6. DeniedLeaves'
  BY <1>1, <1>2 DEF DeniedLeaves, cookies
<1> QED
  BY <1>3, <1>4, <1>5, <1>6

\* What the user and the page start preserves the invariant.
LEMMA SendInvariant ==
  ASSUME BrowserInvariant,
         \/ Click \/ Logout \/ OpenAdmin \/ MountCallback \/ CallbackTimer
         \/ \E f \in Fetches : Fetch(f)
  PROVE  BrowserInvariant'
<1> USE BrowserAssumption DEF BrowserInvariant, TypeOK, CheckComesFirst,
      DeniedLeaves, StoredIsUnposted, CallbackInPlace,
      CodePostedOnce, Routes, Protected, Routed, Flows, InFlight, Send,
      document, cookies, history
<1>1. CASE Click
  BY <1>1 DEF Click
<1>2. CASE Logout
  BY <1>2 DEF Logout
<1>3. CASE OpenAdmin
  BY <1>3 DEF OpenAdmin
<1>4. CASE MountCallback
  <2>1. CASE /\ stored # None /\ stored = urlState
             /\ pc' = [pc EXCEPT !["callback"] = "sent"]
             /\ posts' = [posts EXCEPT ![urlState] = @ + 1]
    <3>1. /\ urlState \in Logins /\ urlState \in minted
          /\ posts[urlState] = 0 /\ posts'[urlState] = 1
          /\ \A l \in Logins \ {urlState} : posts'[l] = posts[l]
      BY <2>1
    <3>2. (StoredIsUnposted /\ CodePostedOnce)'
      BY <1>4, <2>1, <3>1 DEF MountCallback
    <3>3. (TypeOK /\ CheckComesFirst /\ DeniedLeaves /\ CallbackInPlace)'
      BY <1>4, <2>1, <3>1 DEF MountCallback
    <3> QED
      BY <3>2, <3>3
  <2>2. CASE pc' = [pc EXCEPT !["callback"] = "waiting"] /\ UNCHANGED posts
    BY <1>4, <2>2 DEF MountCallback
  <2> QED
    BY <1>4, <2>1, <2>2 DEF MountCallback
<1>5. CASE CallbackTimer
  BY <1>5 DEF CallbackTimer
<1>6. ASSUME NEW f \in Fetches, Fetch(f)
      PROVE  BrowserInvariant'
  BY <1>6 DEF Fetch
<1> HIDE DEF BrowserInvariant
<1> QED
  BY <1>1, <1>2, <1>3, <1>4, <1>5, <1>6

\* Whatever the server does with a request preserves the invariant.
LEMMA ServeInvariant ==
  ASSUME BrowserInvariant, NEW f \in Flows, Serve(f)
  PROVE  BrowserInvariant'
<1> USE BrowserAssumption DEF BrowserInvariant, TypeOK, CheckComesFirst,
      DeniedLeaves, StoredIsUnposted, CallbackInPlace,
      CodePostedOnce, Routes, Protected, Flows, InFlight, Answer, Limited, Hit,
      document, cookies, history
<1>1. CASE ServeLimited(f)
  BY <1>1 DEF ServeLimited
<1>2. CASE ServeGuarded(f)
  BY <1>2 DEF ServeGuarded
<1>3. CASE ServeFails(f)
  <2>1. consumed' \subseteq Logins
    BY <1>3 DEF ServeFails
  <2>2. access' \in BOOLEAN /\ refresh' \in BOOLEAN
    <3>1. CASE UNCHANGED cookies
      BY <3>1
    <3>2. CASE access' = FALSE /\ refresh' = FALSE
      BY <3>2
    <3> QED
      BY <1>3, <3>1, <3>2 DEF ServeFails
  <2>3. TypeOK'
    <3>1. apiHits' \in Nat /\ pc' \in [Flows -> InFlight \cup {"idle", "waiting", "done"}]
      BY <1>3 DEF ServeFails
    <3>2. answer' \in [Flows -> {"none", "ok", "unauthorized", "failed"}]
      BY <1>3 DEF ServeFails
    <3> QED
      BY <1>3, <2>1, <2>2, <3>1, <3>2 DEF ServeFails
  <2>4. (CheckComesFirst /\ DeniedLeaves /\ StoredIsUnposted
         /\ CallbackInPlace /\ CodePostedOnce)'
    BY <1>3 DEF ServeFails
  <2> QED
    BY <2>3, <2>4
<1>4. CASE f = "logout" /\ ServeLogout
  <2>1. access' = FALSE /\ refresh' \in BOOLEAN
    BY <1>4 DEF ServeLogout
  <2>2. TypeOK'
    <3>1. apiHits' \in Nat /\ pc' \in [Flows -> InFlight \cup {"idle", "waiting", "done"}]
      BY <1>4 DEF ServeLogout
    <3>2. answer' \in [Flows -> {"none", "ok", "unauthorized", "failed"}]
      BY <1>4 DEF ServeLogout
    <3> QED
      BY <1>4, <2>1, <3>1, <3>2 DEF ServeLogout
  <2>3. (CheckComesFirst /\ DeniedLeaves /\ StoredIsUnposted
         /\ CallbackInPlace /\ CodePostedOnce)'
    BY <1>4 DEF ServeLogout
  <2> QED
    BY <2>2, <2>3
<1>5. CASE f = "click" /\ ServeClick
  BY <1>5 DEF ServeClick
<1>6. CASE f = "callback" /\ ServeCallback
  <2>1. consumed' \subseteq Logins
    BY <1>6 DEF ServeCallback
  <2>2. TypeOK'
    <3>1. apiHits' \in Nat /\ pc' \in [Flows -> InFlight \cup {"idle", "waiting", "done"}]
      <4>1. pc' = [pc EXCEPT !["callback"] = "answered"] /\ apiHits' = Hit
        BY <1>6, Zenon DEF ServeCallback
      <4> QED
        BY <4>1
    <3>2. answer' \in [Flows -> {"none", "ok", "unauthorized", "failed"}]
      <4>1. answer' = [answer EXCEPT !["callback"] = "ok"]
        BY <1>6, Zenon DEF ServeCallback
      <4> QED
        BY <4>1
    <3> QED
      BY <1>6, <2>1, <3>1, <3>2 DEF ServeCallback
  <2>3. (CheckComesFirst /\ DeniedLeaves /\ StoredIsUnposted
         /\ CallbackInPlace /\ CodePostedOnce)'
    BY <1>6 DEF ServeCallback
  <2> QED
    BY <2>2, <2>3
<1> HIDE DEF BrowserInvariant
<1> QED
  BY <1>1, <1>2, <1>3, <1>4, <1>5, <1>6 DEF Serve

\* Whatever the page does with an answer preserves the invariant.
LEMMA DeliverInvariant ==
  ASSUME BrowserInvariant, NEW f \in Flows, Deliver(f)
  PROVE  BrowserInvariant'
<1> USE BrowserAssumption DEF BrowserInvariant, TypeOK, CheckComesFirst,
      DeniedLeaves, StoredIsUnposted, CallbackInPlace,
      CodePostedOnce, Routes, Protected, Routed, Flows, InFlight, Receive,
      Rejected, AfterRejection, Limited, Hit, document, cookies, history
<1>1. CASE Unauthorized(f)
  BY <1>1 DEF Unauthorized
<1>2. CASE RefreshFails(f)
  BY <1>2 DEF RefreshFails
<1>3. CASE Failed(f)
  BY <1>3 DEF Failed
<1>4. CASE FetchOk(f)
  BY <1>4 DEF FetchOk
<1>5. CASE CheckOk
  BY <1>5 DEF CheckOk
<1>6. ASSUME NEW l \in Logins, ClickOk(l)
      PROVE  BrowserInvariant'
  BY <1>6 DEF ClickOk
<1>7. CASE CallbackOk
  BY <1>7 DEF CallbackOk
<1>8. CASE LogoutOk
  BY <1>8 DEF LogoutOk
<1> HIDE DEF BrowserInvariant
<1> QED
  BY <1>1, <1>2, <1>3, <1>4, <1>5, <1>6, <1>7, <1>8 DEF Deliver

\* The expiries and the limiter's window preserve the invariant.
LEMMA TimeInvariant ==
  ASSUME BrowserInvariant,
         AccessExpires \/ RefreshExpires \/ WindowEnds \/ UNCHANGED vars
  PROVE  BrowserInvariant'
<1>1. /\ UNCHANGED <<page, leaving, isLoading, user, urlState>>
      /\ UNCHANGED <<pc, answer, stored, minted, consumed, posts, denied>>
      /\ apiHits' \in {apiHits, 0}
  BY DEF AccessExpires, RefreshExpires, WindowEnds, vars, document, cookies, history
<1>2. access' \in BOOLEAN /\ refresh' \in BOOLEAN
  <2>1. access \in BOOLEAN /\ refresh \in BOOLEAN
    BY DEF BrowserInvariant, TypeOK
  <2>2. CASE AccessExpires
    BY <2>1, <2>2 DEF AccessExpires
  <2>3. CASE RefreshExpires
    BY <2>1, <2>3 DEF RefreshExpires
  <2>4. CASE WindowEnds \/ UNCHANGED vars
    BY <2>1, <2>4 DEF WindowEnds, cookies, vars
  <2> QED
    BY <2>2, <2>3, <2>4
<1>3. TypeOK'
  BY <1>1, <1>2, BrowserAssumption DEF BrowserInvariant, TypeOK
<1>4. CheckComesFirst'
  BY <1>1 DEF BrowserInvariant, CheckComesFirst
<1>5. DeniedLeaves'
  BY <1>1 DEF BrowserInvariant, DeniedLeaves
<1>6. StoredIsUnposted' /\ CodePostedOnce'
  BY <1>1 DEF BrowserInvariant, StoredIsUnposted, CodePostedOnce
<1>7. CallbackInPlace'
  BY <1>1 DEF BrowserInvariant, CallbackInPlace
<1> QED
  BY <1>3, <1>4, <1>5, <1>6, <1>7 DEF BrowserInvariant

\* Every reachable state of the tab satisfies the invariant.
THEOREM BrowserInvariantHolds == Spec => []BrowserInvariant
<1>1. ASSUME BrowserInvariant, Unload \/ ReturnFromGoogle \/ UserLoads
      PROVE  BrowserInvariant'
  <2>1. /\ stored \in Logins \cup {None}
        /\ urlState \in Logins \cup {None}
        /\ {"login", "google", "callback"} \subseteq Routes \cup {"google"}
    BY <1>1 DEF BrowserInvariant, TypeOK, Routes
  <2>2. \E p \in Routes \cup {"google"}, l \in Logins \cup {None} : Load(p, l)
    BY <1>1, <2>1 DEF Unload, ReturnFromGoogle, UserLoads, Visit
  <2> QED
    BY <1>1, <2>2, LoadInvariant
<1>2. BrowserInvariant /\ [Next]_vars => BrowserInvariant'
  BY <1>1, SendInvariant, ServeInvariant, DeliverInvariant, TimeInvariant DEF Next
<1> QED
  BY <1>2, InitInvariant, PTL DEF Spec

-----------------------------------------------------------------------------
(* The safety properties *)

\* axios.ts and AuthContext: a document whose check was answered 401 never
\* comes to rest.
THEOREM DeniedNeverRestsHolds == Spec => []DeniedNeverRests
<1>1. BrowserInvariant => DeniedNeverRests
  BY DEF BrowserInvariant, DeniedLeaves, DeniedNeverRests, AtRest
<1> QED
  BY <1>1, BrowserInvariantHolds, PTL

\* AuthCallback: the code of a sign-in is posted at most once.
THEOREM CodePostedOnceHolds == Spec => []CodePostedOnce
<1>1. BrowserInvariant => CodePostedOnce
  BY DEF BrowserInvariant
<1> QED
  BY <1>1, BrowserInvariantHolds, PTL

=============================================================================
