---------------------------- MODULE BrowserAuth ----------------------------
(***************************************************************************)
(* One browser tab of the frontend: AuthProvider, LoginPage, AuthCallback, *)
(* ProtectedRoute and the axios interceptors, against the cookies they     *)
(* cannot read and the answers of the server.                              *)
(*                                                                         *)
(* Assigning window.location.href only starts a navigation: the scripts of *)
(* the old document run on until the new one replaces it, and the requests *)
(* they have in flight are then dropped, carried out or not.               *)
(*                                                                         *)
(* POST /api/auth/refresh never succeeds from here.  The browser posts no  *)
(* body, or {}, and the route refuses a body without refreshToken, before  *)
(* the controller sees the cookie.  So no request is ever retried, and     *)
(* since the first interceptor replaces every error that has a body by one *)
(* without a response, the tests of error.response?.status in AuthContext  *)
(* (checkAuth and the second interceptor) never succeed either.            *)
(*                                                                         *)
(* This is the production build, where effects run once.  The consent that *)
(* sign-in number l asks for, its state and its code are called l.         *)
(***************************************************************************)
EXTENDS Integers, FiniteSets

CONSTANTS
  Logins,      \* sign-ins the server may mint a state for
  Fetches,     \* data requests the admin page makes side by side
  None,        \* no state
  Privileged,  \* whether the employee has a role that opens /admin
  ApiMax       \* requests apiLimiter lets through in a window

ASSUME BrowserAssumption ==
  /\ None \notin Logins
  /\ Fetches \cap {"check", "click", "callback", "logout"} = {}
  /\ Privileged \in BOOLEAN
  /\ ApiMax \in Nat

VARIABLES
  page,       \* the route shown, or Google's site
  leaving,    \* where location.href is taking the tab; "no" if nowhere
  isLoading,  \* AuthContext: checkAuth has not finished
  user,       \* AuthContext: somebody is signed in
  pc,         \* pc[f]: how far request f of this document is
  answer,     \* answer[f]: what the server said, on its way to f
  urlState,   \* the state in the URL of this document, or of Google's page
  stored,     \* sessionStorage.oauth_state
  access,     \* the access token in the cookie is accepted
  refresh,    \* the refresh token in the cookie is live
  minted,     \* states the server has issued
  consumed,   \* states whose code the server has exchanged
  apiHits,    \* requests counted in apiLimiter's window
  posts,      \* history: how often the code of a sign-in was posted
  denied      \* history: the check of this document was answered 401

document == <<page, leaving, isLoading, user, urlState>>
cookies == <<access, refresh>>
history == <<posts, denied>>
vars == <<page, leaving, isLoading, user, pc, answer, urlState, stored, access,
          refresh, minted, consumed, apiHits, posts, denied>>

Flows == {"check", "click", "callback", "logout"} \cup Fetches
Protected == {"dashboard", "admin"}
Routes == {"login", "callback", "unauthorized"} \cup Protected
InFlight == {"sent", "answered", "refreshing"}

TypeOK ==
  /\ page \in Routes \cup {"google"}
  /\ leaving \in {"no", "login", "google"}
  /\ isLoading \in BOOLEAN
  /\ user \in BOOLEAN
  /\ pc \in [Flows -> InFlight \cup {"idle", "waiting", "done"}]
  /\ answer \in [Flows -> {"none", "ok", "unauthorized", "failed"}]
  /\ urlState \in Logins \cup {None}
  /\ stored \in Logins \cup {None}
  /\ access \in BOOLEAN
  /\ refresh \in BOOLEAN
  /\ minted \subseteq Logins
  /\ consumed \subseteq Logins
  /\ apiHits \in Nat
  /\ posts \in [Logins -> Nat]
  /\ denied \in BOOLEAN

-----------------------------------------------------------------------------
(* Vocabulary *)

\* The flows of a document that has just been loaded: AuthProvider's effect
\* sends GET /api/auth/me.
Fresh == [f \in Flows |-> IF f = "check" THEN "sent" ELSE "idle"]

\* The route React renders for path p: App and ProtectedRoute redirect.
Routed(p, signedIn) ==
  IF p = "login" /\ signedIn THEN "dashboard"
  ELSE IF p \in Protected /\ ~signedIn THEN "login"
  ELSE IF p = "admin" /\ ~Privileged THEN "unauthorized"
  ELSE p

Limited == apiHits >= ApiMax
Hit == IF Limited THEN apiHits ELSE apiHits + 1

\* The page is shown and nothing is about to replace it.
AtRest == page = "google" \/ (~isLoading /\ leaving = "no")

Init ==
  /\ page \in {"login", "dashboard", "admin"}
  /\ leaving = "no"
  /\ isLoading = TRUE
  /\ user = FALSE
  /\ pc = Fresh
  /\ answer = [f \in Flows |-> "none"]
  /\ urlState = None
  /\ stored = None
  /\ access = FALSE
  /\ refresh = FALSE
  /\ minted = {}
  /\ consumed = {}
  /\ apiHits = 0
  /\ posts = [l \in Logins |-> 0]
  /\ denied = FALSE

-----------------------------------------------------------------------------
(* Documents *)

\* A document replaces the present one.  Nobody hears the answers to the
\* requests in flight, which the server may still carry out.
Load(p, l) ==
  /\ page' = p
  /\ urlState' = l
  /\ leaving' = "no"
  /\ isLoading' = TRUE
  /\ user' = FALSE
  /\ pc' = IF p = "google" THEN [f \in Flows |-> "idle"] ELSE Fresh
  /\ answer' = [f \in Flows |-> "none"]
  /\ denied' = FALSE
  /\ \/ UNCHANGED consumed
     \/ pc["callback"] = "sent" /\ consumed' = consumed \cup {urlState}
  /\ \/ UNCHANGED cookies
     \/ pc["logout"] = "sent" /\ access' = FALSE /\ refresh' = FALSE
  /\ UNCHANGED <<stored, minted, apiHits, posts>>

\* The navigation that location.href started is committed.
Unload ==
  \/ leaving = "login" /\ Load("login", None)
  \/ leaving = "google" /\ Load("google", stored)

\* The user consents and Google redirects back, or the user declines and
\* there is an error in place of the code.
ReturnFromGoogle ==
  /\ page = "google"
  /\ Load("callback", urlState) \/ Load("callback", None)

\* The user opens or reloads a page, whatever is under way, perhaps with an old
\* callback URL.
Visit(p, l) ==
  /\ p = "callback" \/ l = None
  /\ Load(p, l)

-----------------------------------------------------------------------------
(* What the page sends *)

Send(f) ==
  /\ pc[f] = "idle"
  /\ pc' = [pc EXCEPT ![f] = "sent"]

\* LoginPage.handleGoogleLogin.  The button is disabled until an answer comes.
Click ==
  /\ page = "login" /\ ~isLoading
  /\ Send("click")
  /\ UNCHANGED <<document, answer, stored, cookies, minted, consumed, apiHits, history>>

\* AuthContext.logout
Logout ==
  /\ page = "dashboard" /\ ~isLoading
  /\ Send("logout")
  /\ UNCHANGED <<document, answer, stored, cookies, minted, consumed, apiHits, history>>

\* AdminPage asks for its data.
Fetch(f) ==
  /\ page = "admin" /\ ~isLoading
  /\ Send(f)
  /\ UNCHANGED <<document, answer, stored, cookies, minted, consumed, apiHits, history>>

\* Dashboard.handleAdminNavigation
OpenAdmin ==
  /\ page = "dashboard" /\ ~isLoading
  /\ page' = Routed("admin", user)
  /\ UNCHANGED <<leaving, isLoading, user, urlState, pc, answer, stored, cookies,
                 minted, consumed, apiHits, history>>

\* Mutant: the stored state is compared but not removed.
MountCallbackKeepingState ==
  /\ page = "callback" /\ ~isLoading /\ pc["callback"] = "idle"
  /\ \/ /\ stored # None /\ stored = urlState
        /\ pc' = [pc EXCEPT !["callback"] = "sent"]
        /\ posts' = [posts EXCEPT ![urlState] = @ + 1]
     \/ /\ stored = None \/ stored # urlState
        /\ pc' = [pc EXCEPT !["callback"] = "waiting"]
        /\ UNCHANGED posts
  /\ UNCHANGED <<document, stored, answer, cookies, minted, consumed, apiHits, denied>>

\* AuthCallback's effect: the code is posted if the state is the stored one,
\* which is forgotten either way.  A refusal is shown for three seconds.
MountCallback ==
  /\ page = "callback" /\ ~isLoading /\ pc["callback"] = "idle"
  /\ stored' = None
  /\ \/ /\ stored # None /\ stored = urlState
        /\ pc' = [pc EXCEPT !["callback"] = "sent"]
        /\ posts' = [posts EXCEPT ![urlState] = @ + 1]
     \/ /\ stored = None \/ stored # urlState
        /\ pc' = [pc EXCEPT !["callback"] = "waiting"]
        /\ UNCHANGED posts
  /\ UNCHANGED <<document, answer, cookies, minted, consumed, apiHits, denied>>

\* The three seconds are over: navigate('/login').
CallbackTimer ==
  /\ pc["callback"] = "waiting"
  /\ pc' = [pc EXCEPT !["callback"] = "done"]
  /\ page' = Routed("login", user)
  /\ UNCHANGED <<leaving, isLoading, user, urlState, answer, stored, cookies,
                 minted, consumed, apiHits, history>>

-----------------------------------------------------------------------------
(* What the server does with it *)

Answer(f, a) ==
  /\ pc[f] = "sent"
  /\ pc' = [pc EXCEPT ![f] = "answered"]
  /\ answer' = [answer EXCEPT ![f] = a]
  /\ UNCHANGED <<document, stored, minted, history>>

\* apiLimiter answers 429.
ServeLimited(f) ==
  /\ Limited
  /\ Answer(f, "failed")
  /\ UNCHANGED <<cookies, consumed, apiHits>>

\* Mutant: the limiter does not count these routes.
ServeGuardedUnlimited(f) ==
  /\ f \in {"check"} \cup Fetches
  /\ Answer(f, IF access THEN "ok" ELSE "unauthorized")
  /\ UNCHANGED <<cookies, consumed, apiHits>>

\* authenticateTokenFromCookie in front of GET /api/auth/me and of the admin
\* routes.
ServeGuarded(f) ==
  /\ f \in {"check"} \cup Fetches
  /\ ~Limited
  /\ Answer(f, IF access THEN "ok" ELSE "unauthorized")
  /\ apiHits' = Hit
  /\ UNCHANGED <<cookies, consumed>>

\* The same in front of POST /api/auth/logout, which ends the session.
ServeLogout ==
  /\ ~Limited
  /\ Answer("logout", IF access THEN "ok" ELSE "unauthorized")
  /\ access' = FALSE
  /\ refresh' = (refresh /\ ~access)
  /\ apiHits' = Hit
  /\ UNCHANGED consumed

\* GET /api/auth/google
ServeClick ==
  /\ ~Limited
  /\ minted # Logins
  /\ Answer("click", "ok")
  /\ apiHits' = Hit
  /\ UNCHANGED <<cookies, consumed>>

\* POST /api/auth/google/callback.  The browser keeps both cookies as the answer
\* arrives, whether or not its document hears of it.
ServeCallback ==
  /\ ~Limited
  /\ urlState \notin consumed
  /\ Answer("callback", "ok")
  /\ consumed' = consumed \cup {urlState}
  /\ access' = TRUE
  /\ refresh' = TRUE
  /\ apiHits' = Hit

\* The request or its answer is lost, or the server refuses it for another
\* reason: the code was exchanged before, another limiter, an error.
ServeFails(f) ==
  /\ Answer(f, "failed")
  /\ \/ UNCHANGED consumed
     \/ f = "callback" /\ consumed' = consumed \cup {urlState}
  /\ \/ UNCHANGED cookies
     \/ f = "logout" /\ access' = FALSE /\ refresh' = FALSE
  /\ apiHits' \in {apiHits, Hit}

-----------------------------------------------------------------------------
(* What the page does with the answer *)

Receive(f, a, step) ==
  /\ pc[f] = "answered" /\ answer[f] = a
  /\ pc' = [pc EXCEPT ![f] = step]
  /\ answer' = [answer EXCEPT ![f] = "none"]

\* The first interceptor: a 401 is answered by POST /api/auth/refresh.
Unauthorized(f) ==
  /\ Receive(f, "unauthorized", "refreshing")
  /\ denied' = (denied \/ f = "check")
  /\ UNCHANGED <<document, stored, cookies, minted, consumed, apiHits, posts>>

\* The promise of request f is rejected: the catch and finally of its caller.
Rejected(f) ==
  /\ isLoading' = (isLoading /\ f # "check")
  /\ user' = (user /\ f # "logout")
  /\ stored' = IF f = "callback" THEN None ELSE stored
  /\ page' = IF isLoading' THEN page
             ELSE Routed(IF f = "logout" THEN "login" ELSE page, user')

AfterRejection(f) ==
  IF f = "check" THEN "done" ELSE IF f = "callback" THEN "waiting" ELSE "idle"

\* Mutant: a failed refresh only rejects.
RefreshFailsQuietly(f) ==
  /\ pc[f] = "refreshing"
  /\ pc' = [pc EXCEPT ![f] = AfterRejection(f)]
  /\ Rejected(f)
  /\ apiHits' \in {apiHits, Hit}
  /\ UNCHANGED <<leaving, answer, urlState, cookies, minted, consumed, history>>

\* The refresh is refused, and the interceptor sends the tab to /login.
\* Whether apiLimiter counts it depends on the headers axios leaves on a
\* request without body: validateContentType stands before the limiter.
RefreshFails(f) ==
  /\ pc[f] = "refreshing"
  /\ pc' = [pc EXCEPT ![f] = AfterRejection(f)]
  /\ leaving' = "login"
  /\ Rejected(f)
  /\ apiHits' \in {apiHits, Hit}
  /\ UNCHANGED <<answer, urlState, cookies, minted, consumed, history>>

\* Any other failure reaches the caller, without its status.
Failed(f) ==
  /\ Receive(f, "failed", AfterRejection(f))
  /\ Rejected(f)
  /\ UNCHANGED <<leaving, urlState, cookies, minted, consumed, apiHits, history>>

\* checkAuth: the user is known, and App renders the route.
CheckOk ==
  /\ Receive("check", "ok", "done")
  /\ isLoading' = FALSE
  /\ user' = TRUE
  /\ page' = Routed(page, TRUE)
  /\ UNCHANGED <<leaving, urlState, stored, cookies, minted, consumed, apiHits, history>>

\* The state is stored, and the tab goes to Google.
ClickOk(l) ==
  /\ l \notin minted
  /\ Receive("click", "ok", "done")
  /\ minted' = minted \cup {l}
  /\ stored' = l
  /\ leaving' = "google"
  /\ UNCHANGED <<page, isLoading, user, urlState, cookies, consumed, apiHits, history>>

\* login(employee) and navigate('/dashboard')
CallbackOk ==
  /\ Receive("callback", "ok", "done")
  /\ user' = TRUE
  /\ page' = Routed("dashboard", TRUE)
  /\ UNCHANGED <<leaving, isLoading, urlState, stored, cookies, minted, consumed,
                 apiHits, history>>

\* setUser(null) and navigate('/login'); the server has ended the session.
LogoutOk ==
  /\ Receive("logout", "ok", "idle")
  /\ user' = FALSE
  /\ page' = Routed("login", FALSE)
  /\ UNCHANGED <<leaving, isLoading, urlState, stored, cookies, minted, consumed,
                 apiHits, history>>

FetchOk(f) ==
  /\ f \in Fetches
  /\ Receive(f, "ok", "idle")
  /\ UNCHANGED <<document, stored, cookies, minted, consumed, apiHits, history>>

-----------------------------------------------------------------------------
(* Time *)

\* The access token expires, fifteen minutes after it was issued.
AccessExpires ==
  /\ access
  /\ access' = FALSE
  /\ UNCHANGED <<document, pc, answer, stored, refresh, minted, consumed, apiHits, history>>

\* The refresh token expires, seven days after it was issued.
RefreshExpires ==
  /\ refresh /\ ~access
  /\ refresh' = FALSE
  /\ UNCHANGED <<document, pc, answer, stored, access, minted, consumed, apiHits, history>>

\* apiLimiter's window of fifteen minutes ends.
WindowEnds ==
  /\ apiHits > 0
  /\ apiHits' = 0
  /\ UNCHANGED <<document, pc, answer, stored, cookies, minted, consumed, history>>

Serve(f) ==
  \/ ServeLimited(f) \/ ServeGuarded(f) \/ ServeFails(f)
  \/ f = "logout" /\ ServeLogout
  \/ f = "click" /\ ServeClick
  \/ f = "callback" /\ ServeCallback

Deliver(f) ==
  \/ Unauthorized(f) \/ RefreshFails(f) \/ Failed(f) \/ FetchOk(f)
  \/ f = "check" /\ CheckOk
  \/ f = "click" /\ \E l \in Logins : ClickOk(l)
  \/ f = "callback" /\ CallbackOk
  \/ f = "logout" /\ LogoutOk

UserLoads == \E p \in Routes, l \in Logins \cup {None} : Visit(p, l)

Next ==
  \/ Unload \/ ReturnFromGoogle \/ UserLoads
  \/ Click \/ Logout \/ OpenAdmin \/ MountCallback \/ CallbackTimer
  \/ \E f \in Fetches : Fetch(f)
  \/ \E f \in Flows : Serve(f) \/ Deliver(f)
  \/ AccessExpires \/ RefreshExpires \/ WindowEnds

Spec == Init /\ [][Next]_vars

\* Requests are answered or time out, promises settle, and a navigation that
\* was started is committed.
FairSpec ==
  /\ Spec
  /\ WF_vars(Unload)
  /\ \A f \in Flows : WF_vars(Serve(f)) /\ WF_vars(Deliver(f))

-----------------------------------------------------------------------------
(* Properties *)

\* A document whose check is answered 401 never comes to rest, the login page
\* included: the failed refresh sends it to /login again.  Without a session
\* the login page stays only when the check fails in another way.
DeniedNeverRests == denied /\ pc["check"] = "done" => ~AtRest

\* The reloads end nevertheless, once apiLimiter refuses the check: the tab
\* comes to rest again and again unless the user, with loads that no script had
\* started, or the limiter's clock keep starting over.
ReloadsEnd ==
  \/ []<>AtRest
  \/ []<><<UserLoads /\ ~Unload>>_vars
  \/ []<><<WindowEnds>>_vars

\* The code of a sign-in is posted at most once, and only by the tab that
\* asked for it, whatever is reloaded, revisited or left half-way.
CodePostedOnce == \A l \in Logins : posts[l] <= 1 /\ (posts[l] = 1 => l \in minted)

\* The requirement of automatic token refresh: a request that was refused for its
\* access token, while the refresh token is live, does not end at the login page.
RefreshedAutomatically ==
  [][\A f \in Flows : RefreshFails(f) /\ refresh => leaving' # "login"]_vars

-----------------------------------------------------------------------------
(* Why the safety properties hold: an inductive invariant, in parts *)

\* The user acts in a document that has finished its check.
CheckComesFirst ==
  /\ page # "google" => (isLoading <=> pc["check"] # "done")
  /\ page = "google" => ~user /\ \A f \in Flows : pc[f] = "idle"
  /\ isLoading => ~user /\ \A f \in Flows \ {"check"} : pc[f] = "idle"

\* A denied check is still refreshing, or the document is on its way out.
DeniedLeaves ==
  denied => \/ pc["check"] = "refreshing" /\ isLoading
            \/ page # "google" /\ leaving # "no"

\* The stored state is the tab's own, and its code was not posted yet.
StoredIsUnposted ==
  /\ stored # None => stored \in minted /\ posts[stored] = 0
  /\ \A l \in Logins : posts[l] > 0 => l \in minted

\* A code is posted from the callback page, a logout from elsewhere.
CallbackInPlace ==
  /\ pc["callback"] \in InFlight => page = "callback" /\ urlState # None
  /\ pc["logout"] # "idle" => page # "callback"

BrowserInvariant ==
  /\ TypeOK
  /\ CheckComesFirst
  /\ DeniedLeaves
  /\ StoredIsUnposted
  /\ CallbackInPlace
  /\ CodePostedOnce

=============================================================================
