# A TLA+ model of the Google-auth/Redis server

This directory specifies the stateful parts of the repository: the life of
refresh tokens and sessions, the OAuth state of a login, the employee it logs in,
the Redis connection manager with the session service and the cache built on it,
the browser tab with its sign-in, refresh and logout, the admin page, and the
life of the server process. TLC checks every module on small instances, and
TLAPS proves their safety properties, and that five of them implement abstract
specifications, for every value of the constants. Paths below are relative to `src/`; `B/` is `backend/src/` and `F/`
is `frontend/src/`.

## 1. Inventory of the system

### Components

| Component | State it keeps | Operations | Model |
|---|---|---|---|
| Tokens and sessions: `B/services/jwtService.ts`, `B/controllers/authController.ts`, `B/middleware/cookieAuth.ts` | tables `RefreshToken` and `Session`; the cookies of clients | sign, store, verify-and-rotate, revoke, clean up; login tail, refresh, logout, me | `TokenService` |
| Google login: `B/services/googleAuthService.ts` | table `OAuthState`; connections of the Prisma pool; the codes at Google | generateAuthUrl, validateAuthCode | `OAuthLogin` |
| Redis manager: `B/config/redisManager.ts` | client, `isConnected`, `reconnectAttempts`, `fallbackMode` | connect, disconnect, the strategy, five event handlers | `RedisManager`, `ServerProcess` |
| Session service: `B/services/sessionService.ts` | Redis keys, `memoryStore` with its timers, table `Session` | create, get, refresh, invalidate, hourly cleanup | `SessionService` |
| Employee provisioning: `B/controllers/authController.ts:73-190` | table `Employee`; the shared OAuth2Client | ask for the profile, find, link or create, check | `EmployeeProvisioning` |
| Cache service: `B/services/cacheService.ts` | Redis keys, `memoryCache`, the timers of `set` | get, exists, ttl, set, del, invalidate, flush, cleanup | `CacheService` |
| Frontend: `F/contexts/AuthContext.tsx`, `F/config/axios.ts`, `F/components/auth/`, `F/App.tsx` | React state, the document and its requests, `sessionStorage`, cookies | check, sign-in, callback, logout, interceptor, routes | `BrowserAuth` |
| Admin page: `F/components/admin/AdminPage.tsx`, `B/routes/admin.ts` | tab, page, filter, data, loading and error of each tab; requests in flight | change tab, page, filter; answer; statistics and audit queries | `AdminPage` |
| Server lifecycle: `B/server.ts`, `B/config/redis.ts` | stage, clients, HTTP connections, shutdowns and their timers | startup, graceful shutdown, exceptions | `ServerLifecycle`, `ServerProcess` |
| Rate limiting: `B/middleware/rateLimiter.ts` | counters in each process | count and refuse | in `BrowserAuth` |
| Audit log, roles: `B/services/auditService.ts`, `B/middleware/authorize.ts` | rows | log, search, require a role | in `OAuthLogin`, `TokenService`, `AdminPage` |
| CSRF, hardened and development variants (`csrfProtection.ts`, `*Secure.ts`, `*Dev.ts`) | token map; blacklist, nonces; state map | as above | not modelled, see section 6 |

`PROJECT.json` lists every component with its status and the reason.

### How the components interact

- A login asks `generateAuthUrl` for a URL, comes back through Google with a
  code and a state, consumes the state in `validateAuthCode`, finds or makes its
  employee, and mints a grant with `JwtService`: access token, refresh token row,
  session row. `OAuthLogin` ends where `EmployeeProvisioning` begins, and that
  ends where `TokenService.StartLogin` begins; they share only what one hands to
  the next: the exchanged code, and the employee.
- `JwtService` and `SessionService` share the `Session` table. In production the
  handlers create and verify sessions through `JwtService`; of `SessionService`
  `server.ts:24` starts the hourly cleanup (`TokenService.ScheduledCleanup`), and
  the development login calls its operations.
- The services ask `RedisManager` whether Redis is healthy or the process is in
  fallback mode, and pick their tier by the answers. `RedisHealth` is that
  interface: `RedisManager` is proved to implement it, and `SessionService` and
  `CacheService` are written over it.
- The tab reaches the handlers through the limiter, the validation and the cookie
  middleware. `BrowserAuth` takes of the handlers what the tab can tell apart:
  accepted, 401, or another failure, and what happens to the cookies. `AdminPage`
  is what runs inside the tab at `/admin`, with the two queries behind it.
- `server.ts` starts the clients and closes them. `ServerLifecycle` sees of the manager
  only its client and a flag; `ServerProcess` composes it with `RedisManager`, so that
  `connect()`, `disconnect()` and `isConnected` are those of the manager.

### What is hard here

One Node process interleaves requests at every `await`; PostgreSQL and Redis
answer late or not at all; several statements that belong together are
not in a transaction; every login runs cleanups that delete the rows of others;
Redis may come and go or never come back; timers and expiries fire between any
two steps. In the browser a navigation only begins where the code assigns
`location.href`, answers arrive in any order or after the page that asked has
changed its mind, and users reload. `PROJECT.json` lists each hazard at the line where it bites, with the
properties that would catch it, or with the reason why there is none.

### What makes each component correct

- Tokens: a token has a successor only after it was revoked; replay in sequence
  and refresh after logout give nothing; nobody loses an unexpired token or
  session to a cleanup; every request is answered.
- Login: a spent, expired or deleted state is never accepted; the code is
  exchanged only behind a commit; connections and row locks always come back;
  every callback is answered.
- Employees: a Google account keeps to one employee and takes one only through
  its address; an employee deactivated before a login is refused.
- Manager: fallback mode means a whole failed budget, never a short outage; the
  observable modes are those of `RedisHealth`; no attempt is ever stuck.
- Sessions: memory is written only in fallback mode; the tiers agree on every
  session that met no overlap, failure or bypass, and such a session has its row as
  long as it lives.
- Cache: no value is served past its life; a value that a removal reached stays
  out; memory does not fill up with expired entries.
- Browser: a code is posted once, by the tab that asked for it; a refused check always ends at the login page, and the
  reloads on the way end.
- Admin page: unless answers were overtaken, what is shown is what was chosen;
  turning the page skips no log by its offset, although logs of one millisecond have no
  order; a tab is never empty without a reason; spinners stop.
- Server: clients are told to quit behind the last request; exit code 0 says that the
  database is disconnected, and that QUIT of the manager was waited for unless a
  shutdown found the manager without its connection; a shutdown ends the process.

## 2. Modules

| Module | Role |
|---|---|
| `RefreshTokenLifecycle` | abstract: a token is unissued, live, spent or lapsed; it is issued only from a spent parent or by a login, and never comes back |
| `TokenService` | the requests, one action per database statement |
| `TokenServiceProofs` | the theorems about it, and that it implements `RefreshTokenLifecycle` |
| `StateLifecycle` | abstract: a state is unissued, open, used or lapsed; a callback is vetted while its state is open, and each code leads to one login |
| `OAuthLogin`, `OAuthLoginProofs` | the OAuth state, its transaction and the pool; implements `StateLifecycle` |
| `AtomicProvisioning` | abstract: one step finds, takes or makes the employee of a login and judges it |
| `EmployeeProvisioning`, `EmployeeProvisioningProofs` | from Google's profile to the employee row; implements `AtomicProvisioning` |
| `RedisHealth` | abstract: what services can observe of Redis |
| `RedisManager` | the manager and the socket loop of node-redis; implements `RedisHealth` |
| `SessionService`, `SessionServiceProofs` | the three tiers; extends `RedisHealth` |
| `LossyCache` | abstract: a value is stored once, for its own key and life, may get lost at any time, and is seen only while it is in |
| `CacheService`, `CacheServiceProofs` | the two tiers of the cache; extends `RedisHealth` and implements `LossyCache` |
| `BrowserAuth`, `BrowserAuthProofs` | one tab and the answers it gets |
| `AdminPage`, `AdminPageProofs` | the admin page, its requests and their queries |
| `ServerLifecycle` | one process from its start to its exit |
| `ServerProcess` | the two composed: the process with its manager |
| `ProcessProofs` | the theorems about `RedisManager`, `ServerLifecycle` and `ServerProcess`, and that the last implements the two others |
| the modules `MC...` | the instances for TLC, with their symmetry sets |

### Correspondence with the code

**TokenService.** `pc[r]` names the statement a request awaits, and an action is
that statement together with the local code up to the next `await`. A grant, the
triple of session id, access token and refresh token, carries the name of the
request that mints it, because ids come from `crypto.randomUUID` and
`crypto.randomBytes`. `StartLogin` to `Respond` follow
`handleGoogleCallback` from line 191; `FindToken`, `AuditMismatch`, `RevokeParent`
and the mint steps follow `verifyAndRefreshToken`; `VerifyAccess`, `TouchSession`,
`RevokeOwn` and `DeleteSession` follow the cookie middleware and `logout`. The
columns of a deleted row keep their last value, so `tokenExpiry[g] # Null` also
says that `g` was issued.

**OAuthLogin.** `open` holds the callbacks whose transaction is open; each owns a
connection of the pool, and `ConnectionFree` is what a statement outside it needs.
`lock` is the row lock of `MarkUsed`; `used` changes at the commit, as under READ
COMMITTED. `TransactionTimeout` is Prisma's own; the handler notices at its next
statement (`StatementRejected`).

**EmployeeProvisioning.** `pc[r]` names the statement login r awaits. The row it
inserts is called r. `Assign` writes the handler's variable `employee`, of which
the model keeps the row and the `isActive` that was read; `TouchLastLogin` does not
assign, as in the code. `instant` is the millisecond that becomes the `employeeId`: it
is taken before the default role is looked up, and inserted after. `Exchanged` sets the credentials of the shared client and
sends the request in one turn, because google-auth-library reads them before it
first awaits. `LinkGoogleId` and `CreateEmployee` are enabled where the unique
columns permit; a violation is the rejection that `Fail` stands for.

**RedisManager.** `socket` is where the loop of node-redis stands. The code's
handlers run inside its actions: 'connect' in `SocketOpened`, 'ready' and the
answer of `connect()` in `HandshakeDone`, `reconnectStrategy` and 'error' in
`Strategy`, 'end' in `QuitEnds`. `open` is `isOpen` of the client. `disconnect()` looks
at `isConnected` alone, so that `Disconnect` may meet a client that is still in its
handshake, is reconnecting, or is dead: QUIT then waits for a ready client, which may
never come. When the strategy answers with an Error the
loop ends without a further 'error', and the client stays open without a socket
(`dead`). The strategy's counter is the loop's `retries`, which starts at 0 for
each loop. It is asked with 0 first and gives up above ten, so that twelve attempts
fail before it does.

**SessionService.** A session is its expiry in each tier. `getSession` is also the
first half of `refreshSession`; `Deliver` returns the session to whichever of
the two asked. `redisDies` is the life of the Redis key, apart from the expiry
inside its value. The histories mark the sessions that met overlapping calls or
a failure (`troubled`) and those whose copy a writer could not reach
(`bypassed`).

**CacheService.** A value is named by the `set` call that stores it. The part of
a function before its first `await` is the action `Begin...`, which picks the tier;
each command of Redis is an action of its own. `TimerFires` is the timeout that
`set` leaves, `Cleanup` the interval of `startCleanupScheduler`. A pattern means a
set of keys to Redis and a larger or equal one to the `RegExp` made of it. `older`
and `purged` record which values had been stored when a removal was called, and
that the removal reached them.

**BrowserAuth.** `page` is the document with the route React shows in it. `leaving`
is a navigation that has begun and not replaced the document yet; `Unload` replaces
it and drops what is in flight, which the server may carry out. The user may load
another document at any moment (`Visit`), while a request or a navigation is under way
too. `ServeCallback` sets the cookies: the browser keeps them as the answer arrives,
whether or not its document is still there to hear of it. `pc[f]` follows one
request of the document: sent, answered, or waiting for the refresh that the
interceptor made of its 401. The interceptor in `config/axios.ts` is the only one
that acts: it replaces each error that has a body by one without a response, so the
status tests in `AuthContext` never succeed. `RefreshFails` is the only outcome of a
refresh because its route validates a body field that no code of the frontend
sends. `Limited` and `apiHits` are the window of `apiLimiter`.

**AdminPage.** The user's actions set what React's state setters set and send what
the effects send; opening the audit tab sends two requests, since both effects
depend on the tab. A request carries the page and filter of the closure that sent
it. `Succeed` and `Fail` are the three fetch functions, which apply any answer when
it comes. A log has a timestamp, a millisecond that is taken before its row can be
seen, and the query of `auditService.search` orders by it alone. So `WriteLog` puts a
log before, among or behind the others, or beside one with the same timestamp, and
`Rows` is the set of pages that the database may answer: `MayComeFirst` says which logs
may be the first n, and `MayFollow` which ones come next. `CountStaff` one of the two
counts of the statistics. The request for the employees can only fail: the server
has no such route. Pages run to the fixed count of the source, and the pagination
is hidden when a page is empty. Both facts are in the model, and make a user of
the page stay on an empty page until the filter or the tab changes. A setter and the effects it
triggers are one step, without the frame that React may draw in between.

**ServerLifecycle.** `stage` is the `await` that `startServer` stands at, then
`running` or `exited`; `step[s]` is where shutdown s stands. Several shutdowns run
side by side, one for each signal or rejection. node-redis refuses a second QUIT,
and then refuses to disconnect as well (`TearDownRefused`), so a second signal can
turn an orderly end into exit code 1. `skipped` remembers that a shutdown found the
manager without its connection: `disconnect()` then does nothing, and the client stays
open and goes on reconnecting. A Redis that cannot be reached at startup
ends the process, although `README.md:23` promises an automatic fallback.

**ServerProcess.** Each step is a step of `RedisManager` together with what the process
sees of it. `Seen` says that `connect()` has returned or thrown, or that `isConnected`
has changed. `CallDisconnect` is the call in `gracefulShutdown`, `Disconnected` its
answer, which waits for `QuitEnds`. The manager stops with its process.

### Abstractions

- A statement's parameters that are computed when it is sent, such as `new
  Date()`, take the value of the instant at which it executes. The clock is one
  discrete clock for process, database and Redis.
- `Fail` covers a statement that rejects, an acknowledgement lost after the
  statement was applied (the step and then `Fail`), a crash and a lost response.
  What a crash leaves behind is the tables, which no failing action touches. In
  `SessionService`, where the process keeps state, `Restart` is an action of its
  own, and a rejected command may have been applied or not.
- Continuations that run in the same turn of the event loop are one action.
- Hashes, signatures, request data and audit contents are left out. Writing an
  audit record is a step where it matters: in the login transaction it takes a
  second connection, and in a refresh it comes between the lookup and the
  revocation. Elsewhere it is part of `Respond`.
- `TokenService` knows no employees; roles are not modelled. Nothing in the
  repository writes `isActive` or an address, so `Deactivate`, `Reactivate` and
  `ChangeAddress` are steps of the outside. The lookup of the default role and
  the audit record of a creation change nothing the model has and are part of the
  step before them; the time they take is between that step and the next.

## 3. Runs

| Run | Instance | What it shows |
|---|---|---|
| `token_service` | 3 requests, fair, clock to 2 | rotation order, sequential replay and logout under every interleaving of a login and two requests on its cookies; cleanups take nothing a client still needs; every request is answered, also when its row vanishes; refinement of `RefreshTokenLifecycle` |
| `token_single_use` | 4 requests, clock stands | *violation*: two refreshes both find the token before either revokes it |
| `oauth_login` | 2 URLs, 2 callbacks, 2 codes, pool of 2, fair | sequential reuse of a state, exchange behind a commit, return of connections and locks; every callback ends although the pool can be all waiting transactions; refinement of `StateLifecycle` |
| `oauth_once` | 2 callbacks on one state | *violation*: both pass the check |
| `employees` | 3 logins, 2 accounts, 2 addresses, 1 employee | one employee per account, taken through its address; a barred employee is refused on every branch; refinement of `AtomicProvisioning` |
| `server_process` | the retry budget of the code, 2 connections, 3 shutdowns, fair | the meaning of fallback mode, refinement of `RedisHealth`, recovery or fallback; teardown behind the last answer, exit code 0 waits for QUIT, shutdown ends |
| `redis_retries` | the retry budget of the code | *violation*: twelve attempts fail, eleven of them retries, where ten are documented |
| `session_service` | 1 session, 3 calls, two lifetimes of two units | memory only in fallback mode; the tiers agree on calm sessions, which keep their row |
| `cache_service` | 2 keys, 3 calls, clock to 2, fair timers | lives are kept, removals last, expired entries go; refinement of `LossyCache` |
| `browser_auth` | 2 sign-ins, 2 parallel requests, 3 requests a window, fair | codes posted once, refused checks leave, reloads end |
| `browser_refresh` | 1 sign-in, 1 request | *violation*: a request is answered 401 while the refresh token is live, and the tab leaves for the login page |
| `admin_page` | 4 requests, 4 logs and one more, 2 pages of two logs, 2 employees, fair | shown as chosen, nothing skipped by the offset, counts off by those who joined at most, spinner stops |

### Bounds, and why they are enough

- *Requests.* Two requests on one grant make every race between two handlers;
  with the login that minted it that is three. The requests that run a cleanup
  are among them: a second login cleans the rows of the first. The violations
  have a fourth, which shows that a bystander does not hide them.
- *Lifetimes.* The code's are 15 minutes, 24 hours and 7 days, in that order.
  `token_service` sets them equal, so that one tick brings every boundary;
  `token_single_use` has a longer one for refresh tokens.
  `Retention = 0` makes the retention of revoked tokens
  end while the clock still runs; a longer one only delays the same deletion.
  The clock reaches one tick past the last expiry, so each of `<`, `<=`, `>` is
  evaluated before, at and after its boundary.
- `MaxTime` caps the clock in every module that has one. `AdminPage` also bounds
  its requests, logs and staff, as said below. Requests, calls and codes are used
  once each, which bounds the rest.
- *Pool.* As many callbacks as connections: all connections may belong to
  transactions that wait for one more. `StateTTL = 0` makes a state expire at
  the first tick; it is still valid at the instant it is created.
- *Employees.* Two logins of one account race for its first row while a third, of
  another account, takes over the address or uses the shared client. The two
  instants of the clock let two insertions meet in one millisecond or not. The
  known employee is found by address, the others are created.
- *Redis.* The retry budget is the code's own 10, in both runs. How long the loop sleeps
  between two attempts is not modelled, only that the sleep ends.
- *Sessions.* Sessions do not interact, so one is enough; three calls are its
  creation and two others, which overlap, fail or wait for one another while
  the key, the row and the timer expire. A lifetime of two units lets a refresh move the
  expiry in the middle of a life, and the clock to 4 lets the extended session expire.
- *Cache.* A value, its removal and a reader, or two values under one key whose
  timers cross, are three calls; the second key is what a pattern may or may not
  reach. One lifetime of one unit with a clock to 2 gives each expiry a before, an
  at and an after.
- *Browser.* The first sign-in may be left, reloaded or repeated while the second
  runs. Two page requests that fail at once are enough for every pair of
  interceptors. A limit of three lets a check, a click and a callback through and
  refuses the next; the window ends at any time.
- *Admin page.* `MaxRequests = 4` is the statistics, the two of the opened tab and one
  that overtakes or is overtaken. Four logs on pages of two, two of them of one
  millisecond, and a fifth that appears meanwhile with any timestamp: before, among or
  behind the others, or beside one of them. `MaxLogs` and `MaxStaff` bound the tables.
- *Lifecycle.* Three shutdowns: one that quits, one that meets it, and one whose
  timer fires. Nothing else bounds the process; its state is finite.
- `CHECK_DEADLOCK FALSE` is set everywhere, because each instance ends when its
  requests are used up and its clock has reached the bound; a server process ends.
- Symmetry is used for requests, URLs, callbacks, codes, logins, accounts,
  addresses and calls, which no
  definition tells apart, and only in runs without liveness.

### Fairness

- A handler's next step is weakly fair (`TokenService`, `OAuthLogin`): a
  statement completes or rejects, and Node runs the continuation. Arrivals,
  failures, cleanups and the clock are not fair.
- `TransactionTimeout` is weakly fair because Prisma closes an interactive
  transaction after 5 s on its own. `EveryCallbackEnds` rests on it, and its
  mutant without the timeout fails.
- The socket loop is weakly fair: an attempt ends and a sleep is over. A client
  whose server is gone notices (an error or a failing write). The server itself
  is not fair; progress is claimed only when it stays up.
- Every pending timeout of the cache fires at its time or later (`Timers`); the
  five-minute cleanup is not counted on.
- In the tab a request is answered or times out after 30 s (`F/config/axios.ts:6`),
  its promise settles, and a navigation that has begun is committed. The user, the
  server's clock and the limiter's window are not fair: `ReloadsEnd` says that the tab
  comes to rest again and again unless the user, with loads that no script had
  started, or the window starts over for ever.
- Every request of the admin page ends, for the same reason (`Answer`).
- In `ServerProcess` connecting ends, since both clients have a connect timeout and a bounded retry
  budget, and the 30 s timer of each shutdown fires. HTTP clients, the answer
  to QUIT, the Redis server and the database are not fair, so `ShutdownEnds` holds although all of them hang.

## 4. Proofs

The invariants, the action properties and the refinements of the passing runs are
proved as theorems of `Spec`, for any number of requests, employees, accounts,
keys, pages, logs, connections and shutdowns, any lifetimes, limits and any retry
budget, from the named assumptions on the constants (`TokenAssumption`,
`OAuthAssumption`, `EmployeeAssumption`, `ManagerAssumption`, `SessionAssumption`,
`CacheAssumption`, `BrowserAssumption`, `AdminAssumption`, `LifecycleAssumption`).
Those say that the constants are natural numbers, or Booleans where they are flags,
that the null values are not ids, and that an access token lives no longer than its
session.

Each proof module goes the same way: an inductive invariant, `Init` implies it,
each action preserves it, it implies the properties. Those of the tokens, the login
and the manager are also invariants of the runs; the others were checked there while
they were written and are left to the proofs, which say more.

- **TokenInvariant.** None of the properties is inductive by itself, since they
  speak of rows and requests and say nothing of where the handlers stand. The
  invariant ties the two. `ParentRevokedFirst` carries the revocation from
  `RevokeParent` to `CreateToken`. `LateIsHopeless` says that a late refresh waits
  at its lookup, and that the request that minted its token is over, so that
  nobody can make the token live again. `UnspentTokensKept` and
  `OpenSessionsKept` state what cleanups leave. `AccessWithinSession` compares the
  two expiries that are set at different instants; it is where
  `AccessTTL <= SessionTTL` is needed.
- **TokenServiceImplementsLifecycle.** The refinement mapping computes the status
  of a token from its row, its columns and the clock. `RevokeParent` spends the
  parent, `CreateToken` issues, `Tick` lets tokens lapse, and every other step
  stutters. A token that is revoked twice stays spent.
- **OAuthInvariant.** `StatesWereIssued` rules out that a row is created again
  under a callback that is already late; `ConsumedIsUsed` says that no rollback
  takes back a commit; `LateIsHopeless` follows a late callback to its rejection.
- **OAuthImplementsStateLifecycle.** `Standing` computes the state of an OAuth row
  from the row, `used` and the clock. A callback is vetted by the read in its
  transaction, while the state is open, and spends the state at its commit, when it
  may have lapsed meanwhile. Two vetted callbacks may both spend it, as
  `StateConsumedOnce` shows of the code, but each code is redeemed once. The proof
  needs `InsertedOnce`: an insertion never finds its row already there, which would
  reopen a spent state.
- **EmployeeInvariant.** `HoldsMatchingRow` says why the row in a handler's variable
  is still the right one at each later statement: by its address before the
  link, by its Google id after it, unless the row was moved. With `UniqueColumns`
  it gives `SameAccountSameEmployee`. `AsksForItself` is about the shared client.
  `BarredReadAsInactive` ties the copy of `isActive` to the column.
- **LoginIsAtomicHolds.** The decision of `AtomicProvisioning` falls at one statement of each
  branch: the lookup that finds the Google id, the update that links it, or the
  insertion. The statements before it only gather, those after it only wait or
  refuse, and all of them stutter. `HoldsMatchingRow` makes the row found by an
  earlier statement the one the decision takes, `UniqueColumns` makes it the only
  one, and `AsksForItself` makes the profile that of the login's own code, although
  logins share one client.
- **ManagerInvariant.** `LoopCountsFailures` ties the loop's counter, which the
  strategy sees, to the number of failures in a row, which `FallbackMeansGivenUp`
  speaks of. `ManagerImplementsHealth` needs `OpenSocketIsConnected` and the fact
  that only a dead socket has `fallbackMode`, so that no step leads from fallback
  mode back to healthy. Both hold for a client that was told to quit in any state.
- **SessionInvariant.** `MemoryOnlyInFallback` holds because memory is written only
  in fallback mode, and fallback mode is left only by a restart, which empties
  it.
- **CalmInvariant.** `TiersAgreeWhenCalm` speaks of sessions with no call in
  flight. To be inductive it must say what holds during a call: `Position` gives,
  for each step of the only call on an untroubled session, how the two copies,
  the row and the call's local variable relate. A refresh or a creation first
  moves the copies away from the row (`Writing`) and then the row after them. That a
  session which lives has its row needs that a read deletes only what it found expired,
  and that the expiry of the row is never moved back.
  Overlap, failure and bypass are exactly what would break the argument, so they
  are what the property excludes.
- **CacheInvariant.** A value's life is known to the tier that holds it, so that the
  property is about copies: an entry of memory carries exactly the expiry of the
  call that stored it, a key of Redis never outlives it, and the sight of a value
  is dated. `PurgedStaysOut` needs that only the storing call writes a value, once,
  and that it has returned before a removal counts it as older. The scan of an
  `invalidate` and its deletion are two steps, so the invariant says that a key
  outside the scan holds no older value in between.
- **CacheImplementsLossyCache.** `Kept` is what either tier holds, without the entries of
  memory that are past their life and only wait for a timer or the cleanup; those
  stutter. A `set` that fails after its command was applied stores, one that is lost
  does not, and an outage or a removal loses any part of the rest. `ArgumentsFit`
  says that the call that stores still has the key and the life it was given.
- **BrowserInvariant.** `CheckComesFirst` orders the document: nothing is sent before
  the check is over. `DeniedLeaves` carries a refused check to the navigation.
  `StoredIsUnposted` is why a code is posted once: the state is taken out of
  `sessionStorage` in the turn that posts it, and a new one is a state never seen
  before.
- **AdminInvariant.** Requests are numbered; `LastAskedIsCurrent` says that the last
  one asks for what the controls show, or that its answer is what is shown.
  `SpinnerIsPending` and the flags give `EmptyIsExplained`. `CountsInRange` brackets
  each of the two counts between the employees at the request and now, so that their
  difference is off by no more than those who joined, whichever was made first
  (`InactiveOffByJoinsHolds`).
- **NoLogSkippedHolds.** `PagesAsRead` says that a page under way or on the screen is a
  page that the query could answer when the server read it; it stays one, because logs
  appear but are never changed. Take a log older than all of the page shown, newer than
  some log of the next, and on neither. Then it is among the logs that the next page
  skips, and so is all of the page shown and what that one skipped, since all of
  these are newer (`PagesAdjoin`, `NextPageFollows`): one log too many. Logs that appear
  only add to what comes first. The theorem claims nothing of two cases that the code
  does not settle: logs that share a millisecond across the border of two pages, and a
  page that was read earlier than the one it replaces. The argument compares
  cardinalities and needs no induction over the log.
- **LifecycleInvariant.** `StartupUndisturbed` says that no shutdown begins before the
  server runs, and that a client is past its connecting once `startServer` is;
  `PastIsTold` that a shutdown has told each client it is past to quit, or found the
  manager without a connection. `ZeroMeansClosedHolds` says no more than
  this: a client that was told to quit may not have quit yet when another shutdown ends
  the process, and a manager that was passed over may be open.
- **ProcessImplementsParts, ZeroLeavesRedisHolds.** Every step of `ServerProcess` is a
  step or a stutter of `RedisManager` and one of `ServerLifecycle`, so that their theorems
  are theorems of the process. `LeftBehind` then adds what neither can say: a shutdown
  that is past the manager has seen its socket closed, or passed it over. It stays
  closed because only `startServer` calls `connect()`, before there is a shutdown.

Model-checked only: the liveness properties (`EveryRequestEnds`,
`EveryCallbackEnds`, `RecoversOrGivesUp`, `ExpiredEntriesGo`, `ReloadsEnd`,
`SpinnerStops`, `ShutdownEnds`), since TLAPS reasons neither about liveness under
fairness nor about ENABLED, and the violations of section 5. The refinements are
proved as safety: an abstract specification here states no fairness.

## 5. Findings

Each is a run that TLC must find violated; `PROJECT.json` quotes the line that
the code disagrees with.

- `RefreshTokenSingleUse`: the lookup and the revocation are two statements, and
  the second does not look at `revokedAt` again.
- `StateConsumedOnce`: the transaction around read and update does not make them
  atomic under READ COMMITTED.
- `RefreshedAutomatically`: the refresh route validates a body field that the browser
  cannot send, so every refresh is refused. A request that is answered 401 because the
  access token expired, while the refresh cookie is live, ends at the login page. So
  does every refused check (`DeniedNeverRests`), although the comment at
  `F/contexts/AuthContext.tsx:72` expects the user to stay and log in: the
  interceptor has begun to leave, and its error keeps that line from being reached.
- `AtMostMaxRetries`: `docs/REDIS_ARCHITECTURE.md:71` and the message at
  `B/config/redisManager.ts:30` say ten attempts. The strategy is asked with 0 after the
  first failure and gives up above ten, so that eleven more attempts follow that one.
  `FallbackMeansGivenUp` is about the budget as the code counts it. The tests at
  `B/__tests__/redis/redisManager.test.ts:246` and `:261` expect other delays,
  the second one even far above the budget.

Four more properties that the documents or comments state are defined in the
modules and belong to no run; TLC refutes each in a few steps, and they say what
the neighbouring properties do not claim.

- `TokenService.LogoutDeletesSession` (`docs/API.md:198`,
  `B/controllers/authController.ts:317`): the `.catch` swallows every failure of
  the deletion, not just that of a missing row. The constants of
  `MCTokenSingleUse.cfg` show it.
- `RedisManager.SelfHealing` (`docs/REDIS_ARCHITECTURE.md:47`): after twelve failures in a
  row nothing ever connects again. The constants of `MCRedisRetries.cfg`, with
  `FairSpec`, show it.
- `SessionService.InvalidatedStaysInvalid` and `UninvalidatedSessionKept`
  (`docs/REDIS_ARCHITECTURE.md:46`): writers go past a Redis that is away, and its
  copy is trusted when it is back. One session and three calls show the first
  with `TTL = 1`, the second with `TTL = 2`.

## 6. Not modelled

- *Hardened variants and CSRF protection* (`*Secure.ts`, `csrfProtection.ts`,
  `oauthStateService.ts`): only `server-secure.ts` reaches them, and neither the
  scripts of `package.json`, nor `nodemon.json`, nor the compose files start it.
- *Development variants*: they stand in for Google on a developer's machine; their
  sessions are those of `SessionService`.
- *Unused code of modelled files*: `revokeAllUserTokens`, `verifyIdToken`,
  `refreshAccessToken`, `createDynamicLimiter`, `optionalAuthFromCookie`,
  `AuditService.cleanup`, `authorize.ts` and `auth.ts` have no caller. The second
  interceptor of `AuthContext` and the second refresh of `checkAuth` run but never
  do anything, as `BrowserAuth` explains.
- *Several processes and several tabs*: the tables are the only state that processes
  share, and `TokenService` and `OAuthLogin` already let any two requests
  interleave. Counting of the limiters across processes does not exist: their
  store is chosen before Redis is connected, and is memory.
- *A deactivated employee keeps refreshing* until the refresh token dies, because the
  refresh does not look at `isActive`. There is no test to model; the hazard is
  listed.
- Formatting, validation of other fields, error texts, seeds, metrics and deployment
  files keep no state that a protocol depends on. A transaction that Prisma
  closes while its commit is in flight is modelled by its two outcomes only.
