----------------------------- MODULE OAuthLogin -----------------------------
(***************************************************************************)
(* GoogleAuthService.generateAuthUrl and validateAuthCode: the state rows  *)
(* that tie a callback to the authorization URL it answers, the Prisma     *)
(* transaction that consumes them, and the exchange of the code at Google. *)
(*                                                                         *)
(* The transaction runs under PostgreSQL's default READ COMMITTED: its     *)
(* read takes no lock, its update locks the row until the commit, and the  *)
(* flag becomes visible at the commit.  Inside it the code writes audit    *)
(* records through the global client, that is, on a second connection of   *)
(* the same pool.  Prisma closes a transaction that is open for too long   *)
(* and gives its connection back; the handler only learns of it at its     *)
(* next statement.                                                         *)
(*                                                                         *)
(* The state and the verifier minted by URL request u are called u.        *)
(***************************************************************************)
EXTENDS Integers, FiniteSets

CONSTANTS
  Urls,        \* requests for an authorization URL; also the states they mint
  Callbacks,   \* callback requests
  Codes,       \* authorization codes Google may issue
  None,        \* no state, no code
  PoolSize,    \* connections of the Prisma pool
  StateTTL,    \* 10 minutes
  MaxTime      \* bound on the clock

ASSUME OAuthAssumption ==
  /\ None \notin Urls \cup Callbacks \cup Codes
  /\ Urls \cap Callbacks = {}
  /\ PoolSize \in Nat \ {0}
  /\ StateTTL \in Nat
  /\ MaxTime \in Nat

VARIABLES
  now,        \* the clock
  pc,         \* pc[q]: the step request q awaits
  rows,       \* states that have a row in oauth_states
  expiry,     \* column expiresAt; Null until the row is first inserted
  used,       \* column used, as committed
  lock,       \* lock[u]: the transaction that updated the row of u
  open,       \* callbacks whose transaction is open: each holds a connection
  codeOf,     \* codeOf[c]: the URL whose consent issued code c
  exchanged,  \* codes Google has already exchanged
  state,      \* state[r]: the state callback r carries
  code,       \* code[r]: the code callback r carries
  sameIp,     \* sameIp[r]: r comes from the address that asked for the URL
  consumed,   \* history: callbacks whose transaction committed
  late        \* history: callbacks that arrived when their state was spent

stateTable == <<rows, expiry, used>>
google == <<codeOf, exchanged>>
request == <<state, code, sameIp, late>>
vars == <<now, pc, rows, expiry, used, lock, open, codeOf, exchanged, state,
          code, sameIp, consumed, late>>

Null == -1
Times == Nat \cup {Null}

UrlSteps == {"create", "clean"}
TxSteps == {"find", "audit_reject", "audit_ip", "update", "commit"}
CallbackSteps == {"begin", "exchange"} \cup TxSteps
Ended == {"ok", "failed"}

TypeOK ==
  /\ now \in Nat
  /\ pc \in [Urls \cup Callbacks -> {"idle"} \cup UrlSteps \cup CallbackSteps \cup Ended]
  /\ rows \subseteq Urls
  /\ expiry \in [Urls -> Times]
  /\ used \in [Urls -> BOOLEAN]
  /\ lock \in [Urls -> Callbacks \cup {None}]
  /\ open \subseteq Callbacks
  /\ codeOf \in [Codes -> Urls \cup {None}]
  /\ exchanged \subseteq Codes
  /\ state \in [Callbacks -> Urls \cup {None}]
  /\ code \in [Callbacks -> Codes \cup {None}]
  /\ sameIp \in [Callbacks -> BOOLEAN]
  /\ consumed \subseteq Callbacks
  /\ late \subseteq Callbacks

Init ==
  /\ now = 0
  /\ pc = [q \in Urls \cup Callbacks |-> "idle"]
  /\ rows = {}
  /\ expiry = [u \in Urls |-> Null]
  /\ used = [u \in Urls |-> FALSE]
  /\ lock = [u \in Urls |-> None]
  /\ open = {}
  /\ codeOf = [c \in Codes |-> None]
  /\ exchanged = {}
  /\ state = [r \in Callbacks |-> None]
  /\ code = [r \in Callbacks |-> None]
  /\ sameIp = [r \in Callbacks |-> TRUE]
  /\ consumed = {}
  /\ late = {}

-----------------------------------------------------------------------------
(* Vocabulary *)

\* A statement outside a transaction needs a connection of its own.
ConnectionFree == Cardinality(open) < PoolSize

Expired(u) == expiry[u] < now

\* validateAuthCode accepts the row it read.
Acceptable(u) == u \in rows /\ ~used[u] /\ ~Expired(u)

Goto(q, from, to) ==
  /\ pc[q] = from
  /\ pc' = [pc EXCEPT ![q] = to]

\* The transaction of r ends: its connection and its row lock are released.
EndTransaction(r) ==
  /\ open' = open \ {r}
  /\ lock' = [u \in Urls |-> IF lock[u] = r THEN None ELSE lock[u]]

-----------------------------------------------------------------------------
(* generateAuthUrl *)

RequestUrl(u) ==
  /\ Goto(u, "idle", "create")
  /\ UNCHANGED <<now, stateTable, lock, open, google, request, consumed>>

CreateState(u) ==
  /\ ConnectionFree
  /\ Goto(u, "create", "clean")
  /\ rows' = rows \cup {u}
  /\ expiry' = [expiry EXCEPT ![u] = now + StateTTL]
  /\ UNCHANGED <<now, used, lock, open, google, request, consumed>>

\* Mutant: the cleanup also resets the flag of the rows it keeps.
CleanStatesResettingUsed(u) ==
  /\ ConnectionFree
  /\ Goto(u, "clean", "ok")
  /\ rows' = {v \in rows : ~Expired(v)}
  /\ used' = [v \in Urls |-> FALSE]
  /\ UNCHANGED <<now, expiry, lock, open, google, request, consumed>>

\* deleteMany waits for the rows that a transaction has updated; then the URL
\* is returned.
CleanStates(u) ==
  /\ ConnectionFree
  /\ \A v \in rows : Expired(v) => lock[v] = None
  /\ Goto(u, "clean", "ok")
  /\ rows' = {v \in rows : ~Expired(v)}
  /\ UNCHANGED <<now, expiry, used, lock, open, google, request, consumed>>

\* Google: the user consents and is sent back with a fresh code.
Consent(u, c) ==
  /\ pc[u] = "ok"
  /\ codeOf[c] = None
  /\ codeOf' = [codeOf EXCEPT ![c] = u]
  /\ UNCHANGED <<now, pc, stateTable, lock, open, exchanged, request, consumed>>

-----------------------------------------------------------------------------
(* validateAuthCode *)

\* The browser posts a redirect it received, possibly more than once, and from
\* the same or another address.
StartCallback(r, c, same) ==
  /\ codeOf[c] # None
  /\ Goto(r, "idle", "begin")
  /\ state' = [state EXCEPT ![r] = codeOf[c]]
  /\ code' = [code EXCEPT ![r] = c]
  /\ sameIp' = [sameIp EXCEPT ![r] = same]
  /\ late' = IF Acceptable(codeOf[c]) THEN late ELSE late \cup {r}
  /\ UNCHANGED <<now, stateTable, lock, open, google, consumed>>

BeginTransaction(r) ==
  /\ ConnectionFree
  /\ Goto(r, "begin", "find")
  /\ open' = open \cup {r}
  /\ UNCHANGED <<now, stateTable, lock, google, request, consumed>>

\* Mutant: the read does not look at used.
FindStateUsedOrNot(r) ==
  /\ r \in open
  /\ IF state[r] \in rows /\ ~Expired(state[r])
       THEN Goto(r, "find", IF sameIp[r] THEN "update" ELSE "audit_ip")
       ELSE Goto(r, "find", "audit_reject")
  /\ UNCHANGED <<now, stateTable, lock, open, google, request, consumed>>

\* The read and the checks on it.  A row from another address is accepted, but
\* recorded first.
FindState(r) ==
  /\ r \in open
  /\ IF Acceptable(state[r])
       THEN Goto(r, "find", IF sameIp[r] THEN "update" ELSE "audit_ip")
       ELSE Goto(r, "find", "audit_reject")
  /\ UNCHANGED <<now, stateTable, lock, open, google, request, consumed>>

\* The audit record needs a second connection while the transaction keeps its
\* own.
AuditIpMismatch(r) ==
  /\ ConnectionFree
  /\ Goto(r, "audit_ip", "update")
  /\ UNCHANGED <<now, stateTable, lock, open, google, request, consumed>>

\* Mutant: the rejection is thrown without ending the transaction.
AuditRejectionLeaking(r) ==
  /\ ConnectionFree
  /\ Goto(r, "audit_reject", "failed")
  /\ UNCHANGED <<now, stateTable, lock, open, google, request, consumed>>

AuditRejection(r) ==
  /\ ConnectionFree
  /\ Goto(r, "audit_reject", "failed")
  /\ EndTransaction(r)
  /\ UNCHANGED <<now, stateTable, google, request, consumed>>

\* auditService.log swallows its errors, among them the pool's own timeout.
AuditFails(r) ==
  /\ \/ Goto(r, "audit_ip", "update") /\ UNCHANGED <<lock, open>>
     \/ Goto(r, "audit_reject", "failed") /\ EndTransaction(r)
  /\ UNCHANGED <<now, stateTable, google, request, consumed>>

\* update where id: waits for another transaction's lock, then matches the row
\* whether or not it was used meanwhile.
MarkUsed(r) ==
  /\ r \in open
  /\ state[r] \in rows
  /\ lock[state[r]] = None
  /\ Goto(r, "update", "commit")
  /\ lock' = [lock EXCEPT ![state[r]] = r]
  /\ UNCHANGED <<now, stateTable, open, google, request, consumed>>

\* Mutant: a handler never learns that its transaction was closed.
StatementHangs(r) ==
  /\ pc[r] = "update" /\ state[r] \notin rows
  /\ pc' = [pc EXCEPT ![r] = "failed"]
  /\ EndTransaction(r)
  /\ UNCHANGED <<now, stateTable, google, request, consumed>>

\* The row was cleaned, or Prisma closed the transaction: the statement throws.
StatementRejected(r) ==
  /\ \/ pc[r] \in {"find", "update", "commit"} /\ r \notin open
     \/ pc[r] = "update" /\ state[r] \notin rows
  /\ pc' = [pc EXCEPT ![r] = "failed"]
  /\ EndTransaction(r)
  /\ UNCHANGED <<now, stateTable, google, request, consumed>>

\* Mutant: the code is exchanged whether or not the transaction committed.
CommitOrNot(r) ==
  /\ Goto(r, "commit", "exchange")
  /\ used' = IF r \in open THEN [used EXCEPT ![state[r]] = TRUE] ELSE used
  /\ consumed' = consumed \cup {r}
  /\ EndTransaction(r)
  /\ UNCHANGED <<now, rows, expiry, google, request>>

Commit(r) ==
  /\ r \in open
  /\ Goto(r, "commit", "exchange")
  /\ used' = [used EXCEPT ![state[r]] = TRUE]
  /\ consumed' = consumed \cup {r}
  /\ EndTransaction(r)
  /\ UNCHANGED <<now, rows, expiry, google, request>>

\* getToken: Google exchanges a code once, against the verifier of its URL.
ExchangeCode(r) ==
  /\ code[r] \notin exchanged
  /\ Goto(r, "exchange", "ok")
  /\ exchanged' = exchanged \cup {code[r]}
  /\ UNCHANGED <<now, stateTable, lock, open, codeOf, request, consumed>>

CodeRefused(r) ==
  /\ code[r] \in exchanged
  /\ Goto(r, "exchange", "failed")
  /\ UNCHANGED <<now, stateTable, lock, open, google, request, consumed>>

-----------------------------------------------------------------------------
(* Failures and time *)

\* A statement or the exchange rejects, its answer is lost, or the process
\* dies; an open transaction is rolled back.
Fail(r) ==
  /\ pc[r] \in CallbackSteps
  /\ pc' = [pc EXCEPT ![r] = "failed"]
  /\ EndTransaction(r)
  /\ UNCHANGED <<now, stateTable, google, request, consumed>>

\* The commit is applied but its acknowledgement is lost.
CommitUnacknowledged(r) ==
  /\ r \in open
  /\ Goto(r, "commit", "failed")
  /\ used' = [used EXCEPT ![state[r]] = TRUE]
  /\ consumed' = consumed \cup {r}
  /\ EndTransaction(r)
  /\ UNCHANGED <<now, rows, expiry, google, request>>

FailUrl(u) ==
  /\ pc[u] \in UrlSteps
  /\ pc' = [pc EXCEPT ![u] = "failed"]
  /\ UNCHANGED <<now, stateTable, lock, open, google, request, consumed>>

\* Prisma closes a transaction that was open for longer than its timeout.
TransactionTimeout(r) ==
  /\ r \in open
  /\ EndTransaction(r)
  /\ UNCHANGED <<now, pc, stateTable, google, request, consumed>>

Tick ==
  /\ now < MaxTime
  /\ now' = now + 1
  /\ UNCHANGED <<pc, stateTable, lock, open, google, request, consumed>>

UrlStep(u) == CreateState(u) \/ CleanStates(u)

CallbackStep(r) ==
  \/ BeginTransaction(r) \/ FindState(r)
  \/ AuditIpMismatch(r) \/ AuditRejection(r)
  \/ MarkUsed(r) \/ StatementRejected(r) \/ Commit(r)
  \/ ExchangeCode(r) \/ CodeRefused(r)

Next ==
  \/ \E u \in Urls : RequestUrl(u) \/ UrlStep(u) \/ FailUrl(u)
  \/ \E u \in Urls, c \in Codes : Consent(u, c)
  \/ \E r \in Callbacks, c \in Codes, same \in BOOLEAN : StartCallback(r, c, same)
  \/ \E r \in Callbacks :
       \/ CallbackStep(r) \/ AuditFails(r)
       \/ CommitUnacknowledged(r) \/ Fail(r) \/ TransactionTimeout(r)
  \/ Tick

Spec == Init /\ [][Next]_vars

\* Statements complete or reject, and Prisma enforces its transaction timeout
\* (5 s by default, below the pool's own 10 s).
FairSpec ==
  /\ Spec
  /\ \A u \in Urls : WF_vars(UrlStep(u))
  /\ \A r \in Callbacks : WF_vars(CallbackStep(r)) /\ WF_vars(TransactionTimeout(r))

-----------------------------------------------------------------------------
(* Properties *)

\* A callback that arrives when its state was consumed, is expired or was
\* deleted is rejected, whatever cleanups, timeouts and rollbacks happen
\* meanwhile: a consumed state is never accepted again in sequence.
LateCallbackRejected ==
  \A r \in late : r \notin consumed /\ pc[r] \notin {"exchange", "ok"}

\* The code reaches Google only after this callback's own transaction has
\* committed and marked the state used: a transaction that Prisma closed never
\* leads to a login.
ExchangeFollowsCommit ==
  \A r \in Callbacks :
    pc[r] \in {"exchange", "ok"} => r \in consumed /\ used[state[r]]

\* Connections and row locks are held only by callbacks inside their
\* transaction: every rejection, failure and timeout path gives them back.
ResourcesReturned ==
  /\ \A r \in open : pc[r] \in TxSteps
  /\ \A u \in Urls : lock[u] # None =>
       lock[u] \in open /\ pc[lock[u]] = "commit" /\ state[lock[u]] = u

\* Every callback is answered, even when each pooled connection belongs to a
\* transaction that waits for another connection to write its audit record.
EveryCallbackEnds ==
  \A r \in Callbacks : pc[r] \in CallbackSteps ~> pc[r] \in Ended

\* The comment on the transaction: verification and update of the state are
\* atomic.  Under READ COMMITTED two callbacks may both pass the check.
StateConsumedOnce ==
  \A r, q \in consumed : state[r] = state[q] => r = q

-----------------------------------------------------------------------------
(* The states as StateLifecycle promises them *)

\* An expired row is as good as none, and a spent one stays spent when its row
\* is deleted.
Standing(u) ==
  IF used[u] THEN "spent"
  ELSE IF expiry[u] = Null THEN "unissued"
  ELSE IF Acceptable(u) THEN "open" ELSE "lapsed"

\* The verdict on a callback falls where the row is read, not where it is told.
Phase(r) ==
  CASE pc[r] = "idle" -> "none"
    [] pc[r] \in {"begin", "find"} -> "waiting"
    [] pc[r] \in {"audit_ip", "update", "commit"} -> "vetted"
    [] pc[r] = "exchange" -> "granted"
    [] pc[r] = "ok" -> "in"
    [] OTHER -> "refused"

States == INSTANCE StateLifecycle WITH
  standing <- [u \in Urls |-> Standing(u)],
  redeemed <- exchanged,
  phase <- [r \in Callbacks |-> Phase(r)]

\* The rows, the transaction and the exchange implement the life of a state:
\* it never reopens, nobody is granted who was not vetted while it was open, and
\* each code leads to one login.
ImplementsStateLifecycle == States!Spec

-----------------------------------------------------------------------------
(* Why the safety properties hold: an inductive invariant, in parts *)

\* A state leaves the server only in an answered request for a URL, so nobody
\* ever creates the row of a state that is in use again.
StatesWereIssued ==
  /\ \A c \in Codes : codeOf[c] # None => pc[codeOf[c]] = "ok"
  /\ \A r \in Callbacks :
       /\ state[r] # None => pc[state[r]] = "ok" /\ state[r] = codeOf[code[r]]
       /\ pc[r] \in CallbackSteps \cup {"ok"} => state[r] # None /\ code[r] # None

\* The row of a state is inserted at one step, and is unused and unexpired then.
InsertedOnce ==
  \A u \in Urls :
    /\ pc[u] \in {"idle", "create"} => expiry[u] = Null /\ ~used[u] /\ u \notin rows
    /\ pc[u] \in {"clean", "ok"} => expiry[u] # Null

\* A commit is the only way past the transaction, and it marks the state.
ConsumedIsUsed ==
  \A r \in consumed :
    /\ pc[r] \in {"exchange", "ok", "failed"}
    /\ state[r] # None /\ used[state[r]]

\* A late callback can only find that its state is not acceptable.
LateIsHopeless ==
  \A r \in late :
    /\ pc[r] \in {"begin", "find", "audit_reject", "failed"}
    /\ state[r] # None /\ ~Acceptable(state[r])
    /\ r \notin consumed

OAuthInvariant ==
  /\ TypeOK
  /\ StatesWereIssued
  /\ InsertedOnce
  /\ ConsumedIsUsed
  /\ LateIsHopeless
  /\ ExchangeFollowsCommit
  /\ ResourcesReturned

=============================================================================
