------------------------ MODULE EmployeeProvisioning ------------------------
(***************************************************************************)
(* The middle of AuthController.handleGoogleCallback: which employee a     *)
(* Google account logs in as.  The handler asks Google for the profile,    *)
(* looks for an employee with that Google id, then for one with that mail  *)
(* address, and links or creates one.  Every lookup and write is a         *)
(* statement of its own, outside any transaction; only the unique columns  *)
(* of the table stand between two logins.                                  *)
(*                                                                         *)
(* All logins share one OAuth2Client, and with it its credentials.         *)
(*                                                                         *)
(* The row that login r inserts is called r.  The module begins where      *)
(* OAuthLogin ends, with the code exchanged, and its Mint stands for what  *)
(* TokenService does from StartLogin on.                                   *)
(***************************************************************************)
EXTENDS Integers

CONSTANTS
  Logins,    \* callbacks whose code was exchanged; also the rows they insert
  Staff,     \* employees that are in the table from the start
  Accounts,  \* Google accounts
  Emails,    \* mail addresses
  None,      \* no row, no account, no address
  MaxTime    \* bound on the clock

Employees == Staff \cup Logins

ASSUME EmployeeAssumption ==
  /\ None \notin Employees \cup Accounts \cup Emails
  /\ Staff \cap Logins = {}
  /\ MaxTime \in Nat

VARIABLES
  now,          \* the clock, in milliseconds
  rows,         \* employees that have a row
  email,        \* unique column email
  googleId,     \* unique column googleId; NULL is None
  employeeId,   \* unique column employeeId of inserted rows: EMP<instant>
  active,       \* column isActive
  address,      \* address[a]: the verified address of account a at Google
  credentials,  \* the account whose token the shared OAuth2Client holds
  pc,           \* pc[r]: the step login r awaits
  account,      \* account[r]: the account whose code r exchanged
  googleUser,   \* googleUser[r]: the account whose profile r asked for
  profile,      \* profile[r]: the address in that profile
  employee,     \* employee[r]: the row in the handler's variable employee
  instant,      \* instant[r]: the instant in the employeeId that r is going to insert
  activeRead,   \* activeRead[r]: isActive as that variable has it
  barred,       \* history: employees deactivated since before r arrived, while r is under way
  relinked      \* history: rows that went from one account to another

table == <<rows, email, googleId, employeeId, active, relinked>>
google == <<address, credentials>>
local == <<account, googleUser, profile, employee, instant, activeRead, barred>>
vars == <<now, table, google, pc, local>>

Null == -1

Looking == {"profile", "by_google", "by_email"}
Writing == {"touch", "link", "create"}
Admitted == {"mint", "ok"}
Steps == Looking \cup Writing \cup {"refuse", "mint"}

TypeOK ==
  /\ now \in Nat
  /\ rows \in SUBSET Employees
  /\ email \in [Employees -> Emails \cup {None}]
  /\ googleId \in [Employees -> Accounts \cup {None}]
  /\ employeeId \in [Employees -> Nat \cup {Null}]
  /\ active \in [Employees -> BOOLEAN]
  /\ address \in [Accounts -> Emails \cup {None}]
  /\ credentials \in Accounts \cup {None}
  /\ pc \in [Logins -> {"idle", "ok", "failed"} \cup Steps]
  /\ account \in [Logins -> Accounts \cup {None}]
  /\ googleUser \in [Logins -> Accounts \cup {None}]
  /\ profile \in [Logins -> Emails \cup {None}]
  /\ employee \in [Logins -> Employees \cup {None}]
  /\ instant \in [Logins -> Nat \cup {Null}]
  /\ activeRead \in [Logins -> BOOLEAN]
  /\ barred \in [Logins -> SUBSET Employees]
  /\ relinked \in SUBSET Employees

\* f gives no two arguments the same value, None excepted.
OneToOne(f) == \A x, y \in DOMAIN f : f[x] = f[y] /\ f[x] # None => x = y

Init ==
  /\ now = 0
  /\ rows = Staff
  /\ email \in {f \in [Employees -> Emails \cup {None}] :
                  OneToOne(f) /\ \A e \in Employees : e \in Staff <=> f[e] # None}
  /\ googleId = [e \in Employees |-> None]
  /\ employeeId = [e \in Employees |-> Null]
  /\ active = [e \in Employees |-> TRUE]
  /\ address \in {f \in [Accounts -> Emails \cup {None}] : OneToOne(f)}
  /\ credentials = None
  /\ pc = [r \in Logins |-> "idle"]
  /\ account = [r \in Logins |-> None]
  /\ googleUser = [r \in Logins |-> None]
  /\ profile = [r \in Logins |-> None]
  /\ employee = [r \in Logins |-> None]
  /\ instant = [r \in Logins |-> Null]
  /\ activeRead = [r \in Logins |-> FALSE]
  /\ barred = [r \in Logins |-> {}]
  /\ relinked = {}

-----------------------------------------------------------------------------
(* Vocabulary *)

Goto(r, from, to) ==
  /\ pc[r] = from
  /\ pc' = [pc EXCEPT ![r] = to]

\* The result of a query, row e, goes into the variable employee of r.
Assign(r, e, isActive) ==
  /\ employee' = [employee EXCEPT ![r] = e]
  /\ activeRead' = [activeRead EXCEPT ![r] = isActive]

\* The handler ends without tokens, and its variables with it.
Abandon(r) ==
  /\ pc' = [pc EXCEPT ![r] = "failed"]
  /\ account' = [account EXCEPT ![r] = None]
  /\ googleUser' = [googleUser EXCEPT ![r] = None]
  /\ profile' = [profile EXCEPT ![r] = None]
  /\ employee' = [employee EXCEPT ![r] = None]
  /\ instant' = [instant EXCEPT ![r] = Null]
  /\ activeRead' = [activeRead EXCEPT ![r] = FALSE]
  /\ barred' = [barred EXCEPT ![r] = {}]
  /\ UNCHANGED <<now, table, google>>

\* The check of isActive, on what the variable says.
Check(isActive) == IF isActive THEN "mint" ELSE "refuse"

-----------------------------------------------------------------------------
(* The profile *)

\* Mutant: the request leaves before the credentials are set.
ExchangedAskingFirst(r, a) ==
  /\ Goto(r, "idle", "profile")
  /\ account' = [account EXCEPT ![r] = a]
  /\ googleUser' = [googleUser EXCEPT ![r] = credentials]
  /\ credentials' = a
  /\ barred' = [barred EXCEPT ![r] = {e \in rows : ~active[e]}]
  /\ UNCHANGED <<now, table, address, profile, employee, instant, activeRead>>

\* The code of account a was exchanged.  getUserInfo sets the credentials of
\* the shared client and sends the request in one turn: the client reads its
\* credentials before it first awaits.
Exchanged(r, a) ==
  /\ Goto(r, "idle", "profile")
  /\ account' = [account EXCEPT ![r] = a]
  /\ credentials' = a
  /\ googleUser' = [googleUser EXCEPT ![r] = credentials']
  /\ barred' = [barred EXCEPT ![r] = {e \in rows : ~active[e]}]
  /\ UNCHANGED <<now, table, address, profile, employee, instant, activeRead>>

\* The profile arrives.  Without a verified address getUserInfo throws (Fail).
ReceiveProfile(r) ==
  /\ Goto(r, "profile", "by_google")
  /\ googleUser[r] # None
  /\ address[googleUser[r]] # None
  /\ profile' = [profile EXCEPT ![r] = address[googleUser[r]]]
  /\ UNCHANGED <<now, table, google, account, googleUser, employee, instant,
                 activeRead, barred>>

-----------------------------------------------------------------------------
(* The employee *)

FoundByGoogleId(r, e) ==
  /\ e \in rows /\ googleId[e] = googleUser[r]
  /\ Goto(r, "by_google", "touch")
  /\ Assign(r, e, active[e])
  /\ UNCHANGED <<now, table, google, account, googleUser, profile, instant, barred>>

UnknownGoogleId(r) ==
  /\ \A e \in rows : googleId[e] # googleUser[r]
  /\ Goto(r, "by_google", "by_email")
  /\ UNCHANGED <<now, table, google, local>>

FoundByEmail(r, e) ==
  /\ e \in rows /\ email[e] = profile[r]
  /\ Goto(r, "by_email", "link")
  /\ Assign(r, e, active[e])
  /\ UNCHANGED <<now, table, google, account, googleUser, profile, instant, barred>>

\* The instant is taken for the employeeId, and then the handler looks up the
\* default role and goes on if there is one.
UnknownEmail(r) ==
  /\ \A e \in rows : email[e] # profile[r]
  /\ Goto(r, "by_email", "create")
  /\ instant' = [instant EXCEPT ![r] = now]
  /\ UNCHANGED <<now, table, google, account, googleUser, profile, employee,
                 activeRead, barred>>

\* Mutant: the check of isActive is made in the other branches only.
TouchLastLoginUnchecked(r) ==
  /\ Goto(r, "touch", "mint")
  /\ UNCHANGED <<now, table, google, local>>

\* lastLogin of the row found by its Google id.  The updated row is not
\* assigned, so the check that follows is about the row as it was found.
TouchLastLogin(r) ==
  /\ Goto(r, "touch", Check(activeRead[r]))
  /\ UNCHANGED <<now, table, google, local>>

\* Mutant: the column googleId is not unique.
LinkGoogleIdTwice(r) ==
  LET e == employee[r] IN
  /\ Goto(r, "link", Check(active[e]))
  /\ googleId' = [googleId EXCEPT ![e] = googleUser[r]]
  /\ relinked' = IF googleId[e] \in {None, googleUser[r]} THEN relinked
                 ELSE relinked \cup {e}
  /\ Assign(r, e, active[e])
  /\ UNCHANGED <<now, rows, email, employeeId, active, google, account,
                 googleUser, profile, instant, barred>>

\* The row found by its address gets the Google id, whether or not it has one
\* already.  The updated row is assigned, and then checked.
LinkGoogleId(r) ==
  LET e == employee[r] IN
  /\ Goto(r, "link", Check(active[e]))
  /\ \A d \in rows \ {e} : googleId[d] # googleUser[r]
  /\ googleId' = [googleId EXCEPT ![e] = googleUser[r]]
  /\ relinked' = IF googleId[e] \in {None, googleUser[r]} THEN relinked
                 ELSE relinked \cup {e}
  /\ Assign(r, e, active[e])
  /\ UNCHANGED <<now, rows, email, employeeId, active, google, account,
                 googleUser, profile, instant, barred>>

\* Mutant: the column email is not unique.
CreateEmployeeWithSharedAddress(r) ==
  /\ Goto(r, "create", Check(TRUE))
  /\ \A d \in rows : googleId[d] # googleUser[r] /\ employeeId[d] # instant[r]
  /\ rows' = rows \cup {r}
  /\ email' = [email EXCEPT ![r] = profile[r]]
  /\ googleId' = [googleId EXCEPT ![r] = googleUser[r]]
  /\ employeeId' = [employeeId EXCEPT ![r] = instant[r]]
  /\ instant' = [instant EXCEPT ![r] = Null]
  /\ active' = [active EXCEPT ![r] = TRUE]
  /\ Assign(r, r, TRUE)
  /\ UNCHANGED <<now, relinked, google, account, googleUser, profile, barred>>

\* The row and its role are inserted together.  employeeId is unique too.
\* An audit record follows, and the check of the isActive that was inserted.
CreateEmployee(r) ==
  /\ Goto(r, "create", Check(TRUE))
  /\ \A d \in rows : /\ email[d] # profile[r]
                     /\ googleId[d] # googleUser[r]
                     /\ employeeId[d] # instant[r]
  /\ rows' = rows \cup {r}
  /\ email' = [email EXCEPT ![r] = profile[r]]
  /\ googleId' = [googleId EXCEPT ![r] = googleUser[r]]
  /\ employeeId' = [employeeId EXCEPT ![r] = instant[r]]
  /\ instant' = [instant EXCEPT ![r] = Null]
  /\ active' = [active EXCEPT ![r] = TRUE]
  /\ Assign(r, r, TRUE)
  /\ UNCHANGED <<now, relinked, google, account, googleUser, profile, barred>>

\* The attempt is recorded and answered with 403.
Refuse(r) == pc[r] = "refuse" /\ Abandon(r)

\* Tokens and session are made for the employee, and the handler is done.
Mint(r) ==
  /\ Goto(r, "mint", "ok")
  /\ googleUser' = [googleUser EXCEPT ![r] = None]
  /\ profile' = [profile EXCEPT ![r] = None]
  /\ activeRead' = [activeRead EXCEPT ![r] = FALSE]
  /\ barred' = [barred EXCEPT ![r] = {}]
  /\ UNCHANGED <<now, table, google, account, employee, instant>>

\* A statement rejects, a unique column's violation included, Google does not
\* answer or gives no verified address, or the process crashes.
Fail(r) == pc[r] \in Steps /\ Abandon(r)

-----------------------------------------------------------------------------
(* The outside: nothing in the repository writes isActive, and Google's     *)
(* addresses change hands.                                                  *)

Deactivate(e) ==
  /\ e \in rows /\ active[e]
  /\ active' = [active EXCEPT ![e] = FALSE]
  /\ UNCHANGED <<now, rows, email, googleId, employeeId, relinked, google, pc, local>>

Reactivate(e) ==
  /\ e \in rows /\ ~active[e]
  /\ active' = [active EXCEPT ![e] = TRUE]
  /\ barred' = [r \in Logins |-> barred[r] \ {e}]
  /\ UNCHANGED <<now, rows, email, googleId, employeeId, relinked, google, pc,
                 account, googleUser, profile, employee, instant, activeRead>>

ChangeAddress(a, m) ==
  /\ m = None \/ \A b \in Accounts : address[b] # m
  /\ address' = [address EXCEPT ![a] = m]
  /\ UNCHANGED <<now, table, credentials, pc, local>>

Tick ==
  /\ now < MaxTime
  /\ now' = now + 1
  /\ UNCHANGED <<table, google, pc, local>>

Lookup(r) ==
  \/ ReceiveProfile(r) \/ UnknownGoogleId(r) \/ UnknownEmail(r)
  \/ \E e \in Employees : FoundByGoogleId(r, e) \/ FoundByEmail(r, e)

Finish(r) ==
  \/ TouchLastLogin(r) \/ LinkGoogleId(r) \/ CreateEmployee(r)
  \/ Refuse(r) \/ Mint(r) \/ Fail(r)

Next ==
  \/ \E r \in Logins, a \in Accounts : Exchanged(r, a)
  \/ \E r \in Logins : Lookup(r) \/ Finish(r)
  \/ \E e \in Employees : Deactivate(e) \/ Reactivate(e)
  \/ \E a \in Accounts, m \in Emails \cup {None} : ChangeAddress(a, m)
  \/ Tick

Spec == Init /\ [][Next]_vars

-----------------------------------------------------------------------------
(* Properties *)

\* Logins of one Google account are logins of one employee, however they
\* interleave, fail and repeat: two first logins never make two employees, and
\* a change of address does not cost an account its employee.  The exception
\* is an employee that the code moved to another account with its address.
SameAccountSameEmployee ==
  \A r, s \in Logins :
     /\ pc[r] = "ok" /\ pc[s] = "ok" /\ account[r] = account[s]
     /\ {employee[r], employee[s]} \cap relinked = {}
     => employee[r] = employee[s]

\* The copy of isActive that is checked may be stale, but not by more than the
\* login itself: an employee that was deactivated before the login arrived,
\* and stays so, never gets tokens, on whichever branch the row was found.
BarredNeverAdmitted ==
  \A r \in Logins : pc[r] \in Admitted => employee[r] \notin barred[r]

\* An employee goes to a Google account only by a login of that account, and
\* only if Google vouched to it for the employee's address, although between
\* the request for the profile and the update other logins used the client and
\* the table.
OwnedThroughAddress ==
  [][\A e \in rows : googleId'[e] # googleId[e] =>
        \E r \in Logins : /\ pc[r] = "link" /\ pc'[r] # "link"
                          /\ account[r] = googleId'[e] /\ profile[r] = email[e]]_vars

\* When a login was decided: where the row was found by its Google id, linked or
\* inserted.  The statements around it only prepare or report the decision.
Pending == Looking \cup {"link", "create"}

Verdict(r) ==
  CASE pc[r] = "idle" -> "none"
    [] pc[r] \in Pending -> "pending"
    [] pc[r] = "touch" -> IF activeRead[r] THEN "admitted" ELSE "refused"
    [] pc[r] = "refuse" -> "refused"
    [] pc[r] = "mint" -> "admitted"
    [] pc[r] = "ok" -> "in"
    [] OTHER -> "failed"

Undecided == {"none", "pending"}

Atomic == INSTANCE AtomicProvisioning WITH
  verdict <- [r \in Logins |-> Verdict(r)],
  vouched <- [r \in Logins |-> IF Verdict(r) \in Undecided THEN profile[r] ELSE None],
  employee <- [r \in Logins |-> IF Verdict(r) \in Undecided THEN None ELSE employee[r]]

\* The handler's statements, interleaved with those of other logins on the same
\* client and table, amount to one atomic step: find, take or make the employee
\* and judge it by isActive.
LoginIsAtomic == Atomic!Spec

-----------------------------------------------------------------------------
(* The inductive invariant *)

\* The unique columns.
UniqueColumns ==
  \A d, e \in rows :
     d # e => /\ email[d] # email[e]
              /\ googleId[d] # None => googleId[d] # googleId[e]

\* A login inserts its row at one step.
InsertedOnce == \A r \in rows \cap Logins : pc[r] \in {"failed"} \cup Admitted

\* A login asks for the profile of its own account, on the shared client.
AsksForItself ==
  \A r \in Logins :
     /\ pc[r] \in Steps => googleUser[r] = account[r]
     /\ pc[r] \notin {"idle", "failed"} => account[r] # None

\* From the lookups on, the variable employee holds a row.  Before the update
\* the row matches by its address, and at the end by its Google id, unless it
\* was moved meanwhile.
HoldsMatchingRow ==
  \A r \in Logins :
     /\ pc[r] \in {"touch", "link", "refuse"} \cup Admitted => employee[r] \in rows
     /\ pc[r] = "link" => email[employee[r]] = profile[r]
     /\ pc[r] \in {"touch"} \cup Admitted /\ employee[r] \notin relinked
        => googleId[employee[r]] = account[r]

\* Barred employees are inactive, and were read as inactive.
BarredReadAsInactive ==
  \A r \in Logins :
     /\ \A e \in barred[r] : e \in rows /\ ~active[e]
     /\ pc[r] = "touch" /\ employee[r] \in barred[r] => ~activeRead[r]
     /\ pc[r] \in Admitted => employee[r] \notin barred[r]

EmployeeInvariant ==
  /\ TypeOK
  /\ UniqueColumns
  /\ InsertedOnce
  /\ AsksForItself
  /\ HoldsMatchingRow
  /\ BarredReadAsInactive
=============================================================================
