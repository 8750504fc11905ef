------------------------- MODULE AtomicProvisioning -------------------------
(***************************************************************************)
(* What a login promises about the employee it logs in as: that one single *)
(* step decides it.  In that step the employee belongs to the Google       *)
(* account of the login, having belonged to it before, taken through the   *)
(* address that Google vouched for, or newly made, and the verdict is what *)
(* isActive says in the same instant.  Verdicts are not revised.           *)
(*                                                                         *)
(* EmployeeProvisioning, whose handler spreads this over six statements    *)
(* outside any transaction, implements this specification (Atomic there).  *)
(***************************************************************************)

CONSTANTS
  Logins,    \* also the employees they make
  Staff,     \* employees from the start
  Accounts,  \* Google accounts
  Emails,    \* mail addresses
  None

Employees == Staff \cup Logins

VARIABLES
  rows,      \* employees there are
  email,     \* the address of each
  googleId,  \* the account each belongs to
  active,    \* whether each may log in
  address,   \* the verified address of each account at Google
  account,   \* the account of each login under way
  vouched,   \* the address Google told an undecided login
  employee,  \* the employee of each decided login
  verdict    \* none, pending, admitted, refused, in or failed

table == <<rows, email, googleId, active>>
vars == <<rows, email, googleId, active, address, account, vouched, employee, verdict>>

\* f gives no two arguments the same value, None excepted.
OneToOne(f) == \A x, y \in DOMAIN f : f[x] = f[y] /\ f[x] # None => x = y

Init ==
  /\ rows = Staff
  /\ email \in {f \in [Employees -> Emails \cup {None}] : OneToOne(f)}
  /\ googleId = [e \in Employees |-> None]
  /\ active = [e \in Employees |-> TRUE]
  /\ address \in [Accounts -> Emails \cup {None}]
  /\ account = [r \in Logins |-> None]
  /\ vouched = [r \in Logins |-> None]
  /\ employee = [r \in Logins |-> None]
  /\ verdict = [r \in Logins |-> "none"]

-----------------------------------------------------------------------------

Arrive(r, a) ==
  /\ verdict[r] = "none"
  /\ verdict' = [verdict EXCEPT ![r] = "pending"]
  /\ account' = [account EXCEPT ![r] = a]
  /\ UNCHANGED <<table, address, vouched, employee>>

\* Google tells the login the address of its own account, of no other.
Vouch(r) ==
  /\ verdict[r] = "pending" /\ address[account[r]] # None
  /\ vouched' = [vouched EXCEPT ![r] = address[account[r]]]
  /\ UNCHANGED <<table, address, account, employee, verdict>>

\* The login is decided: for employee e, by what isActive says now.
Decide(r, e) ==
  /\ verdict' = [verdict EXCEPT ![r] = IF active'[e] THEN "admitted" ELSE "refused"]
  /\ employee' = [employee EXCEPT ![r] = e]
  /\ vouched' = [vouched EXCEPT ![r] = None]
  /\ UNCHANGED <<address, account>>

\* Nobody but e belongs to account a.
FreeBut(e, a) == \A d \in rows \ {e} : googleId[d] # a

\* The employee that belongs to the account
Known(r, e) ==
  /\ googleId[e] = account[r] /\ FreeBut(e, account[r])
  /\ Decide(r, e)
  /\ UNCHANGED table

\* The employee with the address; the account has no other.
Take(r, e) ==
  /\ email[e] = vouched[r] /\ FreeBut(e, account[r])
  /\ googleId' = [googleId EXCEPT ![e] = account[r]]
  /\ UNCHANGED <<rows, email, active>>
  /\ Decide(r, e)

\* A new employee; neither the account nor the address has one.
Make(r) ==
  /\ r \notin rows /\ FreeBut(r, account[r])
  /\ \A d \in rows : email[d] # vouched[r]
  /\ rows' = rows \cup {r}
  /\ email' = [email EXCEPT ![r] = vouched[r]]
  /\ googleId' = [googleId EXCEPT ![r] = account[r]]
  /\ active' = [active EXCEPT ![r] = TRUE]
  /\ Decide(r, r)

\* The one step that decides a login.
Judge(r) ==
  /\ verdict[r] = "pending"
  /\ Make(r) \/ \E e \in rows : Known(r, e) \/ Take(r, e)

\* Only an admitted login gets its tokens.
LogIn(r) ==
  /\ verdict[r] = "admitted"
  /\ verdict' = [verdict EXCEPT ![r] = "in"]
  /\ UNCHANGED <<table, address, account, vouched, employee>>

\* A login may end without tokens at any time before.
GiveUp(r) ==
  /\ verdict[r] \in {"pending", "admitted", "refused"}
  /\ verdict' = [verdict EXCEPT ![r] = "failed"]
  /\ account' = [account EXCEPT ![r] = None]
  /\ vouched' = [vouched EXCEPT ![r] = None]
  /\ employee' = [employee EXCEPT ![r] = None]
  /\ UNCHANGED <<table, address>>

SetActive(e) ==
  /\ active' = [active EXCEPT ![e] = ~active[e]]
  /\ UNCHANGED <<rows, email, googleId, address, account, vouched, employee, verdict>>

ChangeAddress(a, m) ==
  /\ address' = [address EXCEPT ![a] = m]
  /\ UNCHANGED <<table, account, vouched, employee, verdict>>

Next ==
  \/ \E r \in Logins, a \in Accounts : Arrive(r, a)
  \/ \E r \in Logins : GiveUp(r) \/ LogIn(r) \/ Vouch(r) \/ Judge(r)
  \/ \E e \in rows : SetActive(e)
  \/ \E a \in Accounts, m \in Emails \cup {None} : ChangeAddress(a, m)

Spec == Init /\ [][Next]_vars

=============================================================================
