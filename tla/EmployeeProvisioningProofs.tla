--------------------- MODULE EmployeeProvisioningProofs ---------------------
(* Proofs about EmployeeProvisioning: its inductive invariant, and the     *)
(* properties that follow from it and from the steps of a login.           *)
EXTENDS EmployeeProvisioning, TLAPS

\* The initial states satisfy the invariant.
LEMMA InitInvariant == Init => EmployeeInvariant
BY EmployeeAssumption
   DEF Init, EmployeeInvariant, TypeOK, UniqueColumns, InsertedOnce, AsksForItself,
       HoldsMatchingRow, BarredReadAsInactive, OneToOne, Employees, Steps, Looking,
       Writing, Admitted, Null

\* A login's lookups preserve the invariant.
LEMMA LookupInvariant ==
  ASSUME EmployeeInvariant, NEW r \in Logins, Lookup(r)
  PROVE  EmployeeInvariant'
<1> USE EmployeeAssumption
    DEF EmployeeInvariant, TypeOK, UniqueColumns, InsertedOnce, AsksForItself,
        HoldsMatchingRow, BarredReadAsInactive, Employees, Steps, Looking, Writing,
        Admitted, Null, Goto, Assign, table, google, local
<1>1. CASE ReceiveProfile(r)
  BY <1>1 DEF ReceiveProfile
<1>2. CASE UnknownGoogleId(r)
  BY <1>2 DEF UnknownGoogleId
<1>3. CASE UnknownEmail(r)
  BY <1>3 DEF UnknownEmail
<1>4. ASSUME NEW e \in Employees, FoundByGoogleId(r, e)
      PROVE  EmployeeInvariant'
  BY <1>4 DEF FoundByGoogleId
<1>5. ASSUME NEW e \in Employees, FoundByEmail(r, e)
      PROVE  EmployeeInvariant'
  BY <1>5 DEF FoundByEmail
<1> HIDE DEF EmployeeInvariant
<1> QED
  BY <1>1, <1>2, <1>3, <1>4, <1>5 DEF Lookup

\* The writes of a login, its end and its failure preserve the invariant.
LEMMA FinishInvariant ==
  ASSUME EmployeeInvariant, NEW r \in Logins, Finish(r)
  PROVE  EmployeeInvariant'
<1> USE EmployeeAssumption
    DEF EmployeeInvariant, TypeOK, UniqueColumns, InsertedOnce, AsksForItself,
        HoldsMatchingRow, BarredReadAsInactive, Employees, Steps, Looking, Writing,
        Admitted, Null, Goto, Assign, Check, Abandon, table, google, local
<1>1. CASE TouchLastLogin(r)
  BY <1>1 DEF TouchLastLogin
<1>2. CASE LinkGoogleId(r)
  <2>1. employee[r] \in rows /\ googleUser[r] = account[r] /\ account[r] \in Accounts
    BY <1>2 DEF LinkGoogleId
  <2>2. TypeOK'
    BY <1>2, <2>1 DEF LinkGoogleId
  <2>3. UniqueColumns'
    BY <1>2, <2>1 DEF LinkGoogleId
  <2>4. InsertedOnce' /\ AsksForItself'
    BY <1>2, <2>1 DEF LinkGoogleId
  <2>5. HoldsMatchingRow'
    BY <1>2, <2>1 DEF LinkGoogleId
  <2>6. BarredReadAsInactive'
    BY <1>2, <2>1 DEF LinkGoogleId
  <2> QED
    BY <2>2, <2>3, <2>4, <2>5, <2>6
<1>3. CASE CreateEmployee(r)
  <2>1. r \notin rows /\ googleUser[r] = account[r] /\ account[r] \in Accounts
    BY <1>3 DEF CreateEmployee
  <2>2. TypeOK'
    BY <1>3, <2>1 DEF CreateEmployee
  <2>3. UniqueColumns'
    BY <1>3, <2>1 DEF CreateEmployee
  <2>4. InsertedOnce' /\ AsksForItself'
    BY <1>3, <2>1 DEF CreateEmployee
  <2>5. HoldsMatchingRow'
    BY <1>3, <2>1 DEF CreateEmployee
  <2>6. BarredReadAsInactive'
    BY <1>3, <2>1 DEF CreateEmployee
  <2> QED
    BY <2>2, <2>3, <2>4, <2>5, <2>6
<1>4. CASE Refuse(r)
  BY <1>4 DEF Refuse
<1>5. CASE Mint(r)
  BY <1>5 DEF Mint
<1>6. CASE Fail(r)
  BY <1>6 DEF Fail
<1> HIDE DEF EmployeeInvariant
<1> QED
  BY <1>1, <1>2, <1>3, <1>4, <1>5, <1>6 DEF Finish

\* Arrivals, administrators, Google and the clock preserve the invariant.
LEMMA EnvironmentInvariant ==
  ASSUME EmployeeInvariant,
         \/ \E r \in Logins, a \in Accounts : Exchanged(r, a)
         \/ \E e \in Employees : Deactivate(e) \/ Reactivate(e)
         \/ \E a \in Accounts, m \in Emails \cup {None} : ChangeAddress(a, m)
         \/ Tick
         \/ UNCHANGED vars
  PROVE  EmployeeInvariant'
<1> USE EmployeeAssumption
    DEF EmployeeInvariant, TypeOK, UniqueColumns, InsertedOnce, AsksForItself,
        HoldsMatchingRow, BarredReadAsInactive, Employees, Steps, Looking, Writing,
        Admitted, Null, Goto, table, google, local
<1>1. ASSUME NEW r \in Logins, NEW a \in Accounts, Exchanged(r, a)
      PROVE  EmployeeInvariant'
  BY <1>1 DEF Exchanged
<1>2. ASSUME NEW e \in Employees, Deactivate(e)
      PROVE  EmployeeInvariant'
  BY <1>2 DEF Deactivate
<1>3. ASSUME NEW e \in Employees, Reactivate(e)
      PROVE  EmployeeInvariant'
  BY <1>3 DEF Reactivate
<1>4. ASSUME NEW a \in Accounts, NEW m \in Emails \cup {None}, ChangeAddress(a, m)
      PROVE  EmployeeInvariant'
  BY <1>4 DEF ChangeAddress
<1>5. CASE Tick
  BY <1>5 DEF Tick
<1>6. CASE UNCHANGED vars
  BY <1>6 DEF vars
<1> HIDE DEF EmployeeInvariant
<1> QED
  BY <1>1, <1>2, <1>3, <1>4, <1>5, <1>6

\* The invariant of provisioning: unique columns, the row each login holds,
\* and what it read of isActive.
THEOREM EmployeeInvariantHolds == Spec => []EmployeeInvariant
<1>1. EmployeeInvariant /\ [Next]_vars => EmployeeInvariant'
  BY LookupInvariant, FinishInvariant, EnvironmentInvariant DEF Next
<1> QED
  BY <1>1, InitInvariant, PTL DEF Spec

\* All logins of a Google account are logins of one employee, whatever their
\* interleaving: the row each holds has the account in its unique column.
THEOREM SameAccountSameEmployeeHolds == Spec => []SameAccountSameEmployee
<1>1. EmployeeInvariant => SameAccountSameEmployee
  <2> SUFFICES ASSUME EmployeeInvariant,
                      NEW r \in Logins, NEW s \in Logins,
                      pc[r] = "ok", pc[s] = "ok", account[r] = account[s],
                      {employee[r], employee[s]} \cap relinked = {}
               PROVE  employee[r] = employee[s]
    BY DEF SameAccountSameEmployee
  <2>1. /\ employee[r] \in rows /\ googleId[employee[r]] = account[r]
        /\ employee[s] \in rows /\ googleId[employee[s]] = account[s]
    BY DEF EmployeeInvariant, HoldsMatchingRow, Admitted
  <2>2. account[r] # None
    BY DEF EmployeeInvariant, AsksForItself
  <2> QED
    BY <2>1, <2>2 DEF EmployeeInvariant, UniqueColumns
<1> QED
  BY <1>1, EmployeeInvariantHolds, PTL

\* A login never admits an employee that was barred before it arrived.
THEOREM BarredNeverAdmittedHolds == Spec => []BarredNeverAdmitted
<1>1. EmployeeInvariant => BarredNeverAdmitted
  BY DEF EmployeeInvariant, BarredReadAsInactive, BarredNeverAdmitted
<1> QED
  BY <1>1, EmployeeInvariantHolds, PTL

\* Only the link writes the Google id of a row that is there, and it writes the
\* account of the login, to the row with the address in that account's profile.
THEOREM OwnedThroughAddressHolds == Spec => OwnedThroughAddress
<1> DEFINE Owned ==
      \A e \in rows : googleId'[e] # googleId[e] =>
        \E r \in Logins : /\ pc[r] = "link" /\ pc'[r] # "link"
                          /\ account[r] = googleId'[e] /\ profile[r] = email[e]
<1>1. EmployeeInvariant /\ [Next]_vars => [Owned]_vars
  <2> SUFFICES ASSUME EmployeeInvariant, [Next]_vars,
                      NEW e \in rows, googleId'[e] # googleId[e]
               PROVE  \E r \in Logins :
                         /\ pc[r] = "link" /\ pc'[r] # "link"
                         /\ account[r] = googleId'[e] /\ profile[r] = email[e]
    OBVIOUS
  <2>1. PICK r \in Logins : LinkGoogleId(r) \/ CreateEmployee(r)
    BY DEF Next, vars, table, Lookup, Finish, Exchanged, ReceiveProfile, UnknownGoogleId,
           UnknownEmail, FoundByGoogleId, FoundByEmail, TouchLastLogin, Refuse, Mint, Fail,
           Abandon, Deactivate, Reactivate, ChangeAddress, Tick
  <2>2. CASE CreateEmployee(r)
    <3>1. r \notin rows
      BY <2>2 DEF CreateEmployee, Goto, EmployeeInvariant, InsertedOnce, Admitted
    <3> QED
      BY <2>2, <3>1 DEF CreateEmployee, EmployeeInvariant, TypeOK
  <2>3. CASE LinkGoogleId(r)
    <3>1. employee[r] = e /\ googleId'[e] = googleUser[r]
      BY <2>3 DEF LinkGoogleId, EmployeeInvariant, TypeOK
    <3>2. pc[r] = "link" /\ pc'[r] # "link"
      BY <2>3 DEF LinkGoogleId, Goto, Check, EmployeeInvariant, TypeOK
    <3>3. googleUser[r] = account[r] /\ profile[r] = email[employee[r]]
      BY <3>2 DEF EmployeeInvariant, AsksForItself, HoldsMatchingRow, Steps, Writing
    <3> QED
      BY <3>1, <3>2, <3>3
  <2> QED
    BY <2>1, <2>2, <2>3
<1> QED
  BY <1>1, EmployeeInvariantHolds, PTL DEF Spec, OwnedThroughAddress

-----------------------------------------------------------------------------
(* The refinement of AtomicProvisioning *)

\* The variables that the abstract specification sees through the mapping.
AbstractVerdict == [r \in Logins |-> Verdict(r)]
AbstractVouched ==
  [r \in Logins |-> IF Verdict(r) \in Undecided THEN profile[r] ELSE None]
AbstractEmployee ==
  [r \in Logins |-> IF Verdict(r) \in Undecided THEN None ELSE employee[r]]

\* What each step of the handler shows of the verdict.
LEMMA VerdictOfStep ==
  ASSUME TypeOK, NEW r \in Logins
  PROVE  /\ pc[r] = "idle" <=> Verdict(r) = "none"
         /\ pc[r] \in Looking \cup {"link", "create"} <=> Verdict(r) = "pending"
         /\ pc[r] = "touch" => Verdict(r) = IF activeRead[r] THEN "admitted" ELSE "refused"
         /\ pc[r] = "refuse" => Verdict(r) = "refused"
         /\ pc[r] = "mint" => Verdict(r) = "admitted"
         /\ pc[r] = "ok" <=> Verdict(r) = "in"
         /\ pc[r] = "failed" <=> Verdict(r) = "failed"
BY DEF TypeOK, Verdict, Pending, Looking, Steps, Writing

\* A step of login r changes what the abstract specification sees of r alone.
LEMMA OthersUnjudged ==
  ASSUME TypeOK, NEW r \in Logins, NEW to, NEW read, NEW told, NEW e,
         pc' = [pc EXCEPT ![r] = to],
         activeRead' = [activeRead EXCEPT ![r] = read],
         profile' = [profile EXCEPT ![r] = told],
         employee' = [employee EXCEPT ![r] = e]
  PROVE  /\ AbstractVerdict' = [AbstractVerdict EXCEPT ![r] = Verdict(r)']
         /\ AbstractVouched' = [AbstractVouched EXCEPT ![r] = AbstractVouched'[r]]
         /\ AbstractEmployee' = [AbstractEmployee EXCEPT ![r] = AbstractEmployee'[r]]
<1>1. \A s \in Logins \ {r} : /\ pc'[s] = pc[s] /\ activeRead'[s] = activeRead[s]
                              /\ profile'[s] = profile[s] /\ employee'[s] = employee[s]
  BY DEF TypeOK
<1>2. \A s \in Logins \ {r} : /\ AbstractVerdict'[s] = AbstractVerdict[s]
                              /\ AbstractVouched'[s] = AbstractVouched[s]
                              /\ AbstractEmployee'[s] = AbstractEmployee[s]
  BY <1>1 DEF AbstractVerdict, AbstractVouched, AbstractEmployee, Verdict, Pending
<1>3. AbstractVerdict'[r] = Verdict(r)'
  BY DEF AbstractVerdict
<1>4. /\ AbstractVerdict' = [s \in Logins |-> AbstractVerdict'[s]]
      /\ AbstractVouched' = [s \in Logins |-> AbstractVouched'[s]]
      /\ AbstractEmployee' = [s \in Logins |-> AbstractEmployee'[s]]
      /\ AbstractVerdict = [s \in Logins |-> AbstractVerdict[s]]
      /\ AbstractVouched = [s \in Logins |-> AbstractVouched[s]]
      /\ AbstractEmployee = [s \in Logins |-> AbstractEmployee[s]]
  BY DEF AbstractVerdict, AbstractVouched, AbstractEmployee
<1> QED
  BY <1>2, <1>3, <1>4

\* The row found by its Google id decides the login: it is the only one, and
\* the isActive of this very step is what the check will see.
LEMMA FoundIsKnown ==
  ASSUME EmployeeInvariant, EmployeeInvariant', NEW r \in Logins, NEW e \in Employees,
         FoundByGoogleId(r, e)
  PROVE  Atomic!Judge(r)
<1> USE DEF EmployeeInvariant
<1>1. /\ pc[r] = "by_google" /\ pc' = [pc EXCEPT ![r] = "touch"]
      /\ activeRead' = [activeRead EXCEPT ![r] = active[e]]
      /\ employee' = [employee EXCEPT ![r] = e]
      /\ profile' = [profile EXCEPT ![r] = profile[r]]
  BY DEF FoundByGoogleId, Goto, Assign, TypeOK
<1>2. /\ Verdict(r) = "pending"
      /\ Verdict(r)' = IF active[e] THEN "admitted" ELSE "refused"
      /\ pc'[r] = "touch" /\ activeRead'[r] = active[e] /\ employee'[r] = e
  BY <1>1 DEF Verdict, Pending, TypeOK, Looking
<1>3. AbstractVouched'[r] = None /\ AbstractEmployee'[r] = e
  BY <1>2 DEF AbstractVouched, AbstractEmployee, Undecided
<1>4. /\ AbstractVerdict' = [AbstractVerdict EXCEPT ![r] = IF active'[e] THEN "admitted" ELSE "refused"]
      /\ AbstractVouched' = [AbstractVouched EXCEPT ![r] = None]
      /\ AbstractEmployee' = [AbstractEmployee EXCEPT ![r] = e]
      /\ UNCHANGED <<table, address, account>>
  BY <1>1, <1>2, <1>3, OthersUnjudged DEF FoundByGoogleId, google, table
<1>5. /\ e \in rows /\ googleId[e] = account[r]
      /\ \A d \in rows \ {e} : googleId[d] # account[r]
  BY <1>1 DEF FoundByGoogleId, AsksForItself, UniqueColumns, Steps, Looking
<1>6. Atomic!FreeBut(e, account[r])
  BY <1>5 DEF Atomic!FreeBut
<1>7. AbstractVerdict[r] = "pending"
  BY <1>2 DEF AbstractVerdict
<1>8. Atomic!Known(r, e)
  BY <1>4, <1>5, <1>6
  DEF Atomic!Known, Atomic!Decide, Atomic!table, table, AbstractVerdict, AbstractVouched,
      AbstractEmployee
<1> QED
  BY <1>5, <1>7, <1>8 DEF Atomic!Judge, AbstractVerdict

\* Linking takes the employee that has the address Google vouched for, for an
\* account that by the unique column has no other.
LEMMA LinkIsTake ==
  ASSUME EmployeeInvariant, NEW r \in Logins, LinkGoogleId(r)
  PROVE  Atomic!Judge(r)
<1> DEFINE e == employee[r]
<1> USE DEF EmployeeInvariant
<1>1. /\ pc[r] = "link" /\ pc' = [pc EXCEPT ![r] = Check(active[e])]
      /\ activeRead' = [activeRead EXCEPT ![r] = active[e]]
      /\ employee' = [employee EXCEPT ![r] = e]
      /\ profile' = [profile EXCEPT ![r] = profile[r]]
      /\ e \in rows /\ email[e] = profile[r] /\ googleUser[r] = account[r]
  BY DEF LinkGoogleId, Goto, Assign, TypeOK, HoldsMatchingRow, AsksForItself, Steps, Writing
<1>2. /\ Verdict(r) = "pending"
      /\ Verdict(r)' = IF active[e] THEN "admitted" ELSE "refused"
      /\ employee'[r] = e
  BY <1>1 DEF Verdict, Pending, TypeOK, Looking, Check
<1>3. /\ AbstractVouched'[r] = None /\ AbstractEmployee'[r] = e
      /\ AbstractVerdict[r] = "pending" /\ AbstractVouched[r] = profile[r]
  BY <1>2 DEF AbstractVerdict, AbstractVouched, AbstractEmployee, Undecided
<1>4. /\ AbstractVerdict' = [AbstractVerdict EXCEPT ![r] = IF active'[e] THEN "admitted" ELSE "refused"]
      /\ AbstractVouched' = [AbstractVouched EXCEPT ![r] = None]
      /\ AbstractEmployee' = [AbstractEmployee EXCEPT ![r] = e]
      /\ UNCHANGED <<rows, email, active, address, account>>
  BY <1>1, <1>2, <1>3, OthersUnjudged DEF LinkGoogleId, google
<1>5. /\ googleId' = [googleId EXCEPT ![e] = account[r]]
      /\ \A d \in rows \ {e} : googleId[d] # account[r]
  BY <1>1 DEF LinkGoogleId
<1>6. Atomic!FreeBut(e, account[r])
  BY <1>5 DEF Atomic!FreeBut
<1>7. Atomic!Take(r, e)
  BY <1>1, <1>3, <1>4, <1>5, <1>6
  DEF Atomic!Take, Atomic!Decide, AbstractVerdict, AbstractVouched, AbstractEmployee
<1> QED
  BY <1>1, <1>3, <1>7 DEF Atomic!Judge, AbstractVerdict

\* Inserting makes an employee for an account and an address that have none.
LEMMA CreateIsMake ==
  ASSUME EmployeeInvariant, NEW r \in Logins, CreateEmployee(r)
  PROVE  Atomic!Judge(r)
<1> USE DEF EmployeeInvariant
<1>1. /\ pc[r] = "create" /\ pc' = [pc EXCEPT ![r] = "mint"]
      /\ activeRead' = [activeRead EXCEPT ![r] = TRUE]
      /\ employee' = [employee EXCEPT ![r] = r]
      /\ profile' = [profile EXCEPT ![r] = profile[r]]
      /\ r \notin rows /\ r \in Employees /\ googleUser[r] = account[r]
  BY DEF CreateEmployee, Goto, Assign, Check, TypeOK, InsertedOnce, AsksForItself, Steps,
         Writing, Admitted, Employees
<1>2. /\ Verdict(r) = "pending" /\ Verdict(r)' = "admitted" /\ employee'[r] = r
  BY <1>1 DEF Verdict, Pending, TypeOK, Looking
<1>3. /\ AbstractVouched'[r] = None /\ AbstractEmployee'[r] = r
      /\ AbstractVerdict[r] = "pending" /\ AbstractVouched[r] = profile[r]
  BY <1>2 DEF AbstractVerdict, AbstractVouched, AbstractEmployee, Undecided
<1>4. /\ rows' = rows \cup {r}
      /\ email' = [email EXCEPT ![r] = profile[r]]
      /\ googleId' = [googleId EXCEPT ![r] = account[r]]
      /\ active' = [active EXCEPT ![r] = TRUE]
      /\ UNCHANGED <<address, account>>
  BY <1>1 DEF CreateEmployee, google
<1>5. active'[r] = TRUE
  BY <1>1, <1>4 DEF TypeOK
<1>6. /\ AbstractVerdict' = [AbstractVerdict EXCEPT ![r] = IF active'[r] THEN "admitted" ELSE "refused"]
      /\ AbstractVouched' = [AbstractVouched EXCEPT ![r] = None]
      /\ AbstractEmployee' = [AbstractEmployee EXCEPT ![r] = r]
  BY <1>1, <1>2, <1>3, <1>5, OthersUnjudged
<1>7. Atomic!FreeBut(r, account[r]) /\ \A d \in rows : email[d] # profile[r]
  BY <1>1 DEF CreateEmployee, Atomic!FreeBut
<1>8. Atomic!Make(r)
  BY <1>1, <1>3, <1>4, <1>6, <1>7
  DEF Atomic!Make, Atomic!Decide, AbstractVerdict, AbstractVouched, AbstractEmployee
<1> QED
  BY <1>3, <1>8 DEF Atomic!Judge, AbstractVerdict

\* What Google tells a login is the address of the login's own account.
LEMMA ProfileIsVouched ==
  ASSUME EmployeeInvariant, NEW r \in Logins, ReceiveProfile(r)
  PROVE  Atomic!Vouch(r)
<1> USE DEF EmployeeInvariant
<1>1. /\ pc[r] = "profile" /\ pc' = [pc EXCEPT ![r] = "by_google"]
      /\ googleUser[r] = account[r] /\ address[account[r]] # None
      /\ profile' = [profile EXCEPT ![r] = address[account[r]]]
      /\ activeRead' = [activeRead EXCEPT ![r] = activeRead[r]]
      /\ employee' = [employee EXCEPT ![r] = employee[r]]
      /\ UNCHANGED <<table, address, account>>
  BY DEF ReceiveProfile, Goto, TypeOK, AsksForItself, Steps, Looking, google
<1>2. /\ Verdict(r) = "pending" /\ Verdict(r)' = "pending"
      /\ profile'[r] = address[account[r]]
  BY <1>1 DEF Verdict, Pending, TypeOK, Looking
<1>3. /\ AbstractVouched'[r] = address[account[r]]
      /\ AbstractEmployee'[r] = None /\ AbstractEmployee[r] = None
      /\ AbstractVerdict[r] = "pending"
  BY <1>2 DEF AbstractVerdict, AbstractVouched, AbstractEmployee, Undecided
<1>4. /\ AbstractVerdict' = [AbstractVerdict EXCEPT ![r] = "pending"]
      /\ AbstractVouched' = [AbstractVouched EXCEPT ![r] = address[account[r]]]
      /\ AbstractEmployee' = [AbstractEmployee EXCEPT ![r] = None]
  BY <1>1, <1>2, <1>3, OthersUnjudged
<1>5. UNCHANGED <<AbstractVerdict, AbstractEmployee>>
  BY <1>3, <1>4 DEF AbstractVerdict, AbstractEmployee
<1> QED
  BY <1>1, <1>3, <1>4, <1>5
  DEF Atomic!Vouch, Atomic!table, table, AbstractVerdict, AbstractVouched, AbstractEmployee

\* The exchange of the code is the arrival of an undecided login.
LEMMA ExchangeIsArrive ==
  ASSUME EmployeeInvariant, NEW r \in Logins, NEW a \in Accounts, Exchanged(r, a)
  PROVE  Atomic!Arrive(r, a)
<1> USE DEF EmployeeInvariant
<1>1. /\ pc[r] = "idle" /\ pc' = [pc EXCEPT ![r] = "profile"]
      /\ profile' = [profile EXCEPT ![r] = profile[r]]
      /\ activeRead' = [activeRead EXCEPT ![r] = activeRead[r]]
      /\ employee' = [employee EXCEPT ![r] = employee[r]]
      /\ account' = [account EXCEPT ![r] = a]
      /\ UNCHANGED <<table, address>>
  BY DEF Exchanged, Goto, TypeOK
<1>2. Verdict(r) = "none" /\ Verdict(r)' = "pending" /\ profile'[r] = profile[r]
  BY <1>1 DEF Verdict, Pending, TypeOK, Looking
<1>3. /\ AbstractVouched'[r] = AbstractVouched[r]
      /\ AbstractEmployee'[r] = AbstractEmployee[r]
      /\ AbstractVerdict[r] = "none"
  BY <1>2 DEF AbstractVerdict, AbstractVouched, AbstractEmployee, Undecided
<1>4. /\ AbstractVerdict' = [AbstractVerdict EXCEPT ![r] = "pending"]
      /\ AbstractVouched' = [AbstractVouched EXCEPT ![r] = AbstractVouched[r]]
      /\ AbstractEmployee' = [AbstractEmployee EXCEPT ![r] = AbstractEmployee[r]]
  BY <1>1, <1>2, <1>3, OthersUnjudged
<1>5. UNCHANGED <<AbstractVouched, AbstractEmployee>>
  BY <1>4 DEF AbstractVouched, AbstractEmployee
<1> QED
  BY <1>1, <1>3, <1>4, <1>5
  DEF Atomic!Arrive, Atomic!table, table, AbstractVerdict, AbstractVouched, AbstractEmployee

\* Minting logs an admitted login in.
LEMMA MintIsLogIn ==
  ASSUME EmployeeInvariant, NEW r \in Logins, Mint(r)
  PROVE  Atomic!LogIn(r)
<1> USE DEF EmployeeInvariant
<1>1. /\ pc[r] = "mint" /\ pc' = [pc EXCEPT ![r] = "ok"]
      /\ profile' = [profile EXCEPT ![r] = None]
      /\ activeRead' = [activeRead EXCEPT ![r] = FALSE]
      /\ employee' = [employee EXCEPT ![r] = employee[r]]
      /\ UNCHANGED <<table, address, account>>
  BY DEF Mint, Goto, TypeOK, google
<1>2. Verdict(r) = "admitted" /\ Verdict(r)' = "in" /\ employee'[r] = employee[r]
  BY <1>1 DEF Verdict, Pending, TypeOK, Looking
<1>3. /\ AbstractVouched'[r] = AbstractVouched[r]
      /\ AbstractEmployee'[r] = AbstractEmployee[r]
      /\ AbstractVerdict[r] = "admitted"
  BY <1>2 DEF AbstractVerdict, AbstractVouched, AbstractEmployee, Undecided
<1>4. /\ AbstractVerdict' = [AbstractVerdict EXCEPT ![r] = "in"]
      /\ AbstractVouched' = [AbstractVouched EXCEPT ![r] = AbstractVouched[r]]
      /\ AbstractEmployee' = [AbstractEmployee EXCEPT ![r] = AbstractEmployee[r]]
  BY <1>1, <1>2, <1>3, OthersUnjudged
<1>5. UNCHANGED <<AbstractVouched, AbstractEmployee>>
  BY <1>4 DEF AbstractVouched, AbstractEmployee
<1> QED
  BY <1>1, <1>3, <1>4, <1>5
  DEF Atomic!LogIn, Atomic!table, table, AbstractVerdict, AbstractVouched, AbstractEmployee

\* A refusal and every failure, at whatever step, end a login without tokens.
LEMMA AbandonIsGiveUp ==
  ASSUME EmployeeInvariant, NEW r \in Logins, pc[r] \in Steps, Abandon(r)
  PROVE  Atomic!GiveUp(r)
<1> USE DEF EmployeeInvariant
<1>1. /\ pc' = [pc EXCEPT ![r] = "failed"]
      /\ profile' = [profile EXCEPT ![r] = None]
      /\ activeRead' = [activeRead EXCEPT ![r] = FALSE]
      /\ employee' = [employee EXCEPT ![r] = None]
      /\ account' = [account EXCEPT ![r] = None]
      /\ UNCHANGED <<table, address>>
  BY DEF Abandon, google
<1>2. Verdict(r) \in {"pending", "admitted", "refused"} /\ Verdict(r)' = "failed"
      /\ profile'[r] = None /\ employee'[r] = None
  BY <1>1 DEF Verdict, Pending, TypeOK, Steps, Looking, Writing
<1>3. /\ AbstractVouched'[r] = None /\ AbstractEmployee'[r] = None
      /\ AbstractVerdict[r] \in {"pending", "admitted", "refused"}
  BY <1>2 DEF AbstractVerdict, AbstractVouched, AbstractEmployee, Undecided
<1>4. /\ AbstractVerdict' = [AbstractVerdict EXCEPT ![r] = "failed"]
      /\ AbstractVouched' = [AbstractVouched EXCEPT ![r] = None]
      /\ AbstractEmployee' = [AbstractEmployee EXCEPT ![r] = None]
  BY <1>1, <1>2, <1>3, OthersUnjudged
<1> QED
  BY <1>1, <1>3, <1>4
  DEF Atomic!GiveUp, Atomic!table, table, AbstractVerdict, AbstractVouched, AbstractEmployee

\* A lookup that finds nothing or finds by address, and the update of lastLogin
\* after the decision, show nothing.
LEMMA QuietSteps ==
  ASSUME EmployeeInvariant, NEW r \in Logins,
         \/ UnknownGoogleId(r) \/ UnknownEmail(r) \/ TouchLastLogin(r)
         \/ \E e \in Employees : FoundByEmail(r, e)
  PROVE  UNCHANGED Atomic!vars
<1> USE DEF EmployeeInvariant
<1>1. /\ \/ pc[r] \in Looking /\ pc'[r] \in Looking \cup {"link", "create"}
         \/ pc[r] = "touch" /\ pc'[r] = Check(activeRead[r]) /\ UNCHANGED <<employee, activeRead>>
      /\ \E to, read, e :
            /\ pc' = [pc EXCEPT ![r] = to]
            /\ activeRead' = [activeRead EXCEPT ![r] = read]
            /\ employee' = [employee EXCEPT ![r] = e]
      /\ profile' = [profile EXCEPT ![r] = profile[r]]
      /\ UNCHANGED <<table, address, account>>
  <2>1. \A to, read, e :
           /\ [pc EXCEPT ![r] = to][r] = to
           /\ [activeRead EXCEPT ![r] = activeRead[r]] = activeRead
           /\ [employee EXCEPT ![r] = employee[r]] = employee
           /\ [profile EXCEPT ![r] = profile[r]] = profile
    BY DEF TypeOK
  <2>2. CASE UnknownGoogleId(r)
    BY <2>1, <2>2 DEF UnknownGoogleId, Goto, Looking, local, google
  <2>3. CASE UnknownEmail(r)
    BY <2>1, <2>3 DEF UnknownEmail, Goto, Looking, local, google
  <2>4. CASE TouchLastLogin(r)
    BY <2>1, <2>4 DEF TouchLastLogin, Goto, local, google
  <2>5. CASE \E e \in Employees : FoundByEmail(r, e)
    <3>1. PICK e \in Employees : FoundByEmail(r, e)
      BY <2>5
    <3>2. /\ pc' = [pc EXCEPT ![r] = "link"]
          /\ activeRead' = [activeRead EXCEPT ![r] = active[e]]
          /\ employee' = [employee EXCEPT ![r] = e]
          /\ pc[r] = "by_email"
      BY <3>1 DEF FoundByEmail, Goto, Assign
    <3> QED
      BY <2>1, <3>1, <3>2 DEF FoundByEmail, Looking, google
  <2> QED
    BY <2>2, <2>3, <2>4, <2>5
<1>2. /\ Verdict(r)' = Verdict(r) /\ profile'[r] = profile[r]
      /\ Verdict(r) \notin Undecided => employee'[r] = employee[r]
  BY <1>1 DEF Verdict, Pending, TypeOK, Looking, Check, Undecided
<1>3. /\ AbstractVerdict[r] = Verdict(r)'
      /\ AbstractVouched'[r] = AbstractVouched[r]
      /\ AbstractEmployee'[r] = AbstractEmployee[r]
  BY <1>2 DEF AbstractVerdict, AbstractVouched, AbstractEmployee
<1>4. /\ AbstractVerdict' = [AbstractVerdict EXCEPT ![r] = AbstractVerdict[r]]
      /\ AbstractVouched' = [AbstractVouched EXCEPT ![r] = AbstractVouched[r]]
      /\ AbstractEmployee' = [AbstractEmployee EXCEPT ![r] = AbstractEmployee[r]]
  <2>1. PICK to, read, e : /\ pc' = [pc EXCEPT ![r] = to]
                           /\ activeRead' = [activeRead EXCEPT ![r] = read]
                           /\ employee' = [employee EXCEPT ![r] = e]
    BY <1>1
  <2> QED
    BY <1>1, <1>3, <2>1, OthersUnjudged
<1>5. UNCHANGED <<AbstractVerdict, AbstractVouched, AbstractEmployee>>
  BY <1>4 DEF AbstractVerdict, AbstractVouched, AbstractEmployee
<1> QED
  BY <1>1, <1>5
  DEF Atomic!vars, Atomic!table, table, AbstractVerdict, AbstractVouched, AbstractEmployee

\* An administrator's change and Google's change of address are the abstract
\* ones; the clock shows nothing.
LEMMA EnvironmentIsAtomic ==
  ASSUME EmployeeInvariant,
         \/ \E e \in Employees : Deactivate(e) \/ Reactivate(e)
         \/ \E a \in Accounts, m \in Emails \cup {None} : ChangeAddress(a, m)
         \/ Tick
         \/ UNCHANGED vars
  PROVE  [Atomic!Next]_(Atomic!vars)
<1>1. ASSUME UNCHANGED <<pc, profile, employee, activeRead>>
      PROVE  UNCHANGED <<AbstractVerdict, AbstractVouched, AbstractEmployee>>
  BY <1>1 DEF AbstractVerdict, AbstractVouched, AbstractEmployee, Verdict, Pending
<1>2. ASSUME NEW e \in Employees, Deactivate(e) \/ Reactivate(e)
      PROVE  e \in rows /\ Atomic!SetActive(e)
  <2>1. /\ e \in rows /\ active' = [active EXCEPT ![e] = ~active[e]]
        /\ UNCHANGED <<rows, email, googleId, address, account>>
        /\ UNCHANGED <<pc, profile, employee, activeRead>>
    BY <1>2 DEF Deactivate, Reactivate, google, local, EmployeeInvariant, TypeOK
  <2> QED
    BY <1>1, <2>1 DEF Atomic!SetActive, AbstractVerdict, AbstractVouched, AbstractEmployee
<1>3. ASSUME NEW a \in Accounts, NEW m \in Emails \cup {None}, ChangeAddress(a, m)
      PROVE  Atomic!ChangeAddress(a, m)
  <2>1. /\ address' = [address EXCEPT ![a] = m]
        /\ UNCHANGED <<table, account>>
        /\ UNCHANGED <<pc, profile, employee, activeRead>>
    BY <1>3 DEF ChangeAddress, local
  <2> QED
    BY <1>1, <2>1
    DEF Atomic!ChangeAddress, Atomic!table, table, AbstractVerdict, AbstractVouched,
        AbstractEmployee
<1>4. ASSUME Tick \/ UNCHANGED vars
      PROVE  UNCHANGED Atomic!vars
  <2>1. /\ UNCHANGED <<table, address, account>>
        /\ UNCHANGED <<pc, profile, employee, activeRead>>
    BY <1>4 DEF Tick, vars, google, local
  <2> QED
    BY <1>1, <2>1
    DEF Atomic!vars, Atomic!table, table, AbstractVerdict, AbstractVouched, AbstractEmployee
<1> QED
  BY <1>2, <1>3, <1>4 DEF Atomic!Next

\* The handler implements one atomic decision: each statement of a login is one
\* step of AtomicProvisioning or shows nothing.
THEOREM LoginIsAtomicHolds == Spec => LoginIsAtomic
<1>1. Init => Atomic!Init
  <2> SUFFICES ASSUME Init
               PROVE  Atomic!Init
    OBVIOUS
  <2>1. /\ AbstractVerdict = [r \in Logins |-> "none"]
        /\ AbstractVouched = [r \in Logins |-> None]
        /\ AbstractEmployee = [r \in Logins |-> None]
    <3>1. \A r \in Logins : Verdict(r) = "none" /\ profile[r] = None
      <4>1. \A r \in Logins : pc[r] = "idle" /\ profile[r] = None
        BY DEF Init
      <4> QED
        BY <4>1 DEF Verdict, Pending, Looking
    <3> QED
      BY <3>1 DEF AbstractVerdict, AbstractVouched, AbstractEmployee, Undecided
  <2>2. /\ email \in {f \in [Employees -> Emails \cup {None}] : OneToOne(f)}
        /\ address \in [Accounts -> Emails \cup {None}]
    BY DEF Init
  <2> QED
    BY <2>1, <2>2
    DEF Init, OneToOne, Employees, Atomic!Init, Atomic!OneToOne, Atomic!Employees,
        AbstractVerdict, AbstractVouched, AbstractEmployee
<1>2. ASSUME EmployeeInvariant, EmployeeInvariant', [Next]_vars
      PROVE  [Atomic!Next]_(Atomic!vars)
  <2>1. ASSUME NEW r \in Logins, NEW a \in Accounts, Exchanged(r, a)
        PROVE  Atomic!Next
    BY <1>2, <2>1, ExchangeIsArrive DEF Atomic!Next
  <2>2. ASSUME NEW r \in Logins, Lookup(r) \/ Finish(r)
        PROVE  Atomic!Next \/ UNCHANGED Atomic!vars
    <3>1. CASE ReceiveProfile(r)
      BY <1>2, <3>1, ProfileIsVouched DEF Atomic!Next
    <3>2. ASSUME NEW e \in Employees, FoundByGoogleId(r, e)
          PROVE  Atomic!Next
      BY <1>2, <3>2, FoundIsKnown DEF Atomic!Next
    <3>3. CASE \/ UnknownGoogleId(r) \/ UnknownEmail(r) \/ TouchLastLogin(r)
               \/ \E e \in Employees : FoundByEmail(r, e)
      BY <1>2, <3>3, QuietSteps
    <3>4. CASE LinkGoogleId(r)
      BY <1>2, <3>4, LinkIsTake DEF Atomic!Next
    <3>5. CASE CreateEmployee(r)
      BY <1>2, <3>5, CreateIsMake DEF Atomic!Next
    <3>6. CASE Mint(r)
      BY <1>2, <3>6, MintIsLogIn DEF Atomic!Next
    <3>7. CASE Refuse(r) \/ Fail(r)
      <4>1. pc[r] \in Steps /\ Abandon(r)
        BY <3>7 DEF Refuse, Fail, Steps
      <4> QED
        BY <1>2, <4>1, AbandonIsGiveUp DEF Atomic!Next
    <3> QED
      BY <2>2, <3>1, <3>2, <3>3, <3>4, <3>5, <3>6, <3>7 DEF Lookup, Finish
  <2> QED
    BY <1>2, <2>1, <2>2, EnvironmentIsAtomic DEF Next
<1> QED
  BY <1>1, <1>2, EmployeeInvariantHolds, PTL DEF Spec, LoginIsAtomic, Atomic!Spec
=============================================================================
