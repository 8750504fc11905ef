\* One employee known by address, two Google accounts, three logins.
SPECIFICATION Spec
CONSTANTS
  Logins = {r1, r2, r3}
  Staff = {e1}
  Accounts = {a1, a2}
  Emails = {m1, m2}
  None = None
  MaxTime = 1
SYMMETRY Symmetry
INVARIANTS
  SameAccountSameEmployee
  BarredNeverAdmitted
PROPERTIES
  OwnedThroughAddress
  LoginIsAtomic
CHECK_DEADLOCK FALSE
