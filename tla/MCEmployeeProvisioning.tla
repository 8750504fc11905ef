------------------------ MODULE MCEmployeeProvisioning ------------------------
(* Instances of EmployeeProvisioning for TLC. *)
EXTENDS EmployeeProvisioning, TLC

\* Logins, accounts and addresses are interchangeable.
Symmetry == Permutations(Logins) \cup Permutations(Accounts) \cup Permutations(Emails)
=============================================================================
