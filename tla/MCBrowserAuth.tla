--------------------------- MODULE MCBrowserAuth ---------------------------
(* Instances of BrowserAuth for TLC. *)
EXTENDS BrowserAuth, TLC

\* Sign-ins and the requests of the admin page are each interchangeable.
Symmetry == Permutations(Logins) \cup Permutations(Fetches)
=============================================================================
