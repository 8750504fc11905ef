---------------------------- MODULE MCOAuthLogin ----------------------------
(* Instances of OAuthLogin for TLC. *)
EXTENDS OAuthLogin, TLC

\* URLs, callbacks and codes are each interchangeable.
Symmetry == Permutations(Urls) \cup Permutations(Callbacks) \cup Permutations(Codes)
=============================================================================
