--------------------------- MODULE MCTokenService ---------------------------
(* Instances of TokenService for TLC. *)
EXTENDS TokenService, TLC

\* Requests are interchangeable.
Symmetry == Permutations(Requests)
=============================================================================
