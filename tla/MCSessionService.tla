-------------------------- MODULE MCSessionService --------------------------
(* Instances of SessionService for TLC. *)
EXTENDS SessionService, TLC

\* Calls are interchangeable.
Symmetry == Permutations(Calls)
=============================================================================
