--------------------------- MODULE MCCacheService ---------------------------
(* Instances of CacheService for TLC. *)
EXTENDS CacheService, TLC

\* Keys and calls are each interchangeable.
Symmetry == Permutations(Keys) \cup Permutations(Calls)
=============================================================================
