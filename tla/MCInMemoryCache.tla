-------------------------- MODULE MCInMemoryCache --------------------------
(***************************************************************************)
(* Model checking of InMemoryCache.                                        *)
(***************************************************************************)
EXTENDS InMemoryCache, TLC

(* WithMaxEntries(-1): no bound. *)
NoBound == -1

(* Callers and keys are interchangeable. *)
Symmetry == Permutations(Callers) \cup Permutations(Keys)
=============================================================================
