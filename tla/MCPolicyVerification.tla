------------------------ MODULE MCPolicyVerification ------------------------
(***************************************************************************)
(* Model checking of PolicyVerification.                                   *)
(***************************************************************************)
EXTENDS PolicyVerification, TLC

Symmetry == Permutations(Calls)
=============================================================================
