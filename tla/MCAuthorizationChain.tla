------------------------ MODULE MCAuthorizationChain ------------------------
(***************************************************************************)
(* Model checking of AuthorizationChain.                                   *)
(***************************************************************************)
EXTENDS AuthorizationChain, TLC

(* Every selection of the interceptors in every order. *)
AnyChain == SetToAllKPermutations(Stages)

OneClientID == {<<"client">>}
=============================================================================
