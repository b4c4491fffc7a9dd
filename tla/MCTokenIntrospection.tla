------------------------ MODULE MCTokenIntrospection ------------------------
(***************************************************************************)
(* Model checking of TokenIntrospection.                                   *)
(***************************************************************************)
EXTENDS TokenIntrospection, TLC

CONSTANTS i1, i2

(* Of the schemes, the last is not registered; with the first credential   *)
(* it reads like bearer with the second.                                   *)
Bearer == <<"bearer">>
Basic == <<"basic">>
BearerX == <<"bearer", ":", "x">>
AllSchemes == {Bearer, Basic, BearerX}
BearerSchemes == {Bearer, BearerX}

OneToken == {<<"t">>}
Tokens == {<<"t">>, <<"x", ":", "t">>}

(* bearer has a chain of two strategies, the second of which also serves   *)
(* basic.                                                                  *)
TwoSchemes == (Bearer :> <<i1, i2>>) @@ (Basic :> <<i2>>)
OneScheme == Bearer :> <<i1, i2>>

Symmetry == Permutations(RPCs)
=============================================================================
