--------------------------- MODULE StaticEndpoint ---------------------------
(***************************************************************************)
(* The static verifier endpoint,                                           *)
(* src/policy_verification/endpoint/static.go: allow rules matched         *)
(* locally.  Texts are sequences, in which "*" stands for itself.          *)
(***************************************************************************)
EXTENDS Texts

(* Slip: the prefix keeps its star. *)
matchPatternStar(pattern, value) ==
    \/ pattern = <<"*">>
    \/ IF IsSuffix(<<"*">>, pattern) THEN IsPrefix(pattern, value) ELSE pattern = value

(* "*" matches everything, "prefix*" by prefix, everything else exactly. *)
matchPattern(pattern, value) ==
    \/ pattern = <<"*">>
    \/ IF IsSuffix(<<"*">>, pattern)
       THEN IsPrefix(TrimSuffix(pattern, "*"), value)
       ELSE pattern = value

(* staticEndpoint.Verify, after getToken: some rule allows the request. *)
Allows(rules, resource, action) ==
    \E rule \in ToSet(rules) :
        matchPattern(rule.Resource, resource) /\ matchPattern(rule.Action, action)
=============================================================================
