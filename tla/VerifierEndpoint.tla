-------------------------- MODULE VerifierEndpoint --------------------------
(***************************************************************************)
(* The verifier endpoints, src/policy_verification/endpoint.  A plain REST *)
(* policy server, OPA and the Cedar agent are asked over HTTP; the static  *)
(* endpoint decides by its own rules (StaticEndpoint).  Verify turns the   *)
(* exchange, or the match, into nil, here "OK", or the code of a status    *)
(* error.                                                                  *)
(***************************************************************************)
EXTENDS Integers

CONSTANTS Statuses    \* HTTP status codes that the decision points send

ASSUME StatusesAreHTTP == Statuses \subseteq 100 .. 599

EndpointKinds == {"rest", "opa", "cedar", "static"}

(* One exchange.  delivered: httpClient.Do returned a response; read: the  *)
(* body was read without an error; cut: where the LimitReader ended it, if *)
(* anywhere, inside the object or in what lies behind the object and the   *)
(* white space after it; json: the body begins with an object of the       *)
(* response type, and nothing but white space is behind it before the cut; *)
(* decision: what the object says, "other" when the field is absent or has *)
(* another value.  For the static endpoint decision alone counts: whether  *)
(* a rule allows the request.                                              *)
Exchanges ==
    [delivered : BOOLEAN, read : BOOLEAN, cut : {"no", "inside", "behind"}, status : Statuses,
     json : BOOLEAN, decision : {"allow", "deny", "other"}]

Is2xx(status) == 200 <= status /\ status < 300

(* Slip: a status that the table does not have is an error without a code. *)
restVerifyUnknown(x) ==
    IF ~ x.delivered THEN "Internal"
    ELSE IF Is2xx(x.status) THEN "OK"
    ELSE IF x.status = 403 THEN "PermissionDenied"
    ELSE IF x.status = 401 THEN "Unauthenticated"
    ELSE "Unknown"

(* restPolicyVerifierEndpoint.Verify: the status decides, the body is only *)
(* logged.                                                                 *)
restVerify(x) ==
    IF ~ x.delivered THEN "Internal"
    ELSE IF Is2xx(x.status) THEN "OK"
    ELSE IF x.status = 403 THEN "PermissionDenied"
    ELSE IF x.status = 401 THEN "Unauthenticated"
    ELSE "Internal"

(* What OPA and the Cedar agent have in common: a body that could not be   *)
(* read, or that was cut within the object, does not parse; what lies      *)
(* beyond the limit is not looked at.                                      *)
Parsed(x) == x.read /\ x.json /\ x.cut # "inside"

(* restOPAEndpoint.Verify: result absent or false is a refusal. *)
opaVerify(x) ==
    IF ~ x.delivered \/ ~ Is2xx(x.status) \/ ~ Parsed(x) THEN "Internal"
    ELSE IF x.decision = "allow" THEN "OK"
    ELSE "PermissionDenied"

(* Slip: everything but Deny is an Allow. *)
cedarVerifyNotDenied(x) ==
    IF ~ x.delivered \/ ~ Is2xx(x.status) \/ ~ Parsed(x) THEN "Internal"
    ELSE IF x.decision = "deny" THEN "PermissionDenied"
    ELSE "OK"

(* restCedarAgentEndpoint.Verify: any decision but Allow is a refusal. *)
cedarVerify(x) ==
    IF ~ x.delivered \/ ~ Is2xx(x.status) \/ ~ Parsed(x) THEN "Internal"
    ELSE IF x.decision = "allow" THEN "OK"
    ELSE "PermissionDenied"

(* staticEndpoint.Verify: nothing can fail. *)
staticVerify(x) == IF x.decision = "allow" THEN "OK" ELSE "PermissionDenied"

(* Verify; token says whether getToken finds a token in the metadata. *)
Verify(kind, token, x) ==
    IF ~ token THEN "Unauthenticated"
    ELSE CASE kind = "rest" -> restVerify(x)
           [] kind = "opa" -> opaVerify(x)
           [] kind = "cedar" -> cedarVerify(x)
           [] kind = "static" -> staticVerify(x)

(* The decision point tells the truth: an answer that grants is given only *)
(* while the permission is granted, one that refuses only while it is not. *)
(* Errors of any kind can come at any time.                                *)
Truthful(kind, x, granted) ==
    CASE kind = "static" -> (x.decision = "allow") = granted
      [] kind = "rest" ->
         /\ Is2xx(x.status) => granted
         /\ x.status \in {401, 403} => ~ granted
      [] kind \in {"opa", "cedar"} ->
         /\ x.decision = "allow" => granted
         /\ Is2xx(x.status) /\ x.decision # "allow" => ~ granted

VerifyCodes == {"OK", "PermissionDenied", "Unauthenticated", "Internal"}
=============================================================================
