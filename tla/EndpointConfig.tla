--------------------------- MODULE EndpointConfig ---------------------------
(***************************************************************************)
(* Construction of the four clients that talk HTTP: NewRESTEndpoint,       *)
(* NewOPAEndpoint and NewCedarAgentEndpoint of                             *)
(* src/policy_verification/endpoint and NewRFC7662Introspector of          *)
(* src/token_introspection/rfc7662.go, with their options.                 *)
(*                                                                         *)
(* A URL is a sequence of pieces: white space around it, a scheme, a host, *)
(* slashes and names, without query or fragment; "%" is a piece that       *)
(* url.Parse rejects.                                                      *)
(***************************************************************************)
EXTENDS Texts

ClientKinds == {"rest", "opa", "cedar", "rfc7662"}
URLSchemes == {"http://", "https://"}

(* http is the default towards a decision point, https towards an          *)
(* introspection endpoint.                                                 *)
DefaultScheme(kind) == IF kind = "rfc7662" THEN "https://" ELSE "http://"

WithScheme(kind, raw) ==
    IF Head(raw) \in URLSchemes THEN raw ELSE <<DefaultScheme(kind)>> \o raw

-----------------------------------------------------------------------------
(* The path of the API is put behind the base URL; the introspection URL   *)
(* is taken as it is.                                                      *)

(* Slip: a slash at the end of the base stays. *)
restURLUntrimmed(raw) == raw \o <<"/", "verify">>

restURL(raw) == TrimSuffix(raw, "/") \o <<"/", "verify">>

opaURL(raw, policyPath) ==
    TrimSuffix(raw, "/") \o <<"/", "v1", "/", "data", "/">> \o TrimPrefix(policyPath, "/")

cedarURL(raw) == TrimSuffix(raw, "/") \o <<"/", "v1", "/", "is_authorized">>

endpointURL(kind, raw, policyPath) ==
    CASE kind = "rest" -> restURL(raw)
      [] kind = "opa" -> opaURL(raw, policyPath)
      [] kind = "cedar" -> cedarURL(raw)
      [] kind = "rfc7662" -> raw

-----------------------------------------------------------------------------
(* An option sets one field of the configuration; the last one wins.  Of a *)
(* duration or a size only the sign counts, and of a function whether it   *)
(* is nil, here "".                                                        *)

restDefaults ==
    [timeout |-> "positive", maxResponseBodySize |-> "positive",
     requestIDHeaderKey |-> "x-request-id", requestIDFunc |-> ""]

cedarDefaults ==
    [timeout |-> "positive", maxResponseBodySize |-> "positive",
     requestIDHeaderKey |-> "x-request-id", requestIDFunc |-> "",
     principalResolver |-> "token"]

rfc7662Defaults ==
    [timeout |-> "positive", maxResponseBodySize |-> "positive",
     requestIDHeaderKey |-> "x-request-id", requestIDFunc |-> "", auth |-> "none"]

Defaults(kind) ==
    CASE kind \in {"rest", "opa"} -> restDefaults
      [] kind = "cedar" -> cedarDefaults
      [] kind = "rfc7662" -> rfc7662Defaults

(* Some options panic when they are called: the timeout and the size have  *)
(* to be positive ...                                                      *)
restPanics(option) ==
    option.field \in {"timeout", "maxResponseBodySize"} /\ option.value # "positive"

(* ... as for the Cedar agent, which also needs a resolver ... *)
cedarPanics(option) ==
    \/ restPanics(option)
    \/ option.field = "principalResolver" /\ option.value = ""

(* ... and for introspection, where a client secret or a token must not be *)
(* empty.                                                                  *)
rfc7662Panics(option) ==
    \/ restPanics(option)
    \/ option.field = "auth" /\ option.value = ""

(* Slip: zero passes. *)
PanicsBelowZero(kind, option) == option.value \in {"negative", ""}

Panics(kind, option) ==
    CASE kind \in {"rest", "opa"} -> restPanics(option)
      [] kind = "cedar" -> cedarPanics(option)
      [] kind = "rfc7662" -> rfc7662Panics(option)

applyOptions(kind, options) ==
    LET apply(cfg, option) == [cfg EXCEPT ![option.field] = option.value]
    IN  FoldLeft(apply, Defaults(kind), options)

-----------------------------------------------------------------------------
(* The constructors: an error, or a client. *)
NewEndpoint(kind, baseURL, policyPath, options) ==
    LET raw == TrimSpace(baseURL)
    IN  IF \/ raw = <<>>
           \/ kind = "opa" /\ TrimSpace(policyPath) = <<>>
           \/ kind # "rfc7662" /\ Contains(raw, "%")
        THEN [ok |-> FALSE]
        ELSE [ok |-> TRUE,
              url |-> endpointURL(kind, WithScheme(kind, raw), TrimSpace(policyPath)),
              cfg |-> applyOptions(kind, options)]
=============================================================================
