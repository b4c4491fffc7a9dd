------------------------ MODULE RFC7662Introspector ------------------------
(***************************************************************************)
(* The RFC 7662 backend, src/token_introspection/rfc7662.go: what an HTTP  *)
(* exchange with the introspection endpoint is turned into.  Introspect    *)
(* returns the gRPC code of the error, or OK with a result.                *)
(***************************************************************************)
EXTENDS Integers

CONSTANTS
    maxResponseBodySize,   \* the limit of WithMaxResponseBodySize
    Statuses,              \* HTTP status codes that the endpoint sends
    Claims,                \* values of the claim exp, in ticks of the clock
    NoExpiry,              \* there is no claim exp, or it is not a number
    OutOfRange,            \* a number too large for an int64
    Second                 \* ticks of the clock per second

ASSUME SizeIsPositive == maxResponseBodySize \in Nat \ {0}
ASSUME ClaimsAreTimes ==
    /\ Second \in Nat \ {0}
    /\ Claims \subseteq Nat \cup {NoExpiry, OutOfRange}
    /\ NoExpiry \notin Int
ASSUME StatusesAreCodes == Statuses \subseteq 100 .. 599

(* One exchange.  delivered: httpClient.Do returned a response (not a      *)
(* network error, not the timeout); complete: the body was read to its     *)
(* end; size: its length in bytes; json: it parses as a JSON object;       *)
(* active: the claim, "other" when it is absent or not a boolean.          *)
Exchanges ==
    [delivered : BOOLEAN, complete : BOOLEAN, size : 0 .. maxResponseBodySize + 2,
     status : Statuses, json : BOOLEAN, active : {"true", "false", "other"},
     exp : Claims]

Is2xx(status) == 200 <= status /\ status < 300

(* The length that io.ReadAll gets from the LimitReader. *)
BytesRead(x) ==
    IF x.size > maxResponseBodySize + 1 THEN maxResponseBodySize + 1 ELSE x.size

(* Slip: an endpoint that fails counts as one that rejects the token. *)
IntrospectAnyStatus(x) ==
    CASE ~ x.delivered -> "Internal"
      [] x.delivered /\ ~ Is2xx(x.status) -> "Unauthenticated"
      [] OTHER -> IF x.active = "true" THEN "OK" ELSE "Unauthenticated"

(* Slip: the size is not checked and an answer that does not parse is      *)
(* taken for an answer without claims.                                     *)
IntrospectLenient(x) ==
    CASE ~ x.delivered -> "Internal"
      [] x.delivered /\ x.status = 401 -> "Unauthenticated"
      [] x.delivered /\ x.status # 401 /\ ~ Is2xx(x.status) -> "Internal"
      [] OTHER -> IF x.json /\ x.active = "true" THEN "OK" ELSE "Unauthenticated"

(* Introspect: the checks in the order of the code. *)
Introspect(x) ==
    CASE ~ x.delivered \/ ~ x.complete -> "Internal"
      [] x.delivered /\ x.complete /\ BytesRead(x) > maxResponseBodySize -> "Internal"
      [] x.delivered /\ x.complete /\ BytesRead(x) <= maxResponseBodySize ->
            IF ~ Is2xx(x.status)
            THEN IF x.status = 401 THEN "Unauthenticated" ELSE "Internal"
            ELSE IF ~ x.json THEN "Internal"
            ELSE IF x.active # "true" THEN "Unauthenticated"
            ELSE "OK"

(* Slip: rounded instead of cut off. *)
ExpiresAtRounded(claim) ==
    IF claim = NoExpiry THEN NoExpiry
    ELSE IF claim = OutOfRange THEN -1
    ELSE ((claim + Second - 1) \div Second) * Second

(* The claim exp is a float64, converted to whole seconds.  What is too    *)
(* large becomes the smallest int64, or the largest, which time.Unix wraps *)
(* around: either way a time long past, here -1.                           *)
ExpiresAt(claim) ==
    IF claim = NoExpiry THEN NoExpiry
    ELSE IF claim = OutOfRange THEN -1
    ELSE (claim \div Second) * Second

Codes == {"OK", "Unauthenticated", "Internal"}
=============================================================================
