\* Two RPCs with two credentials under a scheme with a chain of two strategies and under an
\* unregistered scheme with a colon, so that two of the headers share a cache key; the endpoint
\* of the second strategy is imprecise; the clock stands still; under fairness.
SPECIFICATION FairSpec
CONSTANTS
    RPCs = {r1, r2}
    i1 = i1
    i2 = i2
    Schemes <- BearerSchemes
    Credentials <- Tokens
    schemes <- OneScheme
    Imprecise = {i2}
    Claims = {NoExpiry}
    OutOfRange = OutOfRange
    Second = 1
    NoExpiry = NoExpiry
    ttl = 0
    maxResponseBodySize = 1
    Statuses = {200, 401, 500}
    Horizon = 0
    nil = nil
INVARIANT
    OwnIdentity
PROPERTY
    IntrospectReturns
CHECK_DEADLOCK TRUE
