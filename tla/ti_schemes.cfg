\* Two RPCs, one credential under two registered schemes and an unregistered one; the endpoint
\* of the strategy that both registered schemes have is imprecise.
SPECIFICATION Spec
CONSTANTS
    RPCs = {r1, r2}
    i1 = i1
    i2 = i2
    Schemes <- AllSchemes
    Credentials <- OneToken
    schemes <- TwoSchemes
    Imprecise = {i2}
    Claims = {NoExpiry, 1, OutOfRange}
    OutOfRange = OutOfRange
    Second = 2
    NoExpiry = NoExpiry
    ttl = 1
    maxResponseBodySize = 1
    Statuses = {200, 401, 500}
    Horizon = 2
    nil = nil
SYMMETRY Symmetry
INVARIANTS
    TypeOK
    OwnIdentity
    EarlierStrategiesDeclined
    UnauthenticatedMeansInactive
PROPERTIES
    RevocationIsFinal
    HitBeforeExp
CHECK_DEADLOCK TRUE
