\* Two callers and the sweeper over two keys with room for one.
\* With ttl 0 an entry lives for the clock reading it was stored at; one tick is
\* enough to pass the lifetime of an entry and the expiration of a token.
SPECIFICATION Spec
CONSTANTS
    Callers = {c1, c2}
    Keys = {k1, k2}
    ExpiresAts = {NoExpiry, 0}
    NoExpiry = NoExpiry
    ttl = 0
    MaxEntriesOption = 1
    sweepInterval = 1
    Horizon = 1
    nil = nil
SYMMETRY Symmetry
INVARIANTS
    TypeOK
    CapacityBound
PROPERTIES
    HitIsFresh
    ImplementsLossyCache
CHECK_DEADLOCK TRUE
