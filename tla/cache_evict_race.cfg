\* Two callers: eviction against concurrent Gets and Sets.
SPECIFICATION Spec
CONSTANTS
    Callers = {c1, c2}
    Keys = {k1, k2}
    ExpiresAts = {NoExpiry, 0}
    NoExpiry = NoExpiry
    ttl = 2
    MaxEntriesOption = 1
    sweepInterval = 0
    Horizon = 1
    nil = nil
PROPERTY
    EvictsAsDocumented
CHECK_DEADLOCK TRUE
