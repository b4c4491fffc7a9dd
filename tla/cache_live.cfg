\* Two callers over two keys with room for one, under fairness.
SPECIFICATION FairSpec
CONSTANTS
    Callers = {c1, c2}
    Keys = {k1, k2}
    ExpiresAts = {NoExpiry, 0}
    NoExpiry = NoExpiry
    ttl = 2
    MaxEntriesOption = 1
    sweepInterval = 0
    Horizon = 1
    nil = nil
PROPERTY
    SetCompletes
CHECK_DEADLOCK TRUE
