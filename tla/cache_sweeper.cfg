\* One caller and the sweeper over two keys without a bound on the entries, under fairness.
SPECIFICATION FairSpec
CONSTANTS
    Callers = {c1}
    Keys = {k1, k2}
    ExpiresAts = {NoExpiry, 0}
    NoExpiry = NoExpiry
    ttl = 1
    MaxEntriesOption <- NoBound
    sweepInterval = 1
    Horizon = 2
    nil = nil
PROPERTIES
    ExpiredIsSwept
    SweeperStops
CHECK_DEADLOCK TRUE
