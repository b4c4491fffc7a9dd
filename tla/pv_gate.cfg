\* Two calls under one policy, any endpoint, two changes of the permission.
SPECIFICATION Spec
CONSTANTS
    Calls = {c1, c2}
    Policies = {p1}
    MaxMessages = 3
    MaxChanges = 2
    Statuses = {200, 401, 403, 500}
    nil = nil
SYMMETRY Symmetry
INVARIANTS
    TypeOK
    GateHolds
    BoundedExposure
CHECK_DEADLOCK TRUE
