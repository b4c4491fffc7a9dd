\* One stream, one revocation.
SPECIFICATION Spec
CONSTANTS
    Calls = {c1}
    Policies = {p1}
    MaxMessages = 2
    MaxChanges = 1
    Statuses = {200, 403}
    nil = nil
PROPERTY
    RejectedOnNextMessage
CHECK_DEADLOCK TRUE
