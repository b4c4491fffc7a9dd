\* One call through every chain of different interceptors; the client may send an ID under either key.
SPECIFICATION FairSpec
CONSTANTS
    Calls = {c1}
    Policies = {p1}
    MaxMessages = 1
    MaxChanges = 1
    Statuses = {200, 401, 403, 500}
    nil = nil
    Refused = Refused
    Chains <- AnyChain
    Endpoints = {"rest", "static"}
    metadataKey = "x-trace-id"
    ClientIDs <- OneClientID
INVARIANTS
    TypeOK
    ServedIsAuthorized
    ServedHasIdentity
    OneRequestID
PROPERTIES
    ImplementsGate
    InterceptorsReturn
CHECK_DEADLOCK TRUE
