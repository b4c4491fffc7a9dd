SPECIFICATION Spec
CONSTANTS
    Calls = {c1}
    Names <- NoActionNames
    Streaming <- NoActionNames
    Requests <- MCRequests
    Registry <- NoActionRegistry
    nil = nil
INVARIANTS
    StreamInjectsAsUnary
