SPECIFICATION Spec
CONSTANTS
    Calls = {c1, c2}
    Names <- MCNames
    Streaming <- StreamNames
    Requests <- MCRequests
    Registry <- MCRegistry
    nil = nil
SYMMETRY Symmetry
INVARIANTS
    TypeOK
    HandlerSeesItsPolicy
    RefusedForItsOwnFault
