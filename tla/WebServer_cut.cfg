SPECIFICATION Spec
CONSTANTS
    Conns = {c1}
    Requests <- BodyRequests
    Faults = {}
    MaxRestarts = 0
INVARIANTS
    HandlerSeesWholeRequest
CHECK_DEADLOCK FALSE
