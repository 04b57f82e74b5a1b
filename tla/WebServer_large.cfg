SPECIFICATION Spec
CONSTANTS
    Conns = {c1}
    Requests <- LargeRequests
    Faults = {}
    MaxRestarts = 0
INVARIANTS
    ResponseIntact
CHECK_DEADLOCK FALSE
