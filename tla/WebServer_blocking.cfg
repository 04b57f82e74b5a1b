SPECIFICATION LoopSpec
CONSTANTS
    Conns = {c1, c2}
    Requests <- LocalRequests
    Faults = {}
    MaxRestarts = 0
PROPERTIES
    LocalRequestsAnswered
CHECK_DEADLOCK FALSE
