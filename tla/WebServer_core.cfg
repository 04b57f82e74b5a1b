SPECIFICATION Spec
CONSTANTS
    Conns = {c1, c2, c3}
    Requests <- AllRequests
    Faults = {"reset", "upstream"}
    MaxRestarts = 1
SYMMETRY Symmetry
INVARIANTS
    TypeOK
    StatusAccounts
    TotalIsAnswered
    
    
    NoHangUpUnanswered

    
CHECK_DEADLOCK FALSE
