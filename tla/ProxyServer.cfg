SPECIFICATION ProxyServerSpec
CONSTANTS
    Conns = {c1, c2}
    Requests <- SomeRequests
    Faults = {"upstream"}
    MaxRestarts = 1
    MaxBody = 1
    MayBreak = TRUE
INVARIANT ExchangeIsItsOwn
PROPERTIES
    ImplementsServer
    EveryRequestAnswered
CHECK_DEADLOCK FALSE
