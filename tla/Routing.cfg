SPECIFICATION Spec
CONSTANTS
    ConfigFiles <- SomeFiles
    Messages <- AllMessages
    Files <- SomeFilesThere
    Extensions <- Text
    MaxRequests = 2
INVARIANTS
    TypeOK
    PortIsListen
    ServedByItsBlock
    PrefixIsKey
    StatusPageTells
    
    RequestIsRead
CHECK_DEADLOCK FALSE
