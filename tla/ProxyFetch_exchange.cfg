SPECIFICATION FairSpec
CONSTANTS
    MaxBody = 4
    MayBreak = TRUE
INVARIANTS
    TypeOK
    NothingLost
    OnlyBeginningTwice
PROPERTY FetchEnds
CHECK_DEADLOCK FALSE
