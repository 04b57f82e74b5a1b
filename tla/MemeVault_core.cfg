SPECIFICATION Spec
CONSTANTS
    FirstId = 10000
    Rollover = 99999
    MaxId = 10001
    Base = 10
    Words = {w1}
    Texts = {t1}
    Blank = Blank
    Master = Master
    NoToken = NoToken
    DefaultToken = DefaultToken
    FdLimit = 2
    MaxTokens = 2
    MaxRestarts = 1
    FaultyLives = {0}
INVARIANTS TypeOK TokenNamesMeme NoRevival StoredUnlessStarved
PROPERTIES LiveTokenNeverChanges 
CHECK_DEADLOCK FALSE
