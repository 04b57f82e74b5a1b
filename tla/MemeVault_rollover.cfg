SPECIFICATION Spec
CONSTANTS
    FirstId = 8
    Rollover = 9
    MaxId = 11
    Base = 10
    Words = {}
    Texts = {t1}
    Blank = Blank
    Master = Master
    NoToken = NoToken
    DefaultToken = DefaultToken
    FdLimit = 9
    MaxTokens = 4
    MaxRestarts = 0
    FaultyLives = {}
PROPERTY NewIdIsFresh
CHECK_DEADLOCK FALSE
