SPECIFICATION Spec
CONSTANTS
    Chars <- AllChars
    MaxTokens = 9
    MaxWord = 2
    MaxQuoted = 3
    MaxLong = 1
INVARIANTS
    TypeOK
    AcceptsTheGrammar
    ConfigIsFile
    StackIsPath
CHECK_DEADLOCK FALSE
