SPECIFICATION Spec
CONSTANTS
    Fills <- SomeFills
    Terms <- SomeTerms
    IdTexts <- SomeIds
    MaxPosts = 2
INVARIANTS
    TypeOK
    
    
PROPERTIES
    
    CutNeverEdits
CHECK_DEADLOCK FALSE
