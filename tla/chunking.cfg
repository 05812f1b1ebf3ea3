CONSTANTS
    MaxTokens = 6
    Limits <- FewLimits
    Glue = 1
SPECIFICATION FairSpec
INVARIANTS
    TypeOK
    NothingLost
    IInv
    
    SentencesWhole
PROPERTY Terminates
CHECK_DEADLOCK FALSE
