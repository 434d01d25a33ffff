SPECIFICATION FairSpec
CONSTANTS
    Kinds <- MCAll
    MaxLines = 2
    MaxBatch = 2
INVARIANTS
    AnswersEveryRequestOnce
PROPERTY
    ServesUntilEof
CHECK_DEADLOCK FALSE
