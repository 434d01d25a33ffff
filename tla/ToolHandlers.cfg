SPECIFICATION Spec
CONSTANTS
    Tools <- MCAllTools
    Engines <- MCEngines
    MaxLosses = 2
INVARIANTS
    TypeOK
    ErrorIsNotDone
    NeverRepeated
    OkIsDoneIfCandid
    RefusalChangesNothing
CHECK_DEADLOCK FALSE
