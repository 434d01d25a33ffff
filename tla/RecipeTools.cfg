SPECIFICATION ToolsSpec
CONSTANTS
    Results <- MCResults
    Newlines = {TRUE, FALSE}
    MaxLog = 3
    Tools <- MCTools
    Importers <- MCImporters
    MaxFaults = 2
INVARIANTS
    ReplyIsLastEmit
    ToolsTypeOK
    OkIsTheWhole
    UnsupportedChangedNothing
    RetryAddsNothing
    RepeatSucceeds
    RefusalLeavesNothing
CHECK_DEADLOCK FALSE
