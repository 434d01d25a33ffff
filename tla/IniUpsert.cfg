SPECIFICATION Spec
CONSTANTS
    MaxLines = 4
    Words <- MCWords
    Files <- MCFiles
    Settings <- MCSettings
INVARIANTS
    SettingsTakeEffect
    OthersKept
    SecondPassChangesNothing
CHECK_DEADLOCK FALSE
