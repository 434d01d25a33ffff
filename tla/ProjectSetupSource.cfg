SPECIFICATION Spec
CONSTANTS
    Associations <- MCBuiltFromSource
    FileFaults = {}
    MaxRuns = 1
    MaxEdits = 0
INVARIANT
    OkMeansConfigured
CHECK_DEADLOCK FALSE
