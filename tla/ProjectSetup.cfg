SPECIFICATION Spec
CONSTANTS
    Associations <- MCLauncher
    FileFaults = {"unreadable", "fails", "short"}
    MaxRuns = 2
    MaxEdits = 1
INVARIANTS
    OkMeansConfigured
    ReportIsExact
    SecondRunChangesNothing
    DryRunPredicts
CHECK_DEADLOCK FALSE
