SPECIFICATION Spec
CONSTANTS
    Plugins = {"Pencil2UMG", "Figma2UMG"}
    MayForce = TRUE
    FaultKinds = {"network", "remove", "copy", "mark", "uproject", "disk", "crash", "timeout"}
    MaxRelease = 3
    MaxFaults = 2
INVARIANTS
    InstalledMeansWhole
PROPERTY
    NothingWithoutConfirm
