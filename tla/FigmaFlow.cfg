SPECIFICATION FlowSpec
CONSTANTS
    Plugins = {"Figma2UMG"}
    MayForce = FALSE
    FaultKinds = {"network", "remove", "copy", "mark", "timeout"}
    MaxRelease = 2
    MaxFaults = 2
INVARIANT
    BrokenIsNoticed
PROPERTY
    FlowConverges
