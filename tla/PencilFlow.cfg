SPECIFICATION FlowSpec
CONSTANTS
    Plugins = {"Pencil2UMG"}
    MayForce = FALSE
    FaultKinds = {"copy"}
    MaxRelease = 1
    MaxFaults = 1
PROPERTY
    FlowConverges
