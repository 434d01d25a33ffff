SPECIFICATION Spec
CONSTANTS
    ue425 = ue425
    ue55 = ue55
    ue55NoPython = ue55NoPython
    callTool = callTool
    batchTool = batchTool
    pythonTool = pythonTool
    NoEngine = NoEngine
    NoTool = NoTool
    NPorts = 2
    Engines = {ue425, ue55}
    Port <- MCPort
    Profile <- MCProfile
    Tools = {callTool, batchTool, pythonTool}
    Required <- MCRequired
    MaxLosses = 2
INVARIANTS
    TypeOK
    OneEnginePerProbe
    CapabilitiesCurrent
