SPECIFICATION Spec
CONSTANTS
    ue425 = ue425
    ue55 = ue55
    ue55NoPython = ue55NoPython
    callTool = callTool
    batchTool = batchTool
    pythonTool = pythonTool
    NoEngine = NoEngine
    NoTool = NoTool
    NPorts = 2
    Engines = {ue55, ue55NoPython}
    Port <- MCPort
    Profile <- MCProfile
    Tools = {callTool, pythonTool}
    Required <- MCRequired
    MaxLosses = 0
INVARIANT
    CapabilitiesCurrent
