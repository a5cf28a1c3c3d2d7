SPECIFICATION Spec
CONSTANTS
    TotalSteps = 2
    Handlers = {h1, h2}
    OffCurrent = {}
    MaxCalls = 2
    MaxFaults = 0
    h1 = h1
    h2 = h2
PROPERTIES
    EndIsFinal
CHECK_DEADLOCK FALSE
