SPECIFICATION Spec
CONSTANTS
    Count = 3
    Cap = 1
    Load = 1
    Plans <- PlainPlans
    Faults = {}
    MaxSignals = 1
PROPERTY InterruptEndsLaunch
