SPECIFICATION FairSpec
CONSTANTS
    Count = 3
    Cap = 1
    Load = 2
    Plans <- AllPlans
    Faults = {"malloc", "pipe", "fork"}
    MaxSignals = 1
INVARIANTS TypeOK PipeEndsWhereMeant NothingLeftBehind StatusOfLastCommand
PROPERTIES ImplementsJob Returns
CHECK_DEADLOCK FALSE
