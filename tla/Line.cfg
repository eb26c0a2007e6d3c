SPECIFICATION Spec
CONSTANTS
    Letters = {"a"}
    Digits = {"1"}
    Vars <- AValue
    Status <- OneStatus
    Inputs <- SmallInputs
    Faults = TRUE
INVARIANTS TypeOK LexFaithful ParsesTheGrammar ExecutesWhatWasTyped OutOfMemory ArgvFits MemoryOwned
