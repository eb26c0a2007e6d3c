SPECIFICATION FairSpec
CONSTANTS
    Count = 2
    Value = {0, 1, 130}
    MaxInts = 2
INVARIANTS TypeOK ParentStatus ForkedStatus NothingRunsAtThePrompt
PROPERTIES PromptInterrupt 
