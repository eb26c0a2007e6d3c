SPECIFICATION FairSpec
CONSTANTS
    Lines = {"A", "B", "$B"}
    Expand <- Expanded
    Delims <- TwoDocs
    Roles = {"shell", "child"}
    Cap = 3
    MaxLines = 4
    MaxInts = 1
    Faults = TRUE
INVARIANTS TypeOK DocumentsAreWhatWasRead InterruptsAccountedFor
PROPERTY Ends
