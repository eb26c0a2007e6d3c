SPECIFICATION Spec
CONSTANTS
    Lines = {"A", "B", "$B"}
    Expand <- Expanded
    Delims <- OneDoc
    Roles = {"shell", "child"}
    Cap = 2
    MaxLines = 2
    MaxInts = 1
    Faults = FALSE
INVARIANT InterruptCancels
