SPECIFICATION Spec
CONSTANTS
    Lines = {"A", "B", "$B"}
    Expand <- Expanded
    Delims <- TwoDocs
    Roles = {"child"}
    Cap = 3
    MaxLines = 3
    MaxInts = 0
    Faults = FALSE
INVARIANT EveryDocumentIsTyped
