SPECIFICATION StdioSpec
CONSTANTS
    Limit = 7
    MaxRedirects = 3
    ExitArgs <- SmallExitArgs
    LongMax = 1023
INVARIANTS StdioTypeOK NoDescriptorLeaks ParentRestoresStdio OutputLands ExitStatus
