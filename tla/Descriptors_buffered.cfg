SPECIFICATION StdioSpec
CONSTANTS
    Limit = 7
    MaxRedirects = 1
    ExitArgs <- SmallExitArgs
    LongMax = 1023
INVARIANT OutputFollowsRedirection
