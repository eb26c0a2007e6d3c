SPECIFICATION Spec
CONSTANTS
    Limit = 7
    MaxRedirects = 1
INVARIANT ShellKeepsItsStdio
