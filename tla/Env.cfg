SPECIFICATION CommandsSpec
CONSTANTS
    Char <- SmallChar
    Letters <- SmallLetters
    Digits = {"1"}
    InitialCap = 3
    Environs <- SmallEnvirons
    Commands <- SmallCommands
    Dirs <- SmallDirs
    Faults = TRUE
    Null = Null
    Forked <- SmallForked
    Files <- SmallFiles
INVARIANTS CommandsTypeOK Terminated RunsTheFirst ChildSeesVariables
PROPERTIES ExportEffect UnsetEffect CdEffect ImplementsVariables
