SPECIFICATION Spec
CONSTANTS
    Word = 2
    MinBlock = 5
    Sizes = {1, 2, 3, 6}
    MaxObjects = 5
    MaxMarks = 2
    Faults = TRUE
INVARIANT ObjectsAreDisjoint
PROPERTIES PopRestores
