SPECIFICATION Spec
CONSTANTS
    Node = {1, 2}
    Key = {"k1"}
    Author <- MCAuthor
    Mortal = {1, 2}
    Lossy = TRUE
    MaxInc = 2
    MaxLife = 1
CHECK_DEADLOCK FALSE
INVARIANTS TypeOK DurableOnceSaved
PROPERTY OnlyRestartForgets
