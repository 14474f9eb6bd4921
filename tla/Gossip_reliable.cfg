SPECIFICATION FairSpec
CONSTANTS
    Node = {1, 2}
    Key = {"k1"}
    Author <- MCAuthor
    Mortal = {}
    Lossy = FALSE
    MaxInc = 3
    MaxLife = 0
CHECK_DEADLOCK FALSE
INVARIANT ColdMeansHeard
PROPERTY Converges
