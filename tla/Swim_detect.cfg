CONSTANTS
    Node = {1, 2, 3}
    None = None
    Seed <- MCSeed
    Founder = {1, 2, 3}
    Persistent = {}
    Pusher = {1}
    Mortal = {2}
    Graceful = {2}
    Overdue = {2}
    Diskless = {}
    MaxRound <- MCFirstKeepsProbing
    MaxLife = 0
    MaxLost = 0
    MaxLate = 0
SPECIFICATION FairSpec
CHECK_DEADLOCK FALSE
PROPERTY Detects
