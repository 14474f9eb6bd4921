CONSTANTS
    Node = {1, 2}
    None = None
    Seed <- MCSeed
    Founder = {1, 2}
    Persistent = {1, 2}
    Pusher = {}
    Mortal = {}
    Graceful = {}
    Overdue = {}
    Diskless = {}
    MaxRound <- MCNoBound
    MaxLife = 0
    MaxLost = 1
    MaxLate = 0
SPECIFICATION FairSpec
CHECK_DEADLOCK FALSE
PROPERTY Heals
