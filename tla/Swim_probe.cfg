CONSTANTS
    Node = {1, 2, 3}
    None = None
    Seed <- MCSeed
    Founder = {1, 2, 3}
    Persistent = {}
    Pusher = {}
    Mortal = {2}
    Graceful = {2}
    Overdue = {2}
    Diskless = {2}
    MaxRound <- MCFirstProbes
    MaxLife = 1
    MaxLost = 1
    MaxLate = 0
SPECIFICATION Spec
CHECK_DEADLOCK FALSE
INVARIANTS TypeOK NoFalseSuspicion OwnIncarnationLeads
