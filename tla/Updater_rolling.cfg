CONSTANTS
    Member = {1, 2, 3}
    Mortal = {3}
    MaxVersion = 2
    MaxTerm = 1
    MaxFaults = 1
    MaxDoubts = 0
SPECIFICATION Spec
INVARIANTS TypeOK OneAtATime PollsWhenAgreed UpdaterHasLeader
PROPERTY RolloutCompletes
CHECK_DEADLOCK FALSE
