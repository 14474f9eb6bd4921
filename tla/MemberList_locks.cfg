SPECIFICATION Spec
CONSTANTS
    Member = {m1}
    Thread = {inbound, outbound}
    MaxInc = 1
    MaxUpdates = 4
INVARIANT TypeOK
INVARIANT RecordHasHealth
INVARIANT TimersHaveRecord
