SPECIFICATION Spec
CONSTANTS
    Record = {r1, r2}
    NoRecord = NoRecord
    NumServers = 2
    NumIds = 1
    MAX_ATTEMPTS = 2
    QUEUE_DEPTH = 1
    r1 = r1
    r2 = r2
INVARIANTS NoFalseAck SlotsReclaimed WaiterReachable
PROPERTIES EveryRecordSettles
