SPECIFICATION Spec
CONSTANTS
    Record = {r1, r2, r3}
    NoRecord = NoRecord
    NumServers = 1
    NumIds = 2
    MAX_ATTEMPTS = 2
    QUEUE_DEPTH = 1
    r1 = r1
    r2 = r2
    r3 = r3
INVARIANT SlotsIndependent
