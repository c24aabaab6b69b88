SPECIFICATION Spec
CHECK_DEADLOCK FALSE
CONSTANTS
    Session = {s1, s2}
    NumServers = 2
    QUEUE_DEPTH = 1
    Answer <- MCAnswer
    s1 = s1
    s2 = s2
INVARIANTS VerdictEarned
PROPERTIES NoHeadOfLineBlocking EveryLoginAnswered
