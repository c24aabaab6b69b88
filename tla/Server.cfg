SPECIFICATION Spec
CONSTANTS
    Worker = {w1, w2}
    Session = {s1, s2}
    CONTROL_CHANNEL_DEPTH = 1
    MaxSends = 1
    MaxAdmin = 1
    w1 = w1
    w2 = w2
    s1 = s1
    s2 = s2
INVARIANTS RegistryExact AtMostOneUnaware
PROPERTIES ShutdownTerminates
