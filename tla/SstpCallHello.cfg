SPECIFICATION Spec
CONSTANTS
    NEGOTIATION = 4
    HELLO = 2
    ABORT_T1 = 2
    ABORT_T2 = 1
    DISCONNECT_T1 = 3
    DISCONNECT_T2 = 1
    CONTROL_CHANNEL_DEPTH = 2
    MaxAdmin = 2
    MaxDrain = 2
    MaxStray = 1
    MaxChunk = 1
INVARIANT HelloGrace
