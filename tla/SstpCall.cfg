SPECIFICATION Spec
CONSTANTS
    NEGOTIATION = 3
    HELLO = 2
    ABORT_T1 = 2
    ABORT_T2 = 1
    DISCONNECT_T1 = 2
    DISCONNECT_T2 = 1
    CONTROL_CHANNEL_DEPTH = 2
    MaxAdmin = 1
    MaxDrain = 1
    MaxStray = 1
    MaxChunk = 1
INVARIANTS TimerMatchesState NotifyOrder HelloGraceUnlessStalled
PROPERTIES DisconnectHonoured DeadPeerDetected ImplementsLifecycle
