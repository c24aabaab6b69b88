SPECIFICATION Spec
CONSTANTS
    SSTP_TX_Q_CAP = 2
    SSTP_TX_BATCH_MAX = 2
    SSTP_CTRL_Q_CAP = 2
    SSTP_EVENT_QUEUE_CAP = 5
    RxLoops = 1
    TxLoops = 1
    SndBuf = 1
    PeerSends = {"Data"}
    MaxXmit = 1
    MaxRx = 1
    MaxSend = 0
INVARIANTS ShutdownQuiesces
