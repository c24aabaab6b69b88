SPECIFICATION RxSpec
CONSTANTS
    SSTP_TX_Q_CAP = 2
    SSTP_TX_BATCH_MAX = 2
    SSTP_CTRL_Q_CAP = 2
    SSTP_EVENT_QUEUE_CAP = 5
    RxLoops = 1
    TxLoops = 1
    SndBuf = 1
    PeerSends = {"Data", "Echo", "Control", "Bad", "End"}
    MaxXmit = 0
    MaxRx = 2
    MaxSend = 1
INVARIANTS EventsNeverDropped PacketPerEvent ClosingExplained
PROPERTIES RxDrains
