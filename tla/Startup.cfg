SPECIFICATION LiveSpec
CONSTANTS
    Files <- ByHand
    PeerLimit = 2
INVARIANTS TypeOK InitIsStartable ClientForEveryChain CleanStop
PROPERTY SignalStops
CHECK_DEADLOCK FALSE
