SPECIFICATION LiveSpec
CONSTANTS
    GenesisBlock = 2
    EpochPeriod = 2
    GracePeriod = 1
    EpochWord = 6
    BlockWord = 64
    Operators = {o1}
    o1 = o1
    o2 = o2
    MaxBlock = 7
    LastEvents = 5
    MaxEvents = 3
    MaxRegs = 2
    MaxRestarts = 1
    MaxFailures = 1
    Faults = {"tx", "db"}
INVARIANTS TypeOK StatusFollowsLog StableInEpoch NoEventSkipped RegistrationsTracked
PROPERTIES EventsHandled EpochsProcessed
CHECK_DEADLOCK FALSE
