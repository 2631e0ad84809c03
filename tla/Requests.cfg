SPECIFICATION LiveSpec
CONSTANTS
    MaxHead = 5
    Chains <- AllChains
    Gaps = {0, 3, 4}
    FirstTime = 6
    Average = 3
    Targets = {1, 6, 7, 8, 10, 12, 13, 24}
    Mainnet = 3
    Configured = {1, 2, 3}
    Confirmations = 2
    Requests <- Bodies
    Now = 24
INVARIANTS TypeOK Nearest RowOnChain
PROPERTY Answered
CHECK_DEADLOCK FALSE
