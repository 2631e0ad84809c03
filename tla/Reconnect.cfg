SPECIFICATION LiveSpec
CONSTANTS
    Peers = {p1, p2}
    Bootstrap = {p1, p2}
    Diallers = {"bootstrap"}
    Guilty = {}
    Limit = 1
    MaxRetries = 2
    MaxChanges = 1
    MaxFailures = 1
INVARIANT TypeOK
PROPERTY BootstrapReconnects
