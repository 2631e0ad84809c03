SPECIFICATION LiveSpec
CONSTANTS
    Peers = {p1}
    Bootstrap = {p1}
    Diallers = {"discovery", "remote"}
    Guilty = {p1}
    Limit = 2
    MaxRetries = 3
    MaxChanges = 2
    MaxFailures = 1
PROPERTIES BlockedNotAdmitted RefusedInTheEnd
