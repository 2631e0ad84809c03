SPECIFICATION Spec
CONSTANTS
    Operators = {o1}
    k1 = k1  k2 = k2
    Keys = {k1, k2}
    Pairs <- BothKeys
    NoOne = NoOne
    SigningKeys = {}
    P2PKeys = {k1}
    Readers = {r1}
    MaxEvents = 3
    MaxUpdates = 1
    MaxFailures = 1
    MaxRestarts = 1
INVARIANT PeersFresh
CHECK_DEADLOCK FALSE
