SPECIFICATION Spec
CONSTANTS
    t1 = t1  t2 = t2  c1 = c1  c2 = c2  s1 = s1  s2 = s2
    self = self  a = a  b = b  NoJob = NoJob  Self = self
    TaskIds = {t1}
    Contents = {c1, c2}
    Slots = {s1, s2}
    SlotOf <- Slot
    ZeroBlock = {}
    Truth = {c1}
    Operators = {self, a, b}
    Workers = {w1, w2}
    Handlers = {}
    Messages <- Forwarded
    Requests <- Ask1
    MaxEpoch = 1
    Registered <- AllKnown
    Active <- OnceActive
    Weight <- WeightOnes
    Joining = {a, b}
    Threshold <- NeedTwo
    MaxRetry = 2
    MaxViolations = 0
    Faults = {}
SYMMETRY Symmetry
INVARIANTS SignersCoverCounted QuorumSigned SignaturesGiven SignsOnlyTruth NoQuorumForgotten
