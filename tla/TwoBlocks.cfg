SPECIFICATION Spec
CONSTANTS
    t1 = t1  t2 = t2  c1 = c1  c2 = c2  s1 = s1  s2 = s2
    self = self  a = a  b = b  NoJob = NoJob  Self = self
    TaskIds = {t1}
    Contents = {c1, c2}
    Slots = {s1, s2}
    SlotOf <- Slot
    ZeroBlock = {}
    Truth = {c1, c2}
    Operators = {self, a}
    Workers = {w1}
    Handlers = {h1}
    Messages <- TwoBlocks
    Requests <- Ask1
    MaxEpoch = 1
    Registered <- AllKnown
    Active <- OnceActive
    Weight <- WeightOnes
    Joining = {}
    Threshold <- NeedTwo
    MaxRetry = 3
    MaxViolations = 1
    Faults = {}
INVARIANT OneContentPerConsensus
