SPECIFICATION LiveSpec
CONSTANTS
    t1 = t1  t2 = t2  c1 = c1  c2 = c2  s1 = s1  s2 = s2
    self = self  a = a  b = b  NoJob = NoJob  Self = self
    TaskIds = {t1}
    Contents = {c1}
    Slots = {s1}
    SlotOf <- Slot
    ZeroBlock = {}
    Truth = {c1}
    Operators = {self, a}
    Workers = {}
    Handlers = {h1}
    Messages <- Peers
    Requests <- Ask1
    MaxEpoch = 2
    Registered <- AllKnown
    Active <- OnceActive
    Weight <- WeightOnes
    Joining = {}
    Threshold <- NeedOne
    MaxRetry = 2
    MaxViolations = 1
    Faults = {"publish"}
PROPERTIES PendingResolves ConfirmingResolves
