\* Violation: a replay queue that overflows during a flush loses a message that was not sent.
SPECIFICATION Spec
CONSTANTS
    m1 = m1
    m2 = m2
    Null = Null
    Msg = {m1, m2}
    Repeated = {}
    DM = {}
    MaxAttempts = 1
    PullLimit = 1
    MaxExpiries = 0
    MaxRepeats = 0
    MaxReplay = 1
    MaxTracked = 2
    MaxCrashes = 0
    MaxDrops = 0
    MaxFaults = 0
PROPERTIES ReplayLeavesInOrder
