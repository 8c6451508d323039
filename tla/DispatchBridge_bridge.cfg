\* Two direct messages over both paths; a restart, a claim that gets old, a failed call.
SPECIFICATION Spec
CONSTANTS
    m1 = m1
    m2 = m2
    Null = Null
    Msg = {m1, m2}
    Repeated = {}
    MaxAttempts = 1
    PullLimit = 1
    MaxExpiries = 1
    MaxRepeats = 0
    DM = {m1, m2}
    MaxReplay = 2
    MaxTracked = 1
    MaxCrashes = 1
    MaxDrops = 0
    MaxFaults = 1
SYMMETRY MsgSymmetry
INVARIANTS MemoryIsSound DeliveriesAreReal
PROPERTIES SentDMsAreNotResent
