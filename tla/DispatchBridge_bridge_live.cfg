\* A fair bridge that restarts once and loses its socket and a call once; claims get old as often as they can.
SPECIFICATION FairSpec
CONSTANTS
    m1 = m1
    m2 = m2
    Null = Null
    Msg = {m1}
    Repeated = {}
    MaxAttempts = 2
    PullLimit = 1
    MaxExpiries = 5
    MaxRepeats = 0
    DM = {m1}
    MaxReplay = 2
    MaxTracked = 2
    MaxCrashes = 1
    MaxDrops = 1
    MaxFaults = 1
PROPERTIES KeepsPromise ReplayDrains
