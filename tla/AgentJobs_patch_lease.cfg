\* Violation: a patch of an unrelated column breaks the lease.
SPECIFICATION Spec
CONSTANTS
    j1 = j1
    j2 = j2
    w1 = w1
    w2 = w2
    c1 = c1
    c2 = c2
    Null = Null
    Job = {j1}
    Worker = {w1, w2}
    Client = {c1}
    Request <- PatchOnly
    CreateInput <- IntervalInput
    PatchInput <- RenamePatch
    Skew <- NoSkew
    RunTimeout = 2
    MaxPerPoll = 1
    MaxRunHistory = 1
    RetryDelay = 1
    MaxTime = 3
    MaxRequests = 1
    MaxCrashes = 0
    MaxFaults = 0
    Timely = FALSE
INVARIANTS LeaseExclusive
