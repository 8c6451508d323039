\* Violation: a crash during a run leaves the job active and unarmed for ever.
SPECIFICATION FairSpec
CONSTANTS
    j1 = j1
    j2 = j2
    w1 = w1
    w2 = w2
    c1 = c1
    c2 = c2
    Null = Null
    Job = {j1}
    Worker = {w1, w2}
    Client = {}
    Request <- WorkerOnly
    CreateInput <- IntervalInput
    PatchInput <- NoPatch
    Skew <- NoSkew
    RunTimeout = 1
    MaxPerPoll = 1
    MaxRunHistory = 1
    RetryDelay = 1
    MaxTime = 3
    MaxRequests = 0
    MaxCrashes = 1
    MaxFaults = 0
    Timely = FALSE
PROPERTIES LeasesSurviveCrashes
