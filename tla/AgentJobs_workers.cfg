\* Two workers, one job, and the requests that respect the lease, with a crash and a failed call.
SPECIFICATION Spec
CONSTANTS
    j1 = j1
    j2 = j2
    w1 = w1
    w2 = w2
    c1 = c1
    c2 = c2
    Null = Null
    Job = {j1}
    Worker = {w1, w2}
    Client = {c1}
    Request <- LeaseSafeRequests
    CreateInput <- CronInput
    PatchInput <- NoPatch
    Skew <- NoSkew
    RunTimeout = 2
    MaxPerPoll = 1
    MaxRunHistory = 1
    RetryDelay = 1
    MaxTime = 3
    MaxRequests = 2
    MaxCrashes = 1
    MaxFaults = 1
    Timely = FALSE
INVARIANTS TypeOK LeaseExclusive RunsAreSound
PROPERTIES RunsTakeTurns
