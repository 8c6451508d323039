\* Two jobs that compete for one slot per poll, one request of any kind, one crash.
SPECIFICATION FairSpec
CONSTANTS
    j1 = j1
    j2 = j2
    w1 = w1
    w2 = w2
    c1 = c1
    c2 = c2
    Null = Null
    Job = {j1, j2}
    Worker = {w1}
    Client = {c1}
    Request <- EditRequests
    CreateInput <- IntervalInput
    PatchInput <- RenamePatch
    Skew <- NoSkew
    RunTimeout = 1
    MaxPerPoll = 1
    MaxRunHistory = 2
    RetryDelay = 1
    MaxTime = 2
    MaxRequests = 1
    MaxCrashes = 1
    MaxFaults = 0
    Timely = TRUE
INVARIANTS NoJobForgotten
PROPERTIES JobsGoOn
