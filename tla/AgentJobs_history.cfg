\* Clocks that differ by two ticks, so that live runs are timed out, and requests to pause, resume and delete.
SPECIFICATION Spec
CONSTANTS
    j1 = j1
    j2 = j2
    w1 = w1
    w2 = w2
    c1 = c1
    c2 = c2
    Null = Null
    Job = {j1}
    Worker = {w1, w2}
    Client = {c1}
    Request <- RunRequests
    CreateInput <- MixedInput
    PatchInput <- NoPatch
    Skew <- TwoAhead
    RunTimeout = 2
    MaxPerPoll = 1
    MaxRunHistory = 1
    RetryDelay = 1
    MaxTime = 2
    MaxRequests = 2
    MaxCrashes = 0
    MaxFaults = 0
    Timely = FALSE
INVARIANTS RunAccounting
PROPERTIES EndedRunsAreFinal PauseSticks
