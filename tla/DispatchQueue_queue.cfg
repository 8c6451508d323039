\* One message that its handler may send again and another, claims that get old, any acknowledgement.
SPECIFICATION FairSpec
CONSTANTS
    m1 = m1
    m2 = m2
    Null = Null
    Msg = {m1, m2}
    Repeated = {m1}
    MaxAttempts = 2
    PullLimit = 1
    MaxExpiries = 2
    MaxRepeats = 1
INVARIANTS TypeOK ClaimInv
PROPERTIES Implements KeepsPromise
