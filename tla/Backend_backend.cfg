SPECIFICATION Spec
CONSTANTS
    p1 = p1
    p2 = p2
    r1 = r1
    r2 = r2
    IssueClient = {p1, p2}
    Flow <- MCFlow
    MaxRequests = 3
    PipeClient = {p1, p2}
    Pipelines <- MCPipelines
    MaxEntries = 4
    PhaseLists <- MCPhaseLists
    Batches = 2
    Units = 1
    MaxRuns = 2
    MaxCalls = 2
    MaxFaults = 1
    Ingester = {w1, w2}
    Room = {r1, r2}
    Flaky = {r1}
    LastMessage <- MCLastMessage
    MaxPerRoom = 2
    RoomBatch = 2
    MaxUpsets = 1
    Browser = {b1}
    BufferSize = 1
    MaxMessages = 3
    Responder = {c1, c2}
    MaxResponds = 3
    RepoClient = {c1, c2}
    GitHubCommit = {g1}
    LocalCommit = {o1}
    MaxRepoCalls = 3
    WebServer = {s1}
    Hook = {h1}
    Bound = {d1}
    Unbound = {d2}
    PolledHead = {n1}
    Push = {u1}
    Consumer = {k1, k2}
    MaxAttempts = 2
    MaxArrivals = 2
    MaxReplays = 1
    RoomOf <- MCRoomOf
    Old = {1}
    FromHistory = {1}
    FromWorker = {2}
    AgentRoom = {1}
    Segmenter = {s1, s2}
    GapThreshold = 1
    SegmentBatch = 2
    BackfillBatch = 1
    EmbedBatch = 2
    Unembeddable = {3}
    MaxReimports = 1
    MaxWipes = 1
    Extracted = {1, 4}
    FromElsewhere = {2, 3}
    Merged = {5}
    Similar <- MCSimilar
    PairLimit = 2
    MaxClustersPerRun = 1
    MaxDedupFaults = 1
    TalkRoom = {r1, r2}
    Recalled = {k1, k2}
    CooldownMessages = 1
    InjectionBatch = 3
    MaxItems = 2
    MaxTalk = 4
    MaxInjectionFaults = 1
INVARIANTS TypesOK IssueIsSound PipelineIsOnRecord HistoryIsSound NothingPassedOver HubIsSound
INVARIANTS DecisionIsShared PublishIsSound QueueIsSound
INVARIANTS ConversationsAreSound NoFactIsLost InjectionsAreSound
PROPERTIES AdvanceStopsAtBlocker PhaseSettles EventuallyCovered ClientsAreReleased EventuallyWorkedOff DedupCompletes
CHECK_DEADLOCK FALSE
