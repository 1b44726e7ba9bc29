SPECIFICATION ServicesSpec
CONSTANTS
    MaxLogs = 2
    MaxFrames = 3
    MaxTronLogs = 3
    MaxTransactions = 4
    Endpoints = 2
    MaxAttempts = 2
    Chunk = 1
    Modes <- MCModes
    Abilities <- MCAbilities
    BscForks <- MCBscForks
    MaxFetchFaults = 1
    MaxFetchMoves = 1
    EthereumForks <- MCEthereumForks
    TraceModes = {"disabled", "auto", "required"}
    MaxRetries = 2
    AssetLimit = 2
    MaxAssets = 3
    Unreadable = {2}
    MaxReadFaults = 1
    MaxReadMoves = 2
    Labels <- MCLabels
    Candidates <- MCCandidates
    Reviewers = {"r1", "r2"}
    Threshold = 1
    MaxClaims = 1
    Batch = 1
    Overlap = 1
    MaxBlocks = 3
    MaxRestores = 1
    MaxRewinds = 1
    MaxReviews = 3
    MaxSwitches = 1
    MaxStops = 1
INVARIANTS ScoresHold AnswersHold FlowsAndEventsHold ReviewsHold FetchesHold ReadsHold
CHECK_DEADLOCK FALSE
