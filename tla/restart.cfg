SPECIFICATION Spec

CONSTANTS
    Nil = Nil
    Server = {n1, n2}
    Modes = {"candidate"}
    Quorums = {2}
    MaxTerm = 3
    MaxRows = 1
    MaxInFlight = 2
    MaxCandidates = 2
    Restarts = 1
    Links = 0
    Cfgs = 0
    Timeouts = 0
    Promotes = 0
    Checkpoints = 0
    Acks = 0
    Qsyncs = 0
    Yields = 0
    Scenarios <- MCScenarios

SYMMETRY Symmetry

INVARIANTS
    TypeOK
    VoteUniqueness
    VoteCoversLog
    OwnVoteIsCounted
    PeersAreUpToDate

CHECK_DEADLOCK FALSE
