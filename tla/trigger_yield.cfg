SPECIFICATION FairSpec

CONSTANTS
    Nil = Nil
    Server = {n1, n2}
    Modes = {"candidate"}
    Quorums = {2}
    MaxTerm = 3
    MaxRows = 0
    MaxInFlight = 2
    MaxCandidates = 2
    Restarts = 0
    Links = 0
    Cfgs = 0
    Timeouts = 0
    Promotes = 0
    Checkpoints = 0
    Acks = 0
    Qsyncs = 0
    Yields = 1
    Scenarios <- MCScenarios

PROPERTIES
    LeaderIsLearnt

CHECK_DEADLOCK FALSE
