SPECIFICATION FairSpec

CONSTANTS
    Nil = Nil
    Server = {n1, n2}
    Modes = {"candidate"}
    Quorums = {2}
    MaxTerm = 3
    MaxRows = 0
    MaxInFlight = 2
    MaxCandidates = 2
    Restarts = 0
    Links = 1
    Cfgs = 0
    Timeouts = 0
    Promotes = 0
    Checkpoints = 0
    Acks = 0
    Qsyncs = 0
    Yields = 0
    Scenarios <- MCScenarios

INVARIANTS
    TimerIsArmed
    MessagesAreDurable
    UnwrittenStateIsHidden
PROPERTIES
    QuorumLossFences
    WriteCompletes
    LeaderIsLearnt
    ElectionsGoOn

CHECK_DEADLOCK FALSE
