SPECIFICATION Spec

CONSTANTS
    Nil = Nil
    Server = {n1, n2, n3}
    Modes = {"candidate"}
    Quorums = {2}
    MaxTerm = 2
    MaxRows = 0
    MaxInFlight = 2
    MaxCandidates = 3
    Restarts = 0
    Links = 0
    Cfgs = 0
    Timeouts = 1
    Promotes = 0
    Checkpoints = 0
    Acks = 0
    Qsyncs = 0
    Yields = 0
    Scenarios <- MCScenarios

SYMMETRY Symmetry

INVARIANTS
    ElectionSafety
    ElectedByQuorum
PROPERTIES
    TimerStopsForWrite

CHECK_DEADLOCK FALSE
