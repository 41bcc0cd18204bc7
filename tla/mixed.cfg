SPECIFICATION Spec

CONSTANTS
    Nil = Nil
    Server = {n1, n2}
    Modes = {"off", "voter", "manual"}
    Quorums = {1, 2}
    MaxTerm = 3
    MaxRows = 0
    MaxInFlight = 2
    MaxCandidates = 2
    Restarts = 0
    Links = 0
    Cfgs = 2
    Timeouts = 1
    Promotes = 2
    Checkpoints = 1
    Acks = 1
    Qsyncs = 1
    Yields = 1
    Scenarios <- MCMixedScenarios

SYMMETRY Symmetry

INVARIANTS
    VotesAreCast
    PromotionIsForOneTerm
    WriteKnowsLeader
    CandidateHasOwnVote
PROPERTIES
    TermsOnlyGrow

CHECK_DEADLOCK FALSE
