SPECIFICATION Spec
CONSTANTS
    n1 = n1
    n2 = n2
    n3 = n3
    Node <- MCNode
    First = n1
    MaxBound = 3
    Scenarios <- MCScenarios
INVARIANTS
    TypeOK
    OneDecision
    NoSplitDecision
    QuorumHasIt
    CommitsInOrder
    NoOtherAssertFails
CHECK_DEADLOCK FALSE
