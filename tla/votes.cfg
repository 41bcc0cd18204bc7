SPECIFICATION Spec

CONSTANTS
    Nil = Nil
    Server = {n1, n2, n3, n4}

SYMMETRY Symmetry

INVARIANTS
    TypeOK
    CountersMatchVotes
    SplitVoteIsExact
