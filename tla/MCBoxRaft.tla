----------------------------- MODULE MCBoxRaft ------------------------------
(* Small instances of BoxRaft for TLC.                                     *)
EXTENDS BoxRaft, TLC

CONSTANTS
    MaxCandidates,  \* bound: instances that start in mode candidate
    \* bounds of the events
    Restarts, Links, Cfgs, Timeouts, Promotes, Checkpoints, Acks, Qsyncs, Yields

MCBudget == [event \in Events |->
    CASE event = "restart" -> Restarts
      [] event = "link" -> Links
      [] event = "cfg" -> Cfgs
      [] event = "timeout" -> Timeouts
      [] event = "promote" -> Promotes
      [] event = "checkpoint" -> Checkpoints
      [] event = "ack" -> Acks
      [] event = "qsync" -> Qsyncs
      [] event = "yield" -> Yields]

MCModes == {modes \in [Server -> Modes] :
                Cardinality({i \in Server : modes[i] = "candidate"}) <= MaxCandidates}

MCScenarios == [modes : MCModes, quorum : Quorums, budget : {MCBudget}]

\* Elections that are started and configured by hand, without the events that
\* hold up the worker, with one event less where one vote is a quorum; automatic
\* elections with the events that hold up the worker.
ByHand(cfgs, promotes) ==
    [event \in Events |-> CASE event = "cfg" -> cfgs
                            [] event = "promote" -> promotes
                            [] OTHER -> 0]

MCMixedScenarios ==
    [modes : MCModes, quorum : Quorums \ {1}, budget : {ByHand(Cfgs, Promotes)}]
    \union
    [modes : MCModes, quorum : {1},
     budget : {ByHand(Cfgs - 1, Promotes), ByHand(Cfgs, Promotes - 1)}]
    \union
    [modes : [Server -> {"candidate"}], quorum : {Cardinality(Server)},
     budget : {[event \in Events |->
                    IF event \in {"cfg", "promote"} THEN 0 ELSE MCBudget[event]]}]

Symmetry == Permutations(Server)
=============================================================================
