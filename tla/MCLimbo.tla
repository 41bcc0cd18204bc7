------------------------------ MODULE MCLimbo -------------------------------
(* Small instances of Limbo for TLC.                                       *)
EXTENDS Limbo

CONSTANTS n1, n2, n3

MCNode == {n1, n2, n3}

Bounds(members, candidates, sync, async, timeouts, elections, quorums) ==
    [members |-> members, candidates |-> candidates, quorum |-> 2, sync |-> sync,
     async |-> async, timeouts |-> timeouts, elections |-> elections, quorums |-> quorums]

\* In order: transactions that time out; another quorum; two elections of two
\* instances, also with two transactions; an asynchronous transaction, a timeout, and
\* another quorum around an election; a timeout around an election without the
\* leader, where the quorum is one at first; an election of three instances without
\* the leader; two elections of three instances, where the first PROMOTE may become
\* obsolete.
MCScenarios ==
    { Bounds({n1, n2}, {n1}, 2, 1, 1, 0, 0),
      Bounds({n1, n2}, {n1}, 2, 1, 0, 0, 1),
      Bounds({n1, n2}, {n1, n2}, 1, 0, 0, 2, 0),
      Bounds({n1, n2}, {n2}, 2, 0, 0, 2, 0),
      Bounds({n1, n2}, {n2}, 1, 1, 0, 1, 0),
      Bounds({n1, n2}, {n1, n2}, 1, 0, 1, 1, 0),
      Bounds({n1, n2}, {n1, n2}, 1, 0, 0, 1, 1),
      [Bounds({n1, n2}, {n2}, 1, 0, 1, 1, 1) EXCEPT !.quorum = 1],
      Bounds({n1, n2, n3}, {n2}, 1, 0, 0, 1, 0),
      Bounds({n1, n2, n3}, {n1, n2}, 0, 0, 0, 2, 0) }

\* A transaction of the leader times out while the two others elect a new leader.
DeposedScenario == { Bounds({n1, n2, n3}, {n2}, 1, 0, 1, 1, 0) }
=============================================================================
