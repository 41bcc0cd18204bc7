---------------------------- MODULE MCRaftVotes -----------------------------
(* A small instance of RaftVotes for TLC.                                  *)
EXTENDS RaftVotes, TLC

Symmetry == Permutations(Server)
=============================================================================
