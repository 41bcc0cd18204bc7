----------------------------- MODULE RaftVotes ------------------------------
(***************************************************************************)
(* The counters of src/src/lib/raft/raft.c that stand for the votes of a   *)
(* term: votes[].did_vote, votes[].count, voted_count and max_vote.  They  *)
(* are maintained step by step, and a vote can be revoked.                 *)
(*                                                                         *)
(* Module RaftNode keeps the votes as a map from a voter to its choice and *)
(* counts them when it has to.  This module runs the counters next to that *)
(* map and compares them: what RaftNode says of the number of votes and of *)
(* a split vote is what the code computes.                                 *)
(***************************************************************************)
EXTENDS Naturals, FiniteSets

CONSTANTS Server, Nil

ASSUME VotersAssumption == IsFiniteSet(Server) /\ Server # {} /\ Nil \notin Server

Node == INSTANCE RaftNode

VARIABLES
    c,          \* the counters
    r           \* the part of struct raft that RaftNode gives to the votes

vars == <<c, r>>

Counters == [did_vote : [Server -> BOOLEAN], count : [Server -> Nat],
             voted_count : Nat, max_vote : Nat]

Choice == [self : Server, votes : [Server -> Server \union {Nil}],
           volatile_vote : Server \union {Nil}, candidate_vclock : {Nil},
           election_quorum : Nat \ {0}]

NoCounters ==
    [did_vote |-> [s \in Server |-> FALSE], count |-> [s \in Server |-> 0],
     voted_count |-> 0, max_vote |-> 0]

raft_add_vote(v, src, dst) ==
    IF v.did_vote[src] THEN v
    ELSE [did_vote |-> [v.did_vote EXCEPT ![src] = TRUE],
          count |-> [v.count EXCEPT ![dst] = @ + 1],
          voted_count |-> v.voted_count + 1,
          max_vote |-> IF v.count[dst] + 1 > v.max_vote
                       THEN v.count[dst] + 1 ELSE v.max_vote]

\* The largest of the counters and of the floor, the value that the loop in
\* raft_revoke_vote starts from.
MaxCount(count, floor) ==
    CHOOSE m \in {count[s] : s \in Server} \union {floor} :
        floor <= m /\ \A s \in Server : count[s] <= m

\* Mutants: the vote is taken from the node itself; the maximum is not looked
\* for again.
raft_revoke_vote_of_self(v, self, dst) ==
    LET count == [v.count EXCEPT ![self] = @ - 1]
    IN  [did_vote |-> [v.did_vote EXCEPT ![self] = FALSE],
         count |-> count,
         voted_count |-> v.voted_count - 1,
         max_vote |-> v.max_vote]

raft_revoke_vote_without_loop(v, self, dst) ==
    [did_vote |-> [v.did_vote EXCEPT ![self] = FALSE],
     count |-> [v.count EXCEPT ![dst] = @ - 1],
     voted_count |-> v.voted_count - 1,
     max_vote |-> IF v.count[dst] = v.max_vote THEN v.max_vote - 1 ELSE v.max_vote]

raft_revoke_vote(v, self, dst) ==
    LET count == [v.count EXCEPT ![dst] = @ - 1]
    IN  [did_vote |-> [v.did_vote EXCEPT ![self] = FALSE],
         count |-> count,
         voted_count |-> v.voted_count - 1,
         max_vote |-> IF v.count[dst] = v.max_vote
                      THEN MaxCount(count, v.max_vote - 1) ELSE v.max_vote]

raft_vote_count(v, self) == v.count[self]

\* Mutant: a quorum that can just be collected is missed.
raft_has_split_vote_too_early(v, quorum) ==
    LET cluster_size == Cardinality(Server)
    IN  /\ quorum <= cluster_size
        /\ v.voted_count <= cluster_size
        /\ v.max_vote + (cluster_size - v.voted_count) <= quorum

\* cluster_size is the number of the registered instances.
raft_has_split_vote(v, quorum) ==
    LET cluster_size == Cardinality(Server)
    IN  /\ quorum <= cluster_size
        /\ v.voted_count <= cluster_size
        /\ v.max_vote + (cluster_size - v.voted_count) < quorum

-----------------------------------------------------------------------------

Init ==
    /\ c = NoCounters
    /\ r \in [self : Server, votes : {Node!NoVotes}, volatile_vote : {Nil},
              candidate_vclock : {Nil}, election_quorum : 1..Cardinality(Server)]

\* raft_process_msg: a peer has voted.
PeerVote(src, dst) ==
    /\ src # r.self
    /\ c' = raft_add_vote(c, src, dst)
    /\ r' = Node!raft_add_vote(r, src, dst)

\* raft_sm_schedule_new_vote.
OwnVote(dst) ==
    /\ r.volatile_vote = Nil
    /\ c' = raft_add_vote(c, r.self, dst)
    /\ r' = Node!raft_add_vote([r EXCEPT !.volatile_vote = dst], r.self, dst)

\* raft_worker_handle_io gives up a vote for another node.
Revoke ==
    /\ r.volatile_vote \notin {Nil, r.self}
    /\ c' = raft_revoke_vote(c, r.self, r.volatile_vote)
    /\ r' = Node!raft_revoke_vote(r)

\* raft_sm_schedule_new_term.
NewTerm ==
    /\ c' = NoCounters
    /\ r' = [r EXCEPT !.votes = Node!NoVotes, !.volatile_vote = Nil]

Next ==
    \/ \E dst \in Server : OwnVote(dst)
    \/ \E src, dst \in Server : PeerVote(src, dst)
    \/ Revoke
    \/ NewTerm

Spec == Init /\ [][Next]_vars

-----------------------------------------------------------------------------

Voters(dst) == {s \in Server : r.votes[s] = dst}

TypeOK == c \in Counters /\ r \in Choice

\* The counters are those of the votes: who voted, for whom, how many did and
\* what the largest count is (raft_add_vote, raft_revoke_vote).
CountersMatchVotes ==
    /\ \A s \in Server : c.did_vote[s] <=> r.votes[s] # Nil
    /\ \A d \in Server : c.count[d] = Cardinality(Voters(d))
    /\ c.voted_count = Cardinality(Server \ Voters(Nil))
    /\ \A d \in Server : c.count[d] <= c.max_vote
    /\ \E d \in Server : c.count[d] = c.max_vote

\* The node counts its own vote if and only if it has one to write: the two
\* are set and revoked together.
OwnVoteIsCounted == r.votes[r.self] = r.volatile_vote

\* The code finds a split vote exactly when nobody can collect a quorum with
\* the votes that are left, and its count of the votes for the node itself is
\* exact (raft_has_split_vote, raft_vote_count).
SplitVoteIsExact ==
    /\ raft_has_split_vote(c, r.election_quorum) <=> Node!raft_has_split_vote(r)
    /\ raft_vote_count(c, r.self) = Node!raft_vote_count(r)
=============================================================================
