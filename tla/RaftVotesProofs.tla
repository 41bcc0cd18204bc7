-------------------------- MODULE RaftVotesProofs ---------------------------
(***************************************************************************)
(* For any set of instances: the counters of RaftVotes match the votes,    *)
(* and the code finds a split vote exactly when there is one.              *)
(*                                                                         *)
(* The inductive invariant adds OwnVoteIsCounted to the two invariants:    *)
(* raft_revoke_vote takes a vote from the counter of volatile_vote, which  *)
(* is right only if that is the vote that was counted for the node itself. *)
(***************************************************************************)
EXTENDS RaftVotes, FiniteSetTheorems, TLAPS

IInv == TypeOK /\ OwnVoteIsCounted /\ CountersMatchVotes

USE VotersAssumption

\* The number of the instances whose vote is v.
Count(votes, v) == Cardinality({s \in Server : votes[s] = v})

Votes == [Server -> Server \union {Nil}]

\* The two modules count alike.
LEMMA SameCardinality == \A S : Node!Cardinality(S) = Cardinality(S)
  BY Zenon DEF Node!Cardinality, Cardinality

\* Counts of votes are natural numbers.
LEMMA CountType ==
    ASSUME NEW votes \in Votes, NEW v
    PROVE  Count(votes, v) \in Nat
<1>1. IsFiniteSet({s \in Server : votes[s] = v})
  BY FS_Subset
<1> QED
  BY <1>1, FS_CardinalityType DEF Count

\* When src changes its vote from old to new, the two counts move by one and
\* the others stay (raft_add_vote, raft_revoke_vote).
LEMMA CountAfterVote ==
    ASSUME NEW votes \in Votes, NEW next \in Votes, NEW src \in Server,
           NEW old, NEW new, votes[src] = old, next[src] = new, old # new,
           \A s \in Server \ {src} : next[s] = votes[s]
    PROVE  /\ Count(next, new) = Count(votes, new) + 1
           /\ Count(next, old) = Count(votes, old) - 1
           /\ \A v : v # new /\ v # old => Count(next, v) = Count(votes, v)
<1> DEFINE S(f, v) == {s \in Server : f[s] = v}
<1>1. \A v : IsFiniteSet(S(votes, v)) /\ IsFiniteSet(S(next, v))
  BY FS_Subset
<1>2. S(next, new) = S(votes, new) \union {src} /\ src \notin S(votes, new)
  BY DEF Votes
<1>3. S(next, old) = S(votes, old) \ {src} /\ src \in S(votes, old)
  BY DEF Votes
<1>4. \A v : v # new /\ v # old => S(next, v) = S(votes, v)
  BY DEF Votes
<1> HIDE DEF S
<1>5. Cardinality(S(next, new)) = Cardinality(S(votes, new)) + 1
  <2>1. \A T : IsFiniteSet(T) /\ src \notin T =>
            Cardinality(T \union {src}) = Cardinality(T) + 1
    BY FS_AddElement, Zenon
  <2> QED
    BY <1>1, <1>2, <2>1
<1>6. Cardinality(S(next, old)) = Cardinality(S(votes, old)) - 1
  <2>1. \A T : IsFiniteSet(T) /\ src \in T =>
            Cardinality(T \ {src}) = Cardinality(T) - 1
    BY FS_RemoveElement, Zenon
  <2> QED
    BY <1>1, <1>3, <2>1
<1> QED
  BY <1>4, <1>5, <1>6 DEF Count, S

\* Everybody has voted or has not.
LEMMA VotedCount ==
    ASSUME NEW votes \in Votes
    PROVE  /\ Cardinality(Server) \in Nat
           /\ Cardinality({s \in Server : votes[s] # Nil})
                = Cardinality(Server) - Count(votes, Nil)
           /\ Count(votes, Nil) <= Cardinality(Server)
<1> DEFINE absent == {s \in Server : votes[s] = Nil}
<1>1. IsFiniteSet(absent) /\ absent \subseteq Server
  BY FS_Subset
<1>2. {s \in Server : votes[s] # Nil} = Server \ absent
  OBVIOUS
<1>3. /\ Cardinality(Server \ absent) = Cardinality(Server) - Cardinality(Server \cap absent)
      /\ Server \cap absent = absent
  BY <1>1, FS_Difference
<1>4. Cardinality(absent) <= Cardinality(Server)
  BY <1>1, FS_Subset
<1> QED
  BY <1>2, <1>3, <1>4, FS_CardinalityType, Zenon DEF Count

-----------------------------------------------------------------------------
(* The operations on the counters.                                         *)

\* CountersMatchVotes, of any counters and any votes.
Matches(v, votes) ==
    /\ \A s \in Server : v.did_vote[s] <=> votes[s] # Nil
    /\ \A d \in Server : v.count[d] = Count(votes, d)
    /\ v.voted_count = Cardinality(Server) - Count(votes, Nil)
    /\ \A d \in Server : v.count[d] <= v.max_vote
    /\ \E d \in Server : v.count[d] = v.max_vote

\* CountersMatchVotes is Matches of the current state.
LEMMA MatchesCurrent ==
    TypeOK => (CountersMatchVotes <=> Matches(c, r.votes))
<1> SUFFICES ASSUME TypeOK PROVE CountersMatchVotes <=> Matches(c, r.votes)
  OBVIOUS
<1>1. r.votes \in Votes
  BY DEF TypeOK, Choice, Votes
<1>2. Server \ Voters(Nil) = {s \in Server : r.votes[s] # Nil}
  BY DEF Voters
<1>3. Cardinality(Server \ Voters(Nil)) = Cardinality(Server) - Count(r.votes, Nil)
  BY <1>1, <1>2, VotedCount
<1>4. \A d : Cardinality(Voters(d)) = Count(r.votes, d)
  BY DEF Voters, Count
<1> QED
  BY <1>3, <1>4 DEF CountersMatchVotes, Matches

\* Counters without votes match no votes.
LEMMA NoCountersMatch ==
    NoCounters \in Counters /\ Matches(NoCounters, Node!NoVotes)
<1>1. /\ Node!NoVotes \in Votes
      /\ \A s \in Server : Node!NoVotes[s] = Nil
  BY DEF Node!NoVotes, Votes
<1>2. \A d \in Server : Count(Node!NoVotes, d) = 0
  <2>1. \A d \in Server : {s \in Server : Node!NoVotes[s] = d} = {}
    BY <1>1
  <2> QED
    BY <2>1, FS_EmptySet DEF Count
<1>3. Count(Node!NoVotes, Nil) = Cardinality(Server)
  <2>1. {s \in Server : Node!NoVotes[s] = Nil} = Server
    BY <1>1
  <2> QED
    BY <2>1 DEF Count
<1>4. Cardinality(Server) - Cardinality(Server) = 0
  BY FS_CardinalityType
<1>5. PICK d \in Server : TRUE
  OBVIOUS
<1> QED
  BY <1>1, <1>2, <1>3, <1>4, <1>5 DEF NoCounters, Counters, Matches

\* raft_add_vote keeps the counters right.
LEMMA AddVoteMatches ==
    ASSUME NEW v \in Counters, NEW votes \in Votes, Matches(v, votes),
           NEW src \in Server, NEW dst \in Server,
           NEW next \in Votes,
           next[src] = IF votes[src] # Nil THEN votes[src] ELSE dst,
           \A s \in Server \ {src} : next[s] = votes[s]
    PROVE  /\ raft_add_vote(v, src, dst) \in Counters
           /\ Matches(raft_add_vote(v, src, dst), next)
<1>1. CASE v.did_vote[src]
  <2>1. next = votes
    BY <1>1 DEF Matches, Votes
  <2> QED
    BY <1>1, <2>1 DEF raft_add_vote
<1>2. CASE ~v.did_vote[src]
  <2> DEFINE n == raft_add_vote(v, src, dst)
  <2>1. votes[src] = Nil /\ next[src] = dst /\ dst # Nil
    BY <1>2 DEF Matches
  <2>2. /\ Count(next, dst) = Count(votes, dst) + 1
        /\ Count(next, Nil) = Count(votes, Nil) - 1
        /\ \A d \in Server \ {dst} : Count(next, d) = Count(votes, d)
    BY <2>1, CountAfterVote
  <2>3. /\ n.did_vote = [v.did_vote EXCEPT ![src] = TRUE]
        /\ n.count = [v.count EXCEPT ![dst] = @ + 1]
        /\ n.voted_count = v.voted_count + 1
        /\ n.max_vote = IF v.count[dst] + 1 > v.max_vote
                        THEN v.count[dst] + 1 ELSE v.max_vote
        /\ n \in Counters
    BY <1>2 DEF raft_add_vote, Counters
  <2> HIDE DEF n
  <2>4. \A s \in Server : n.did_vote[s] <=> next[s] # Nil
    BY <2>1, <2>3 DEF Matches, Counters, Votes
  <2>5. \A d \in Server : n.count[d] = Count(next, d)
    BY <2>2, <2>3 DEF Matches, Counters
  <2>6. n.voted_count = Cardinality(Server) - Count(next, Nil)
    BY <2>2, <2>3, CountType, FS_CardinalityType DEF Matches, Counters
  <2>7. \A d \in Server : n.count[d] <= n.max_vote
    BY <2>3 DEF Matches, Counters
  <2>8. \E d \in Server : n.count[d] = n.max_vote
    BY <2>3 DEF Matches, Counters
  <2> QED
    BY <2>3, <2>4, <2>5, <2>6, <2>7, <2>8 DEF Matches, n
<1> QED
  BY <1>1, <1>2

\* raft_revoke_vote keeps the counters right, if what it revokes is the vote
\* that was counted for the node.
LEMMA RevokeVoteMatches ==
    ASSUME NEW v \in Counters, NEW votes \in Votes, Matches(v, votes),
           NEW self \in Server, votes[self] # Nil,
           NEW next \in Votes, next[self] = Nil,
           \A s \in Server \ {self} : next[s] = votes[s]
    PROVE  /\ raft_revoke_vote(v, self, votes[self]) \in Counters
           /\ Matches(raft_revoke_vote(v, self, votes[self]), next)
<1> DEFINE dst == votes[self]
           count == [v.count EXCEPT ![dst] = @ - 1]
           n == raft_revoke_vote(v, self, dst)
<1>1. dst \in Server
  BY DEF Votes
<1>2. /\ Count(next, dst) = Count(votes, dst) - 1
      /\ Count(next, Nil) = Count(votes, Nil) + 1
      /\ \A d \in Server \ {dst} : Count(next, d) = Count(votes, d)
  BY <1>1, CountAfterVote
<1>3. \A d \in Server : count[d] = Count(next, d) /\ count[d] \in Nat
  BY <1>1, <1>2, CountType DEF Matches, Counters
<1>4. v.max_vote >= 1 /\ v.max_vote \in Nat /\ v.count[dst] >= 1
  BY <1>1, <1>3 DEF Matches, Counters
<1>5. /\ n.max_vote \in Nat
      /\ \A d \in Server : count[d] <= n.max_vote
      /\ \E d \in Server : count[d] = n.max_vote
  <2>1. CASE v.count[dst] # v.max_vote
    <3>1. n.max_vote = v.max_vote
      BY <2>1 DEF raft_revoke_vote
    <3> QED
      BY <2>1, <3>1, <1>1, <1>4 DEF Matches, Counters
  <2>2. CASE v.count[dst] = v.max_vote
    <3> DEFINE floor == v.max_vote - 1
               Is(m) == floor <= m /\ \A s \in Server : count[s] <= m
               All == {count[s] : s \in Server} \union {floor}
    <3>1. n.max_vote = CHOOSE m \in All : Is(m)
      BY <2>2 DEF raft_revoke_vote, MaxCount
    <3>2. count[dst] = floor
      BY <2>2, <1>1 DEF Counters
    <3>3. \A d \in Server : d # dst => count[d] <= v.max_vote
      BY <1>1 DEF Matches, Counters
    <3>4. \E m \in All : Is(m)
      <4>1. CASE \E d \in Server : count[d] = v.max_vote
        <5>1. PICK d \in Server : count[d] = v.max_vote
          BY <4>1
        <5>2. Is(count[d])
          BY <5>1, <3>2, <3>3, <1>4
        <5> QED
          BY <5>2
      <4>2. CASE \A d \in Server : count[d] # v.max_vote
        <5>1. Is(floor)
          BY <4>2, <3>2, <3>3, <1>3, <1>4
        <5> QED
          BY <5>1
      <4> QED
        BY <4>1, <4>2
    <3>5. n.max_vote \in All /\ Is(n.max_vote)
      BY <3>1, <3>4
    <3>6. \E d \in Server : count[d] = n.max_vote
      BY <3>2, <3>5, <1>1
    <3> QED
      BY <3>5, <3>6, <1>3
  <2> QED
    BY <2>1, <2>2
<1>6. /\ n.did_vote = [v.did_vote EXCEPT ![self] = FALSE]
      /\ n.count = count
      /\ n.voted_count = v.voted_count - 1
  BY DEF raft_revoke_vote
<1>7. /\ v.voted_count - 1 = Cardinality(Server) - Count(next, Nil)
      /\ v.voted_count - 1 \in Nat
  <2>1. /\ Cardinality(Server) \in Nat /\ Count(next, Nil) <= Cardinality(Server)
        /\ Count(votes, Nil) \in Nat /\ Count(next, Nil) \in Nat
    BY VotedCount, CountType, Zenon
  <2>2. v.voted_count = Cardinality(Server) - Count(votes, Nil)
    BY DEF Matches
  <2> QED
    BY <1>2, <2>1, <2>2
<1>8. count \in [Server -> Nat]
  BY <1>3, Zenon DEF Counters
<1>9. n = [did_vote |-> n.did_vote, count |-> n.count,
           voted_count |-> n.voted_count, max_vote |-> n.max_vote]
  BY DEF raft_revoke_vote
<1> HIDE DEF n, count
<1>10. n \in Counters
  BY <1>5, <1>6, <1>7, <1>8, <1>9, Zenon DEF Counters
<1>11. \A s \in Server : n.did_vote[s] <=> next[s] # Nil
  BY <1>6 DEF Matches, Counters, Votes
<1>12. Matches(n, next)
  BY <1>3, <1>5, <1>6, <1>7, <1>11 DEF Matches
<1> QED
  BY <1>10, <1>12 DEF n

-----------------------------------------------------------------------------
(* The theorems.                                                           *)

\* No votes at the start.
LEMMA InitInvariant == Init => IInv
<1> SUFFICES ASSUME Init PROVE IInv
  OBVIOUS
<1>1. Node!NoVotes \in Votes /\ \A s \in Server : Node!NoVotes[s] = Nil
  BY DEF Node!NoVotes, Votes
<1>2. 1..Cardinality(Server) \subseteq Nat \ {0}
  BY FS_CardinalityType
<1>3. c \in Counters /\ Matches(c, r.votes)
  BY NoCountersMatch DEF Init
<1>4. r \in Choice
  BY <1>1, <1>2 DEF Init, Choice, Votes
<1>5. OwnVoteIsCounted
  BY <1>1 DEF Init, OwnVoteIsCounted
<1> QED
  BY <1>3, <1>4, <1>5, MatchesCurrent DEF IInv, TypeOK

\* Every step keeps the counters right.
LEMMA NextInvariant == IInv /\ [Next]_vars => IInv'
<1> SUFFICES ASSUME IInv, [Next]_vars PROVE IInv'
  OBVIOUS
<1>1. /\ c \in Counters /\ r \in Choice /\ r.votes \in Votes /\ r.self \in Server
      /\ Matches(c, r.votes)
      /\ r.votes[r.self] = r.volatile_vote
  BY MatchesCurrent DEF IInv, TypeOK, OwnVoteIsCounted, Choice, Votes
<1>2. SUFFICES /\ c' \in Counters /\ r' \in Choice
               /\ Matches(c', r'.votes)
               /\ r'.votes[r'.self] = r'.volatile_vote
  <2>1. (TypeOK => (CountersMatchVotes <=> Matches(c, r.votes)))'
    BY MatchesCurrent, PTL
  <2> QED
    BY <1>2, <2>1 DEF IInv, TypeOK, OwnVoteIsCounted
<1>3. ASSUME NEW dst \in Server, OwnVote(dst)
      PROVE  /\ c' \in Counters /\ r' \in Choice
             /\ Matches(c', r'.votes)
             /\ r'.votes[r'.self] = r'.volatile_vote
  <2>1. r.volatile_vote = Nil /\ r.votes[r.self] = Nil
    BY <1>1, <1>3 DEF OwnVote
  <2>2. r' = [r EXCEPT !.volatile_vote = dst, !.votes[r.self] = dst]
    BY <1>1, <1>3, <2>1 DEF OwnVote, Node!raft_add_vote, Choice
  <2>3. /\ r' \in Choice /\ r'.votes \in Votes /\ r'.self = r.self
        /\ r'.votes[r.self] = dst /\ r'.volatile_vote = dst
        /\ \A s \in Server \ {r.self} : r'.votes[s] = r.votes[s]
    BY <1>1, <2>2, Zenon DEF Choice, Votes
  <2>4. c' = raft_add_vote(c, r.self, dst)
    BY <1>3 DEF OwnVote
  <2>5. c' \in Counters /\ Matches(c', r'.votes)
    BY <1>1, <2>1, <2>3, <2>4, AddVoteMatches
  <2> QED
    BY <2>3, <2>5
<1>4. ASSUME NEW src \in Server, NEW dst \in Server, PeerVote(src, dst)
      PROVE  /\ c' \in Counters /\ r' \in Choice
             /\ Matches(c', r'.votes)
             /\ r'.votes[r'.self] = r'.volatile_vote
  <2>1. r' = IF r.votes[src] # Nil THEN r ELSE [r EXCEPT !.votes[src] = dst]
    BY <1>4 DEF PeerVote, Node!raft_add_vote
  <2>2. /\ r' \in Choice /\ r'.votes \in Votes
        /\ r'.self = r.self /\ r'.volatile_vote = r.volatile_vote
        /\ r'.votes[src] = IF r.votes[src] # Nil THEN r.votes[src] ELSE dst
        /\ \A s \in Server \ {src} : r'.votes[s] = r.votes[s]
    BY <1>1, <2>1 DEF Choice, Votes
  <2>3. c' = raft_add_vote(c, src, dst) /\ src # r.self
    BY <1>4 DEF PeerVote
  <2>4. c' \in Counters /\ Matches(c', r'.votes)
    BY <1>1, <2>2, <2>3, AddVoteMatches
  <2> QED
    BY <1>1, <2>2, <2>3, <2>4
<1>5. ASSUME Revoke
      PROVE  /\ c' \in Counters /\ r' \in Choice
             /\ Matches(c', r'.votes)
             /\ r'.votes[r'.self] = r'.volatile_vote
  <2>1. r' = [r EXCEPT !.votes[r.self] = Nil, !.volatile_vote = Nil,
                       !.candidate_vclock = Nil]
    BY <1>5 DEF Revoke, Node!raft_revoke_vote
  <2>2. /\ r' \in Choice /\ r'.votes \in Votes
        /\ r'.self = r.self /\ r'.volatile_vote = Nil /\ r'.votes[r.self] = Nil
        /\ \A s \in Server \ {r.self} : r'.votes[s] = r.votes[s]
    BY <1>1, <2>1, Zenon DEF Choice, Votes
  <2>3. c' = raft_revoke_vote(c, r.self, r.votes[r.self]) /\ r.votes[r.self] # Nil
    BY <1>1, <1>5 DEF Revoke
  <2>4. c' \in Counters /\ Matches(c', r'.votes)
    BY <1>1, <2>2, <2>3, RevokeVoteMatches
  <2> QED
    BY <2>2, <2>4
<1>6. ASSUME NewTerm
      PROVE  /\ c' \in Counters /\ r' \in Choice
             /\ Matches(c', r'.votes)
             /\ r'.votes[r'.self] = r'.volatile_vote
  <2>1. Node!NoVotes \in Votes /\ \A s \in Server : Node!NoVotes[s] = Nil
    BY DEF Node!NoVotes, Votes
  <2>2. /\ r' \in Choice /\ r'.votes = Node!NoVotes
        /\ r'.self = r.self /\ r'.volatile_vote = Nil
    BY <1>1, <1>6, <2>1, Zenon DEF NewTerm, Choice, Votes
  <2> QED
    BY <1>1, <1>6, <2>1, <2>2, NoCountersMatch DEF NewTerm
<1>7. CASE UNCHANGED vars
  BY <1>1, <1>7 DEF vars
<1> QED
  BY <1>3, <1>4, <1>5, <1>6, <1>7 DEF Next

\* The inductive invariant.
LEMMA Invariant == Spec => []IInv
<1> QED
  BY InitInvariant, NextInvariant, PTL DEF Spec

\* For any set of instances, the counters that raft_add_vote and
\* raft_revoke_vote maintain are those of the votes of the term.
THEOREM CountersAreRight == Spec => []CountersMatchVotes
<1>1. IInv => CountersMatchVotes
  BY DEF IInv
<1> QED
  BY <1>1, Invariant, PTL

\* For any set of instances and any quorum, raft_has_split_vote holds exactly
\* when no instance can collect a quorum any more, and raft_vote_count is the
\* number of the votes for the node itself.
THEOREM SplitVoteIsRight == Spec => []SplitVoteIsExact
<1>1. ASSUME IInv PROVE SplitVoteIsExact
  <2> DEFINE size == Cardinality(Server)
             absent == Count(r.votes, Nil)
  <2>1. /\ c \in Counters /\ r \in Choice /\ r.votes \in Votes
        /\ Matches(c, r.votes)
    BY <1>1, MatchesCurrent DEF IInv, TypeOK, Choice, Votes
  <2>2. /\ size \in Nat /\ absent \in Nat /\ absent <= size
        /\ c.voted_count = size - absent
    BY <2>1, VotedCount, CountType, Zenon DEF Matches
  <2>3. raft_has_split_vote(c, r.election_quorum) <=>
            r.election_quorum <= size /\ c.max_vote + absent < r.election_quorum
    <3>1. size - (size - absent) = absent /\ size - absent <= size
      BY <2>2
    <3> QED
      BY <2>2, <3>1 DEF raft_has_split_vote
  <2>4. Node!raft_has_split_vote(r) <=>
            /\ r.election_quorum <= size
            /\ \A d \in Server : Count(r.votes, d) + absent < r.election_quorum
    <3>1. absent = Cardinality({s \in Server : r.votes[s] = Nil})
      BY DEF Count
    <3>2. \A d \in Server : Count(r.votes, d) = Cardinality({s \in Server : r.votes[s] = d})
      BY DEF Count
    <3> HIDE DEF absent
    <3> QED
      BY <3>1, <3>2, SameCardinality, Zenon DEF Node!raft_has_split_vote
  <2>5. /\ \A d \in Server : /\ c.count[d] = Count(r.votes, d) /\ c.count[d] \in Nat
                             /\ c.count[d] <= c.max_vote
        /\ \E d \in Server : c.count[d] = c.max_vote
        /\ c.max_vote \in Nat /\ r.election_quorum \in Nat
    BY <2>1 DEF Matches, Counters, Choice
  <2> HIDE DEF size, absent
  <2>6. (c.max_vote + absent < r.election_quorum) <=>
            \A d \in Server : Count(r.votes, d) + absent < r.election_quorum
    BY <2>2, <2>5
  <2>7. raft_vote_count(c, r.self) = Node!raft_vote_count(r)
    <3>1. r.self \in Server
      BY <2>1 DEF Choice
    <3>2. raft_vote_count(c, r.self) = Count(r.votes, r.self)
      BY <2>5, <3>1 DEF raft_vote_count
    <3> QED
      BY <3>2, SameCardinality DEF Node!raft_vote_count, Count
  <2> QED
    BY <2>3, <2>4, <2>6, <2>7 DEF SplitVoteIsExact
<1> QED
  BY <1>1, Invariant, PTL
=============================================================================
