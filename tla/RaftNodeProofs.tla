--------------------------- MODULE RaftNodeProofs ---------------------------
(***************************************************************************)
(* What every function of raft.c does to the term and the vote of its      *)
(* instance: lemmas that the proofs about the replica set rest on.         *)
(***************************************************************************)
EXTENDS RaftNode, TLAPS

USE ServerAssumption

\* The own vote is counted with the others.
Counted(r) == r.votes[r.self] = r.volatile_vote

\* What a handler does to the structure: what is on disk stays, the volatile
\* term grows or the volatile vote is kept, the own vote stays counted.
Follows(r, n) ==
    /\ n \in Raft
    /\ n.self = r.self /\ n.term = r.term /\ n.vote = r.vote
    /\ n.volatile_term >= r.volatile_term
    /\ n.volatile_term = r.volatile_term /\ r.volatile_vote # Nil =>
            n.volatile_vote = r.volatile_vote
    /\ Counted(r) => Counted(n)

\* A change of the other fields.
Same(r, n) ==
    /\ n \in Raft
    /\ n.self = r.self /\ n.term = r.term /\ n.vote = r.vote
    /\ n.volatile_term = r.volatile_term /\ n.volatile_vote = r.volatile_vote
    /\ n.votes[r.self] = r.votes[r.self]

\* Handlers can be composed.
LEMMA FollowsTransitive ==
    ASSUME NEW r \in Raft, NEW n, NEW m, Follows(r, n), Follows(n, m)
    PROVE  Follows(r, m)
  BY DEF Follows, Raft, Term

\* Changes of the other fields can be composed.
LEMMA SameTransitive ==
    ASSUME NEW r \in Raft, NEW n, NEW m, Same(r, n), Same(n, m)
    PROVE  Same(r, m)
  BY DEF Same

\* A change of the other fields is what a handler may do.
LEMMA SameFollows ==
    ASSUME NEW r \in Raft, NEW n, Same(r, n)
    PROVE  Follows(r, n)
  BY DEF Same, Follows, Counted, Raft, Term

-----------------------------------------------------------------------------
(* Methods of the state machine that leave the term and the vote alone.    *)

\* raft_schedule_broadcast and the raft_sm_wait_* functions.
LEMMA WaitSame ==
    \A r \in Raft : Same(r, raft_schedule_broadcast(r)) /\ Same(r, raft_sm_wait(r))
  BY Zenon DEF Same, Raft, raft_schedule_broadcast, raft_sm_wait

\* raft_check_split_vote and raft_sm_pause_and_dump.
LEMMA PauseSame ==
    \A r \in Raft : Same(r, raft_check_split_vote(r)) /\ Same(r, raft_sm_pause_and_dump(r))
<1> SUFFICES ASSUME NEW r \in Raft
             PROVE  Same(r, raft_check_split_vote(r)) /\ Same(r, raft_sm_pause_and_dump(r))
  OBVIOUS
<1>1. Same(r, r)
  BY DEF Same
<1>2. Same(r, raft_check_split_vote(r))
  BY <1>1, WaitSame DEF raft_check_split_vote
<1>3. Same(r, raft_sm_pause_and_dump(r))
  BY Zenon DEF Same, Raft, raft_sm_pause_and_dump
<1> QED
  BY <1>2, <1>3

\* raft_sm_become_leader and raft_sm_become_candidate.
LEMMA BecomeSame ==
    \A r \in Raft : Same(r, raft_sm_become_leader(r)) /\ Same(r, raft_sm_become_candidate(r))
<1> SUFFICES ASSUME NEW r \in Raft
             PROVE  Same(r, raft_sm_become_leader(r)) /\ Same(r, raft_sm_become_candidate(r))
  OBVIOUS
<1> DEFINE l == [r EXCEPT !.state = LEADER, !.leader = r.self, !.timer = FALSE]
           c == [r EXCEPT !.state = CANDIDATE]
<1>1. Same(r, l) /\ Same(r, c)
  BY Zenon DEF Same, Raft, RaftState, ServerOrNil
<1>2. /\ raft_sm_become_leader(r) = raft_schedule_broadcast(l)
      /\ raft_sm_become_candidate(r) = raft_schedule_broadcast(raft_sm_wait(c))
  BY DEF raft_sm_become_leader, raft_sm_become_candidate
<1> HIDE DEF l, c
<1> QED
  BY <1>1, <1>2, WaitSame, SameTransitive DEF Same

\* raft_sm_follow_leader.
LEMMA FollowLeaderSame ==
    ASSUME NEW r \in Raft, NEW leader \in Server
    PROVE  Same(r, raft_sm_follow_leader(r, leader))
<1> DEFINE t == IF ~r.is_write_in_progress /\ r.is_enabled THEN TRUE ELSE r.timer
           n == [r EXCEPT !.state = FOLLOWER, !.leader = leader, !.timer = t]
<1>1. t \in BOOLEAN
  BY Zenon DEF Raft
<1>2. raft_sm_follow_leader(r, leader) = raft_schedule_broadcast(n)
  BY DEF raft_sm_follow_leader
<1> HIDE DEF t
<1>3. Same(r, n)
  BY <1>1, Zenon DEF Same, Raft, RaftState, ServerOrNil
<1> HIDE DEF n
<1> QED
  BY <1>2, <1>3, WaitSame, SameTransitive DEF Same

\* raft_start_candidate and raft_stop_candidate, and raft_restore which calls
\* one of the two.
LEMMA RestoreSame ==
    \A r \in Raft : /\ Same(r, raft_start_candidate(r)) /\ Same(r, raft_stop_candidate(r))
                    /\ Same(r, raft_restore(r))
<1> SUFFICES ASSUME NEW r \in Raft
             PROVE  /\ Same(r, raft_start_candidate(r)) /\ Same(r, raft_stop_candidate(r))
                    /\ Same(r, raft_restore(r))
  OBVIOUS
<1>1. Same(r, raft_start_candidate(r))
  BY Zenon DEF Same, Raft, raft_start_candidate, raft_sm_wait
<1>2. Same(r, raft_stop_candidate(r))
  <2>1. CASE r.is_candidate
    <3> DEFINE t == r.timer /\ (r.state = LEADER \/ raft_is_leader_seen(r))
               l == IF r.state = LEADER THEN Nil ELSE r.leader
               n == [r EXCEPT !.is_candidate = FALSE, !.state = FOLLOWER, !.leader = l,
                              !.timer = t]
    <3>1. t \in BOOLEAN /\ l \in ServerOrNil
      BY DEF Raft, ServerOrNil
    <3> HIDE DEF t, l
    <3>2. Same(r, n)
      BY <3>1, Zenon DEF Same, Raft, RaftState
    <3>3. raft_stop_candidate(r) = raft_schedule_broadcast(n)
      BY <2>1 DEF raft_stop_candidate, t, l
    <3>4. n \in Raft
      BY <3>2 DEF Same
    <3> HIDE DEF n
    <3>5. Same(n, raft_schedule_broadcast(n))
      BY <3>4, WaitSame
    <3> QED
      BY <3>2, <3>3, <3>5, SameTransitive
  <2>2. CASE ~r.is_candidate
    BY <2>2 DEF raft_stop_candidate, Same
  <2> QED
    BY <2>1, <2>2
<1> QED
  BY <1>1, <1>2 DEF raft_restore

\* raft_sm_start and raft_sm_stop.
LEMMA StartStopSame ==
    \A r \in Raft : Same(r, raft_sm_start(r)) /\ Same(r, raft_sm_stop(r))
<1> SUFFICES ASSUME NEW r \in Raft
             PROVE  Same(r, raft_sm_start(r)) /\ Same(r, raft_sm_stop(r))
  OBVIOUS
<1>1. Same(r, raft_sm_stop(r))
  <2> DEFINE l == IF r.state = LEADER THEN Nil ELSE r.leader
             n == [r EXCEPT !.is_enabled = FALSE, !.is_candidate = FALSE, !.leader = l,
                            !.state = FOLLOWER, !.timer = FALSE]
  <2>1. l \in ServerOrNil
    BY DEF Raft, ServerOrNil
  <2>2. raft_sm_stop(r) = raft_schedule_broadcast(n)
    BY DEF raft_sm_stop
  <2> HIDE DEF l
  <2>3. Same(r, n)
    BY <2>1, Zenon DEF Same, Raft, RaftState
  <2> HIDE DEF n
  <2> QED
    BY <2>2, <2>3, WaitSame, SameTransitive DEF Same
<1>2. Same(r, raft_sm_start(r))
  <2> DEFINE on == [r EXCEPT !.is_enabled = TRUE, !.is_candidate = r.is_cfg_candidate]
  <2>1. Same(r, on)
    BY Zenon DEF Same, Raft
  <2>2. Same(on, raft_sm_wait(on))
    BY <2>1, WaitSame, Zenon DEF Same
  <2>3. \/ raft_sm_start(r) = raft_schedule_broadcast(on)
        \/ raft_sm_start(r) = raft_schedule_broadcast(raft_sm_wait(on))
    BY DEF raft_sm_start
  <2> HIDE DEF on
  <2>4. Same(r, raft_sm_wait(on))
    BY <2>1, <2>2, SameTransitive
  <2> QED
    BY <2>1, <2>3, <2>4, WaitSame, SameTransitive DEF Same
<1> QED
  BY <1>1, <1>2

-----------------------------------------------------------------------------
(* New terms and new votes.                                                *)

\* A vote of another instance does not touch the own one.
LEMMA AddVoteSame ==
    ASSUME NEW r \in Raft, NEW src \in Server, NEW dst \in Server, src # r.self
    PROVE  Same(r, raft_add_vote(r, src, dst))
  BY DEF Same, Raft, ServerOrNil, raft_add_vote

\* raft_sm_schedule_new_term starts the term without a vote.
LEMMA NewTermFollows ==
    ASSUME NEW r \in Raft, NEW term \in Nat, term > r.volatile_term
    PROVE  LET n == raft_sm_schedule_new_term(r, term)
           IN  /\ Follows(r, n) /\ n.volatile_term = term
               /\ n.volatile_vote = Nil /\ Counted(n)
<1> DEFINE reset == [r EXCEPT !.volatile_term = term, !.volatile_vote = Nil,
                              !.candidate_vclock = Nil, !.leader = Nil,
                              !.state = FOLLOWER, !.votes = NoVotes,
                              !.leader_witness_map = {}]
           n == raft_sm_schedule_new_term(r, term)
<1>1. /\ Follows(r, reset) /\ reset.volatile_term = term
      /\ reset.volatile_vote = Nil /\ reset.votes[reset.self] = Nil
  <2>1. /\ NoVotes \in [Server -> ServerOrNil] /\ Nil \in ServerOrNil
        /\ term \in Term /\ FOLLOWER \in RaftState /\ \A s \in Server : NoVotes[s] = Nil
    BY DEF NoVotes, ServerOrNil, RaftState, Term, Raft
  <2>2. /\ reset \in Raft
        /\ reset.self = r.self /\ reset.term = r.term /\ reset.vote = r.vote
        /\ reset.volatile_term = term /\ reset.volatile_vote = Nil
        /\ reset.votes = NoVotes
    BY <2>1, Zenon DEF Raft
  <2> HIDE DEF reset
  <2> QED
    BY <2>1, <2>2 DEF Follows, Counted, Raft, Term
<1>2. n = raft_schedule_broadcast(raft_sm_pause_and_dump(raft_restore(reset)))
  BY DEF raft_sm_schedule_new_term
<1> HIDE DEF reset, n
<1>3. Same(reset, n)
  BY <1>1, <1>2, RestoreSame, PauseSame, WaitSame, SameTransitive DEF Same, Follows
<1>4. Follows(r, n)
  BY <1>1, <1>3, SameFollows, FollowsTransitive DEF Follows
<1>5. n.volatile_term = term /\ n.volatile_vote = Nil /\ Counted(n)
  BY <1>1, <1>3 DEF Same, Counted
<1> QED
  BY <1>4, <1>5 DEF n

\* raft_sm_schedule_new_vote needs that there is no vote yet.
LEMMA NewVoteFollows ==
    ASSUME NEW r \in Raft, r.volatile_vote = Nil,
           NEW candidate \in Server, NEW vclock \in Vclock \union {Nil}
    PROVE  Follows(r, raft_sm_schedule_new_vote(r, candidate, vclock))
<1> DEFINE v == IF r.votes[r.self] # Nil THEN r.votes
                ELSE [r.votes EXCEPT ![r.self] = candidate]
           n == [r EXCEPT !.volatile_vote = candidate, !.candidate_vclock = vclock,
                          !.votes = v]
<1>1. /\ v \in [Server -> ServerOrNil] /\ candidate \in ServerOrNil
      /\ r.votes[r.self] = Nil => v[r.self] = candidate
  BY DEF Raft, ServerOrNil
<1>2. raft_sm_schedule_new_vote(r, candidate, vclock) = raft_sm_pause_and_dump(n)
  BY Zenon DEF raft_sm_schedule_new_vote, raft_add_vote, Raft
<1> HIDE DEF v
<1>3. /\ n \in Raft /\ n.volatile_vote = candidate /\ n.votes = v
      /\ n.self = r.self /\ n.term = r.term /\ n.vote = r.vote
      /\ n.volatile_term = r.volatile_term
  BY <1>1, Zenon DEF Raft
<1> HIDE DEF n
<1>4. Follows(r, n)
  BY <1>1, <1>3 DEF Follows, Counted, Raft, Term
<1>5. Follows(n, raft_sm_pause_and_dump(n))
  BY <1>3, PauseSame, SameFollows
<1>6. Follows(r, raft_sm_pause_and_dump(n))
  BY <1>4, <1>5, FollowsTransitive
<1> QED
  BY <1>2, <1>6

\* raft_sm_schedule_new_election: a new term and the own vote in it.
LEMMA NewElectionFollows ==
    ASSUME NEW r \in Raft, NEW own \in Vclock
    PROVE  Follows(r, raft_sm_schedule_new_election(r, own))
<1> DEFINE n == raft_sm_schedule_new_term(r, r.volatile_term + 1)
<1>1. Follows(r, n) /\ n.volatile_vote = Nil
  <2>1. r.volatile_term + 1 \in Nat /\ r.volatile_term + 1 > r.volatile_term
    BY DEF Raft, Term
  <2> QED
    BY <2>1, NewTermFollows
<1>2. r.self \in Server
  BY DEF Raft
<1>3. Follows(n, raft_sm_schedule_new_vote(n, r.self, own))
  BY <1>1, <1>2, NewVoteFollows DEF Follows
<1> HIDE DEF n
<1>4. Follows(r, raft_sm_schedule_new_vote(n, r.self, own))
  BY <1>1, <1>3, FollowsTransitive
<1> QED
  BY <1>4 DEF raft_sm_schedule_new_election, n

\* raft_sm_election_update.
LEMMA ElectionUpdateFollows ==
    ASSUME NEW r \in Raft, NEW own \in Vclock
    PROVE  Follows(r, raft_sm_election_update(r, own))
<1>1. Follows(r, r)
  BY DEF Follows, Raft, Term
<1> QED
  BY <1>1, NewElectionFollows DEF raft_sm_election_update

\* raft_sm_election_update_cb, the timer.
LEMMA TimerFollows ==
    ASSUME NEW r \in Raft, NEW own \in Vclock
    PROVE  Follows(r, raft_sm_election_update_cb(r, own))
<1> DEFINE lost == [r EXCEPT !.timer = FALSE,
                             !.leader_witness_map = r.leader_witness_map \ {r.self}]
           n == raft_schedule_broadcast(raft_restore(lost))
<1>1. Same(r, lost)
  BY Zenon DEF Same, Raft
<1>2. raft_sm_election_update_cb(r, own) = raft_sm_election_update(n, own)
  BY DEF raft_sm_election_update_cb
<1> HIDE DEF lost
<1>3. Same(r, n)
  BY <1>1, RestoreSame, WaitSame, SameTransitive DEF Same
<1> HIDE DEF n
<1>4. Follows(n, raft_sm_election_update(n, own))
  BY <1>3, ElectionUpdateFollows DEF Same
<1> QED
  BY <1>2, <1>3, <1>4, SameFollows, FollowsTransitive

-----------------------------------------------------------------------------
(* Messages.                                                               *)

\* raft_notify_is_leader_seen.
LEMMA NotifyFollows ==
    ASSUME NEW r \in Raft, NEW seen \in BOOLEAN, NEW source \in Server, NEW own \in Vclock
    PROVE  Follows(r, raft_notify_is_leader_seen(r, seen, source, own))
<1> DEFINE w == [r EXCEPT !.leader_witness_map = r.leader_witness_map \union {source}]
           l == [r EXCEPT !.leader_witness_map = r.leader_witness_map \ {source}]
<1>1. Same(r, r) /\ Same(r, w) /\ Same(r, l)
  BY DEF Same, Raft
<1>2. \/ raft_notify_is_leader_seen(r, seen, source, own) = r
      \/ raft_notify_is_leader_seen(r, seen, source, own) = w
      \/ raft_notify_is_leader_seen(r, seen, source, own) = raft_sm_election_update(l, own)
  BY DEF raft_notify_is_leader_seen
<1> HIDE DEF w, l
<1>3. Follows(l, raft_sm_election_update(l, own))
  BY <1>1, ElectionUpdateFollows DEF Same
<1>4. Follows(r, raft_sm_election_update(l, own))
  BY <1>1, <1>3, SameFollows, FollowsTransitive
<1> QED
  BY <1>1, <1>2, <1>4, SameFollows

\* raft_leader_see.
LEMMA LeaderSeeSame == \A r \in Raft : Same(r, raft_leader_see(r))
<1> SUFFICES ASSUME NEW r \in Raft PROVE Same(r, raft_leader_see(r))
  OBVIOUS
<1> DEFINE seen == [r EXCEPT !.leader_witness_map = r.leader_witness_map \union {r.self}]
<1>1. Same(r, seen)
  BY DEF Same, Raft
<1>2. \/ raft_leader_see(r) = seen
      \/ raft_leader_see(r) = raft_schedule_broadcast(seen)
  BY DEF raft_leader_see
<1> HIDE DEF seen
<1> QED
  BY <1>1, <1>2, WaitSame, SameTransitive DEF Same

\* raft_process_term and raft_new_term.
LEMMA ProcessTermFollows ==
    ASSUME NEW r \in Raft
    PROVE  /\ \A term \in Nat : Follows(r, raft_process_term(r, term))
           /\ Follows(r, raft_new_term(r))
<1>1. Follows(r, r) /\ r.volatile_term + 1 \in Nat /\ r.volatile_term + 1 > r.volatile_term
  BY DEF Follows, Raft, Term
<1>2. Follows(r, raft_new_term(r))
  BY <1>1, NewTermFollows DEF raft_new_term
<1>3. ASSUME NEW term \in Nat
      PROVE  Follows(r, raft_process_term(r, term))
  BY <1>1, NewTermFollows DEF raft_process_term
<1> QED
  BY <1>2, <1>3

\* The vote of a message.
LEMMA ProcessVoteFollows ==
    ASSUME NEW r \in Raft, NEW req \in Msg, NEW source \in Server, source # r.self,
           NEW own \in Vclock
    PROVE  Follows(r, raft_process_vote(r, req, source, own))
<1> DEFINE n == raft_process_vote(r, req, source, own)
           counted == IF r.votes[source] # Nil THEN r
                      ELSE raft_check_split_vote(raft_add_vote(r, source, req.vote))
           new == raft_sm_schedule_new_vote(counted, req.vote, req.vclock)
<1>1. CASE req.vote = Nil
  BY <1>1 DEF raft_process_vote, Follows, Raft, Term
<1>2. CASE req.vote # Nil
  <2>1. req.vote \in Server /\ req.vclock \in Vclock \union {Nil}
    BY <1>2 DEF Msg, ServerOrNil
  <2>2. Same(r, r) /\ Same(r, raft_add_vote(r, source, req.vote))
    BY <2>1, AddVoteSame DEF Same
  <2>3. Same(r, counted)
    BY <2>2, PauseSame, SameTransitive DEF Same
  <2>4. Same(counted, raft_sm_become_leader(counted))
    BY <2>3, BecomeSame DEF Same
  <2>5. \/ n = counted
        \/ n = raft_sm_become_leader(counted)
        \/ n = new /\ r.volatile_vote = Nil
    BY <1>2 DEF raft_process_vote, raft_sm_try_new_vote
  <2> HIDE DEF counted, n
  <2>6. r.volatile_vote = Nil => Follows(counted, new)
    BY <2>1, <2>3, NewVoteFollows DEF Same
  <2>7. r.volatile_vote = Nil => Follows(r, new)
    BY <2>3, <2>6, SameFollows, FollowsTransitive
  <2>8. Follows(r, counted) /\ Follows(r, raft_sm_become_leader(counted))
    BY <2>3, <2>4, SameFollows, SameTransitive
  <2>9. Follows(r, n)
    BY <2>5, <2>7, <2>8
  <2> QED
    BY <2>9 DEF n
<1> QED
  BY <1>1, <1>2

\* The state of a message.
LEMMA ProcessStateFollows ==
    ASSUME NEW r \in Raft, NEW req \in Msg, NEW source \in Server, NEW own \in Vclock
    PROVE  Follows(r, raft_process_state(r, req, source, own))
<1> DEFINE gone == [r EXCEPT !.leader = Nil, !.timer = FALSE,
                             !.leader_witness_map = r.leader_witness_map \ {r.self}]
           lost == raft_schedule_broadcast(gone)
           n == raft_process_state(r, req, source, own)
<1>1. Same(r, r) /\ Same(r, gone)
  BY Zenon DEF Same, Raft, ServerOrNil
<1>2. \/ n = r
      \/ n = lost
      \/ n = raft_sm_schedule_new_election(lost, own)
      \/ n = raft_sm_follow_leader(raft_leader_see(r), source)
  BY DEF raft_process_state, raft_leader_resigned
<1> HIDE DEF n, gone
<1>3. Same(r, lost)
  BY <1>1, WaitSame, SameTransitive DEF Same
<1>4. Same(r, raft_sm_follow_leader(raft_leader_see(r), source))
  BY LeaderSeeSame, FollowLeaderSame, SameTransitive DEF Same
<1> HIDE DEF lost
<1>5. Follows(lost, raft_sm_schedule_new_election(lost, own))
  BY <1>3, NewElectionFollows DEF Same
<1>6. Follows(r, raft_sm_schedule_new_election(lost, own))
  BY <1>3, <1>5, SameFollows, FollowsTransitive
<1>7. Follows(r, n)
  BY <1>1, <1>2, <1>3, <1>4, <1>6, SameFollows
<1> QED
  BY <1>7 DEF n

\* raft_process_msg.
LEMMA ProcessMsgFollows ==
    ASSUME NEW r \in Raft, NEW req \in Msg, NEW source \in Server, source # r.self,
           NEW own \in Vclock
    PROVE  Follows(r, raft_process_msg(r, req, source, own))
<1> DEFINE bumped == raft_process_term(r, req.term)
           notified == raft_notify_is_leader_seen(bumped, req.is_leader_seen, source, own)
           voted == raft_process_vote(notified, req, source, own)
           n == raft_process_state(voted, req, source, own)
<1>1. Follows(r, r)
  BY DEF Follows, Raft, Term
<1>2. raft_process_msg(r, req, source, own) \in {r, n}
  BY DEF raft_process_msg
<1>3. req.term \in Nat /\ req.is_leader_seen \in BOOLEAN
  BY DEF Msg, Term
<1>4. Follows(r, bumped)
  BY <1>3, ProcessTermFollows
<1> HIDE DEF bumped
<1>5. Follows(bumped, notified)
  BY <1>3, <1>4, NotifyFollows DEF Follows
<1>6. Follows(r, notified)
  BY <1>4, <1>5, FollowsTransitive
<1> HIDE DEF notified
<1>7. Follows(notified, voted)
  BY <1>6, ProcessVoteFollows DEF Follows
<1>8. Follows(r, voted)
  BY <1>6, <1>7, FollowsTransitive
<1> HIDE DEF voted
<1>9. Follows(voted, n)
  BY <1>8, ProcessStateFollows DEF Follows
<1>10. Follows(r, n)
  BY <1>8, <1>9, FollowsTransitive
<1> QED
  BY <1>1, <1>2, <1>10

\* raft_process_heartbeat.
LEMMA HeartbeatSame ==
    ASSUME NEW r \in Raft, NEW source \in Server
    PROVE  Same(r, raft_process_heartbeat(r, source))
<1>1. Same(r, r)
  BY DEF Same
<1>2. Same(r, raft_sm_wait(raft_leader_see(r)))
  BY LeaderSeeSame, WaitSame, SameTransitive DEF Same
<1> QED
  BY <1>1, <1>2 DEF raft_process_heartbeat

-----------------------------------------------------------------------------
(* Configuration.                                                          *)

\* raft_create.
LEMMA CreateType ==
    ASSUME NEW self \in Server, NEW quorum \in Nat \ {0}
    PROVE  LET n == raft_create(self, quorum)
           IN  /\ n \in Raft /\ n.self = self /\ Counted(n)
               /\ n.term = 1 /\ n.volatile_term = 1
               /\ n.vote = Nil /\ n.volatile_vote = Nil
<1>1. /\ NoVotes \in [Server -> ServerOrNil] /\ NoVotes[self] = Nil /\ Nil \in ServerOrNil
      /\ FOLLOWER \in RaftState /\ 1 \in Term
  BY DEF NoVotes, ServerOrNil, RaftState, Term
<1> QED
  BY <1>1 DEF raft_create, Raft, Counted

\* raft_cfg_is_enabled, raft_cfg_is_candidate, raft_cfg_is_candidate_later.
LEMMA CfgSame ==
    ASSUME NEW r \in Raft, NEW is \in BOOLEAN
    PROVE  /\ Same(r, raft_cfg_is_enabled(r, is))
           /\ Same(r, raft_cfg_is_candidate_later(r, is))
           /\ Same(r, raft_cfg_is_candidate(r, is))
<1>1. Same(r, r)
  BY DEF Same
<1>2. Same(r, raft_cfg_is_enabled(r, is))
  <2>1. r.is_enabled \in BOOLEAN
    BY DEF Raft
  <2>2. raft_cfg_is_enabled(r, is) \in {r, raft_sm_start(r), raft_sm_stop(r)}
    BY <2>1 DEF raft_cfg_is_enabled
  <2> QED
    BY <1>1, <2>2, StartStopSame
<1>3. Same(r, raft_cfg_is_candidate_later(r, is))
  BY DEF Same, Raft, raft_cfg_is_candidate_later
<1>4. Same(r, raft_cfg_is_candidate(r, is))
  BY <1>3, RestoreSame, SameTransitive DEF Same, raft_cfg_is_candidate
<1> QED
  BY <1>2, <1>3, <1>4

\* raft_cfg_election_timeout, raft_cfg_death_timeout and raft_resign.
LEMMA TimeoutSame ==
    ASSUME NEW r \in Raft
    PROVE  /\ Same(r, raft_cfg_election_timeout(r))
           /\ Same(r, raft_cfg_death_timeout(r))
           /\ Same(r, raft_resign(r))
<1>1. Same(r, r)
  BY DEF Same
<1> QED
  BY <1>1, WaitSame, RestoreSame
     DEF raft_cfg_election_timeout, raft_cfg_death_timeout, raft_resign

\* raft_cfg_election_quorum.
LEMMA CfgQuorumSame ==
    ASSUME NEW r \in Raft, NEW quorum \in Nat \ {0}
    PROVE  Same(r, raft_cfg_election_quorum(r, quorum))
<1> DEFINE cfg == [r EXCEPT !.election_quorum = quorum]
<1>1. Same(r, cfg)
  BY DEF Same, Raft
<1>2. \/ raft_cfg_election_quorum(r, quorum) = raft_sm_become_leader(cfg)
      \/ raft_cfg_election_quorum(r, quorum) = raft_check_split_vote(cfg)
  BY DEF raft_cfg_election_quorum
<1> HIDE DEF cfg
<1> QED
  BY <1>1, <1>2, BecomeSame, PauseSame, SameTransitive DEF Same

\* raft_promote: a new term, and the own vote in it.
LEMMA PromoteFollows ==
    ASSUME NEW r \in Raft, NEW own \in Vclock
    PROVE  Follows(r, raft_promote(r, own))
<1> DEFINE t == raft_sm_schedule_new_term(r, r.volatile_term + 1)
           c == raft_start_candidate(t)
           n == raft_sm_schedule_new_vote(c, r.self, own)
<1>1. /\ Follows(r, r) /\ r.self \in Server
      /\ r.volatile_term + 1 \in Nat /\ r.volatile_term + 1 > r.volatile_term
  BY DEF Follows, Raft, Term
<1>2. Follows(r, t) /\ t.volatile_vote = Nil
  BY <1>1, NewTermFollows
<1>3. raft_promote(r, own) \in {r, n}
  BY DEF raft_promote
<1> HIDE DEF t
<1>4. Same(t, c)
  BY <1>2, RestoreSame DEF Follows
<1> HIDE DEF c
<1>5. Follows(r, c) /\ c.volatile_vote = Nil /\ c \in Raft
  BY <1>2, <1>4, SameFollows, FollowsTransitive DEF Same, Follows
<1>6. Follows(c, n)
  BY <1>1, <1>5, NewVoteFollows
<1> HIDE DEF n
<1> QED
  BY <1>1, <1>3, <1>5, <1>6, FollowsTransitive

-----------------------------------------------------------------------------
(* The worker and recovery.                                                *)

\* A vote on disk is not replaced within its term: what is still to be written
\* is newer than what is on disk.
Kept(r) ==
    /\ r.volatile_term >= r.term
    /\ r.volatile_term = r.term /\ r.vote # Nil => r.volatile_vote = r.vote

\* The same for a row that is being written.
KeptRow(r, row) ==
    /\ row.term >= r.term
    /\ row.term = r.term /\ r.vote # Nil => row.vote = r.vote
    /\ r.volatile_term >= row.term
    /\ r.volatile_term = row.term /\ row.vote # Nil => r.volatile_vote = row.vote

\* Handlers keep that, also while the worker is writing a row.
LEMMA FollowsKept ==
    ASSUME NEW r \in Raft, NEW n, Follows(r, n)
    PROVE  /\ Kept(r) => Kept(n)
           /\ \A row \in Row : KeptRow(r, row) => KeptRow(n, row)
  BY DEF Follows, Kept, KeptRow, Raft, Row, Term

\* What is sent, written and saved has its type.
LEMMA CheckpointType ==
    ASSUME NEW r \in Raft, NEW own \in Vclock
    PROVE  /\ raft_checkpoint_remote(r, own) \in Msg
           /\ raft_checkpoint_local(r) \in Row
           /\ raft_dump_req(r) \in Row
  BY DEF Raft, Msg, Row, ServerOrNil, raft_checkpoint_remote, raft_checkpoint_local,
         raft_dump_req, raft_is_leader_seen

\* The row that raft_worker_handle_io writes.
LEMMA DumpKept ==
    ASSUME NEW r \in Raft, Kept(r), NEW own \in Vclock, raft_has_dump(r, own)
    PROVE  /\ KeptRow(r, raft_dump_req(r))
           /\ raft_dump_req(r).term = r.term => r.vote = Nil
  BY DEF Kept, KeptRow, raft_dump_req, raft_has_dump, raft_is_fully_on_disk, Raft, Term

\* raft_end_dump, with everything on disk.
LEMMA EndDumpFollows ==
    ASSUME NEW r \in Raft, raft_is_fully_on_disk(r), NEW own \in Vclock
    PROVE  Follows(r, raft_end_dump(r, own))
<1> DEFINE done == [r EXCEPT !.is_write_in_progress = FALSE]
           n == raft_end_dump(r, own)
<1>1. Same(r, done) /\ r.self \in Server /\ r.is_candidate \in BOOLEAN
  BY Zenon DEF Same, Raft
<1>2. \/ n = done \/ n = raft_sm_wait(done)
      \/ n = raft_sm_become_leader(done) \/ n = raft_sm_become_candidate(done)
      \/ r.vote = Nil /\ n = raft_sm_schedule_new_vote(done, r.self, own)
  BY <1>1 DEF raft_end_dump
<1> HIDE DEF done, n
<1>3. r.vote = Nil => Follows(done, raft_sm_schedule_new_vote(done, r.self, own))
  BY <1>1, NewVoteFollows DEF Same, raft_is_fully_on_disk
<1>4. r.vote = Nil => Follows(r, raft_sm_schedule_new_vote(done, r.self, own))
  BY <1>1, <1>3, SameFollows, FollowsTransitive
<1>5. /\ Same(r, raft_sm_wait(done)) /\ Same(r, raft_sm_become_leader(done))
      /\ Same(r, raft_sm_become_candidate(done))
  BY <1>1, WaitSame, BecomeSame, SameTransitive DEF Same
<1>6. Follows(r, n)
  BY <1>1, <1>2, <1>4, <1>5, SameFollows
<1> QED
  BY <1>6 DEF n

\* raft_worker_handle_io with nothing to write: a vote may be revoked, but not
\* one that is on disk.
LEMMA NoDumpKept ==
    ASSUME NEW r \in Raft, Kept(r), NEW own \in Vclock, ~raft_has_dump(r, own)
    PROVE  LET n == raft_handle_io_no_dump(r, own)
           IN  /\ n \in Raft /\ n.self = r.self /\ n.term = r.term /\ n.vote = r.vote
               /\ n.volatile_term >= r.volatile_term
               /\ Kept(n) /\ (Counted(r) => Counted(n))
<1>1. CASE raft_is_vote_canceled(r, own)
  <2> DEFINE w == [r.votes EXCEPT ![r.self] = Nil]
             v == [r EXCEPT !.votes = w, !.volatile_vote = Nil, !.candidate_vclock = Nil]
             n == raft_end_dump(v, own)
  <2>1. w \in [Server -> ServerOrNil] /\ w[r.self] = Nil /\ Nil \in ServerOrNil
    BY DEF Raft, ServerOrNil
  <2>2. raft_handle_io_no_dump(r, own) = n
    BY <1>1 DEF raft_handle_io_no_dump, raft_revoke_vote, Raft
  <2>3. r.vote = Nil /\ r.volatile_term = r.term
    BY <1>1 DEF raft_is_vote_canceled, Kept
  <2> HIDE DEF w
  <2>4. /\ v \in Raft /\ v.self = r.self /\ v.term = r.term /\ v.vote = r.vote
        /\ v.volatile_term = r.volatile_term /\ v.volatile_vote = Nil /\ v.votes = w
    BY <2>1, Zenon DEF Raft
  <2> HIDE DEF v
  <2>5. Follows(v, n)
    BY <2>3, <2>4, EndDumpFollows DEF raft_is_fully_on_disk
  <2> HIDE DEF n
  <2>6. Counted(v) /\ Kept(v)
    BY <2>1, <2>3, <2>4 DEF Counted, Kept, Raft, Term
  <2>7. Kept(n)
    BY <2>4, <2>5, <2>6, FollowsKept
  <2> QED
    BY <2>2, <2>4, <2>5, <2>6, <2>7 DEF Follows
<1>2. CASE ~raft_is_vote_canceled(r, own)
  <2> DEFINE n == raft_end_dump(r, own)
  <2>1. raft_handle_io_no_dump(r, own) = n
    BY <1>2 DEF raft_handle_io_no_dump
  <2>2. Follows(r, n)
    BY <1>2, EndDumpFollows DEF raft_has_dump
  <2> HIDE DEF n
  <2>3. Kept(n)
    BY <2>2, FollowsKept
  <2> QED
    BY <2>1, <2>2, <2>3 DEF Follows
<1> QED
  BY <1>1, <1>2

\* raft_worker_handle_io after a row was written.
LEMMA DumpedKept ==
    ASSUME NEW r \in Raft, NEW row \in Row, KeptRow(r, row), NEW own \in Vclock
    PROVE  LET n == raft_handle_io_dumped(r, row, own)
           IN  /\ n \in Raft /\ n.self = r.self /\ n.term = row.term /\ n.vote = row.vote
               /\ n.volatile_term >= r.volatile_term
               /\ Kept(n) /\ (Counted(r) => Counted(n))
<1> DEFINE v == [r EXCEPT !.term = row.term, !.vote = row.vote]
           p == raft_schedule_broadcast(v)
           n == raft_handle_io_dumped(r, row, own)
<1>1. /\ v \in Raft /\ v.self = r.self /\ v.term = row.term /\ v.vote = row.vote
      /\ v.volatile_term = r.volatile_term /\ v.volatile_vote = r.volatile_vote
      /\ v.votes = r.votes
  BY Zenon DEF Raft, Row
<1>2. n = IF raft_is_fully_on_disk(p) THEN raft_end_dump(p, own) ELSE p
  BY DEF raft_handle_io_dumped
<1> HIDE DEF v
<1>3. Same(v, p)
  BY <1>1, WaitSame
<1> HIDE DEF p, n
<1>4. Follows(p, p) /\ p \in Raft
  BY <1>3 DEF Same, Follows, Raft, Term
<1>5. Follows(p, n)
  BY <1>2, <1>4, EndDumpFollows
<1>6. Kept(p) /\ (Counted(r) => Counted(p))
  BY <1>1, <1>3 DEF Same, Kept, KeptRow, Counted
<1>7. Kept(n)
  BY <1>4, <1>5, <1>6, FollowsKept
<1>8. /\ n \in Raft /\ n.self = r.self /\ n.term = row.term /\ n.vote = row.vote
      /\ n.volatile_term >= r.volatile_term /\ (Counted(r) => Counted(n))
  BY <1>1, <1>3, <1>5, <1>6 DEF Same, Follows
<1> QED
  BY <1>7, <1>8 DEF n

\* raft_process_recovery and raft_cfg_instance_id restore the term and the vote
\* of the row, and count the vote.
LEMMA RecoveryRestores ==
    ASSUME NEW self \in Server, NEW quorum \in Nat \ {0}, NEW row \in Row
    PROVE  LET n == raft_cfg_instance_id(
                        raft_process_recovery(raft_create(self, quorum), row))
           IN  /\ n \in Raft /\ n.self = self /\ Counted(n)
               /\ n.term = row.term /\ n.volatile_term = row.term
               /\ n.vote = row.vote /\ n.volatile_vote = row.vote
<1> DEFINE c == raft_create(self, quorum)
           p == raft_process_recovery(c, row)
           n == raft_cfg_instance_id(p)
<1>1. /\ c \in Raft /\ c.self = self /\ c.votes[self] = Nil
      /\ c.vote = Nil /\ c.volatile_vote = Nil
  BY CreateType DEF Counted
<1> HIDE DEF c
<1>2. /\ p \in Raft /\ p.self = self /\ p.votes = c.votes
      /\ p.term = row.term /\ p.volatile_term = row.term
      /\ p.vote = row.vote /\ p.volatile_vote = row.vote
  BY <1>1, Zenon DEF raft_process_recovery, Raft, Row
<1> HIDE DEF p
<1>3. CASE row.vote = Nil
  <2>1. n = p
    BY <1>2, <1>3 DEF raft_cfg_instance_id
  <2>2. Counted(p)
    BY <1>1, <1>2, <1>3 DEF Counted
  <2> QED
    BY <1>2, <2>1, <2>2 DEF p, c
<1>4. CASE row.vote # Nil
  <2> DEFINE w == [p.votes EXCEPT ![self] = row.vote]
  <2>1. p.votes[self] = Nil /\ row.vote \in ServerOrNil
    BY <1>1, <1>2 DEF Row
  <2>2. n = [p EXCEPT !.votes = w]
    BY <1>2, <1>4, <2>1 DEF raft_cfg_instance_id, raft_add_vote, Raft
  <2>3. w \in [Server -> ServerOrNil] /\ w[self] = row.vote
    BY <1>2, <2>1 DEF Raft
  <2> HIDE DEF w, n
  <2>4. /\ n \in Raft /\ n.self = self /\ n.votes = w
        /\ n.term = row.term /\ n.volatile_term = row.term
        /\ n.vote = row.vote /\ n.volatile_vote = row.vote
    BY <1>2, <2>2, <2>3 DEF Raft
  <2>5. Counted(n)
    BY <2>3, <2>4 DEF Counted
  <2> QED
    BY <2>4, <2>5 DEF n, p, c
<1> QED
  BY <1>3, <1>4
=============================================================================
