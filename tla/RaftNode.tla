------------------------------ MODULE RaftNode ------------------------------
(***************************************************************************)
(* The Raft state machine of one instance: src/src/lib/raft/raft.c.        *)
(*                                                                         *)
(* Every C function that touches `struct raft' is an operator that takes   *)
(* the structure (a record) and returns it updated.  None of them yields,  *)
(* so each call is one atomic change; the only yielding function,          *)
(* raft_process_async, is split into the actions of module BoxRaft.        *)
(*                                                                         *)
(* Time is abstracted: `timer' says whether raft->timer is active, and an  *)
(* active timer may fire at any moment.  The votes are kept as a map from  *)
(* a voter to the node it voted for; the counters that the code maintains  *)
(* instead (did_vote, count, voted_count, max_vote) are in RaftVotes.      *)
(***************************************************************************)
EXTENDS Naturals, FiniteSets

CONSTANTS
    Server,     \* instance ids of the registered replicas
    Nil         \* instance id 0: no vote, no leader; also an unset vclock

ASSUME ServerAssumption == IsFiniteSet(Server) /\ Server # {} /\ Nil \notin Server

FOLLOWER == "follower"
CANDIDATE == "candidate"
LEADER == "leader"
RaftState == {FOLLOWER, CANDIDATE, LEADER}

Vclock == [Server -> Nat]
ServerOrNil == Server \union {Nil}
Term == Nat \ {0}

\* struct raft.
Raft ==
    [self : Server, leader : ServerOrNil, state : RaftState,
     volatile_term : Term, volatile_vote : ServerOrNil,
     is_enabled : BOOLEAN, is_candidate : BOOLEAN, is_cfg_candidate : BOOLEAN,
     is_write_in_progress : BOOLEAN, is_broadcast_scheduled : BOOLEAN,
     term : Term, vote : ServerOrNil,
     votes : [Server -> ServerOrNil], leader_witness_map : SUBSET Server,
     election_quorum : Nat \ {0}, candidate_vclock : Vclock \union {Nil},
     timer : BOOLEAN]

\* struct raft_msg as it is sent to the peers.
Msg ==
    [term : Term, vote : ServerOrNil, leader_id : ServerOrNil,
     is_leader_seen : BOOLEAN, state : RaftState, vclock : Vclock \union {Nil}]

\* struct raft_msg as it is written to the WAL: term and vote only.
Row == [term : Term, vote : ServerOrNil]

NoVotes == [s \in Server |-> Nil]

\* Mutant: the term is left zero, as by memset.
raft_create_in_term_0(self, quorum) ==
    [self |-> self, leader |-> Nil, state |-> FOLLOWER,
     volatile_term |-> 0, volatile_vote |-> Nil,
     is_enabled |-> FALSE, is_candidate |-> FALSE, is_cfg_candidate |-> FALSE,
     is_write_in_progress |-> FALSE, is_broadcast_scheduled |-> FALSE,
     term |-> 0, vote |-> Nil, votes |-> NoVotes, leader_witness_map |-> {},
     election_quorum |-> quorum, candidate_vclock |-> Nil, timer |-> FALSE]

raft_create(self, quorum) ==
    [self |-> self, leader |-> Nil, state |-> FOLLOWER,
     volatile_term |-> 1, volatile_vote |-> Nil,
     is_enabled |-> FALSE, is_candidate |-> FALSE, is_cfg_candidate |-> FALSE,
     is_write_in_progress |-> FALSE, is_broadcast_scheduled |-> FALSE,
     term |-> 1, vote |-> Nil, votes |-> NoVotes, leader_witness_map |-> {},
     election_quorum |-> quorum, candidate_vclock |-> Nil, timer |-> FALSE]

-----------------------------------------------------------------------------
(* Queries.                                                                *)

raft_is_fully_on_disk(r) ==
    r.volatile_term = r.term /\ r.volatile_vote = r.vote

\* vclock_compare_ignore0() is 0 or 1: v is not behind in any component.
raft_can_vote_for(v, own) == \A s \in Server : own[s] <= v[s]

raft_is_leader_seen(r) == r.self \in r.leader_witness_map

raft_vote_count(r) == Cardinality({s \in Server : r.votes[s] = r.self})

raft_is_ro(r) == r.is_enabled /\ r.state # LEADER

-----------------------------------------------------------------------------
(* Votes.                                                                  *)

raft_add_vote(r, src, dst) ==
    IF r.votes[src] # Nil THEN r ELSE [r EXCEPT !.votes[src] = dst]

raft_revoke_vote(r) ==
    [r EXCEPT !.votes[r.self] = Nil, !.volatile_vote = Nil, !.candidate_vclock = Nil]

-----------------------------------------------------------------------------
(* State machine methods.                                                  *)

raft_schedule_broadcast(r) == [r EXCEPT !.is_broadcast_scheduled = TRUE]

\* raft_sm_wait_leader_dead, raft_sm_wait_leader_found and
\* raft_sm_wait_election_end differ in the timeout only.
raft_sm_wait(r) == [r EXCEPT !.timer = TRUE]

\* Nobody can collect a quorum with the votes that are left in this term.
raft_has_split_vote(r) ==
    LET vote_vac == Cardinality({s \in Server : r.votes[s] = Nil})
        count(d) == Cardinality({s \in Server : r.votes[s] = d})
    IN  /\ r.election_quorum <= Cardinality(Server)
        /\ \A d \in Server : count(d) + vote_vac < r.election_quorum

\* A split vote shortens the timeout of the current term.
raft_check_split_vote(r) ==
    IF /\ r.leader = Nil /\ r.is_candidate /\ ~r.is_write_in_progress
       /\ raft_has_split_vote(r)
    THEN raft_sm_wait(r) ELSE r

raft_sm_pause_and_dump(r) ==
    IF r.is_write_in_progress THEN r
    ELSE [r EXCEPT !.timer = FALSE, !.is_write_in_progress = TRUE]

\* Mutant: the new leader does not tell anybody.
raft_sm_become_leader_silently(r) ==
    [r EXCEPT !.state = LEADER, !.leader = r.self, !.timer = FALSE]

raft_sm_become_leader(r) ==
    raft_schedule_broadcast(
        [r EXCEPT !.state = LEADER, !.leader = r.self, !.timer = FALSE])

raft_sm_become_candidate(r) ==
    raft_schedule_broadcast(raft_sm_wait([r EXCEPT !.state = CANDIDATE]))

raft_sm_follow_leader(r, leader) ==
    raft_schedule_broadcast(
        [r EXCEPT !.state = FOLLOWER, !.leader = leader,
                  !.timer = IF ~r.is_write_in_progress /\ r.is_enabled THEN TRUE ELSE @])

\* Mutant: the timer is not started for the new candidate.
raft_start_candidate_without_timer(r) == [r EXCEPT !.is_candidate = TRUE]

raft_start_candidate(r) ==
    LET c == [r EXCEPT !.is_candidate = TRUE]
    IN  IF ~r.is_candidate /\ ~r.is_write_in_progress /\ r.leader_witness_map = {}
        THEN raft_sm_wait(c)
        ELSE c

raft_stop_candidate(r) ==
    IF ~r.is_candidate THEN r
    ELSE raft_schedule_broadcast(
            [r EXCEPT !.is_candidate = FALSE, !.state = FOLLOWER,
                      !.leader = IF r.state = LEADER THEN Nil ELSE @,
                      !.timer = @ /\ (r.state = LEADER \/ raft_is_leader_seen(r))])

raft_restore(r) ==
    IF r.is_cfg_candidate /\ r.is_enabled
    THEN raft_start_candidate(r) ELSE raft_stop_candidate(r)

\* Mutants: one of the resets is forgotten.
raft_sm_schedule_new_term_keeps_votes(r, new_term) ==
    LET reset == [r EXCEPT !.volatile_term = new_term, !.volatile_vote = Nil,
                           !.candidate_vclock = Nil, !.leader = Nil,
                           !.state = FOLLOWER, !.votes[r.self] = Nil,
                           !.leader_witness_map = {}]
    IN  raft_schedule_broadcast(raft_sm_pause_and_dump(raft_restore(reset)))

raft_sm_schedule_new_term_keeps_state(r, new_term) ==
    LET reset == [r EXCEPT !.volatile_term = new_term, !.volatile_vote = Nil,
                           !.candidate_vclock = Nil, !.leader = Nil,
                           !.votes = NoVotes, !.leader_witness_map = {}]
    IN  raft_schedule_broadcast(raft_sm_pause_and_dump(raft_restore(reset)))

raft_sm_schedule_new_term_keeps_witnesses(r, new_term) ==
    LET reset == [r EXCEPT !.volatile_term = new_term, !.volatile_vote = Nil,
                           !.candidate_vclock = Nil, !.leader = Nil,
                           !.state = FOLLOWER, !.votes = NoVotes]
    IN  raft_schedule_broadcast(raft_sm_pause_and_dump(raft_restore(reset)))

raft_sm_schedule_new_term_keeps_promotion(r, new_term) ==
    LET reset == [r EXCEPT !.volatile_term = new_term, !.volatile_vote = Nil,
                           !.candidate_vclock = Nil, !.leader = Nil,
                           !.state = FOLLOWER, !.votes = NoVotes,
                           !.leader_witness_map = {}]
    IN  raft_schedule_broadcast(raft_sm_pause_and_dump(reset))

raft_sm_schedule_new_term(r, new_term) ==
    LET reset == [r EXCEPT !.volatile_term = new_term, !.volatile_vote = Nil,
                           !.candidate_vclock = Nil, !.leader = Nil,
                           !.state = FOLLOWER, !.votes = NoVotes,
                           !.leader_witness_map = {}]
    IN  raft_schedule_broadcast(raft_sm_pause_and_dump(raft_restore(reset)))

raft_sm_schedule_new_vote(r, candidate, vclock) ==
    raft_sm_pause_and_dump(
        raft_add_vote([r EXCEPT !.volatile_vote = candidate, !.candidate_vclock = vclock],
                      r.self, candidate))

raft_sm_try_new_vote(r, candidate, vclock, own) ==
    IF raft_can_vote_for(vclock, own)
    THEN raft_sm_schedule_new_vote(r, candidate, vclock) ELSE r

raft_sm_schedule_new_election(r, own) ==
    raft_sm_schedule_new_vote(
        raft_sm_schedule_new_term(r, r.volatile_term + 1), r.self, own)

raft_sm_election_update(r, own) ==
    IF r.is_cfg_candidate /\ r.leader_witness_map = {}
    THEN raft_sm_schedule_new_election(r, own) ELSE r

raft_sm_election_update_cb(r, own) ==
    LET lost == [r EXCEPT !.timer = FALSE,
                          !.leader_witness_map = @ \ {r.self}]
    IN  raft_sm_election_update(raft_schedule_broadcast(raft_restore(lost)), own)

raft_sm_start(r) ==
    LET on == [r EXCEPT !.is_enabled = TRUE, !.is_candidate = r.is_cfg_candidate]
        waits == /\ ~r.is_write_in_progress
                 /\ \/ raft_is_leader_seen(r)
                    \/ on.is_candidate /\ r.leader_witness_map = {}
    IN  raft_schedule_broadcast(IF waits THEN raft_sm_wait(on) ELSE on)

raft_sm_stop(r) ==
    raft_schedule_broadcast(
        [r EXCEPT !.is_enabled = FALSE, !.is_candidate = FALSE,
                  !.leader = IF r.state = LEADER THEN Nil ELSE @,
                  !.state = FOLLOWER, !.timer = FALSE])
-----------------------------------------------------------------------------
(* Handlers of the events that come from the outside.                      *)

\* Mutant: the vote is not recovered.
raft_process_recovery_without_vote(r, row) ==
    [r EXCEPT !.term = row.term, !.volatile_term = row.term]

raft_process_recovery(r, row) ==
    [r EXCEPT !.term = row.term, !.volatile_term = row.term,
              !.vote = IF row.vote # Nil THEN row.vote ELSE @,
              !.volatile_vote = IF row.vote # Nil THEN row.vote ELSE @]

\* Mutant: the recovered vote is not counted.
raft_cfg_instance_id_without_vote(r) == r

\* Ends recovery: the own vote is counted once the instance id is known.
raft_cfg_instance_id(r) ==
    IF r.volatile_vote # Nil THEN raft_add_vote(r, r.self, r.volatile_vote) ELSE r

raft_notify_is_leader_seen(r, is_leader_seen, source, own) ==
    CASE r.state = LEADER -> r
      [] r.state # LEADER /\ is_leader_seen ->
            [r EXCEPT !.leader_witness_map = @ \union {source}]
      [] r.state # LEADER /\ ~is_leader_seen /\ source \in r.leader_witness_map ->
            raft_sm_election_update([r EXCEPT !.leader_witness_map = @ \ {source}], own)
      [] OTHER -> r

raft_leader_see(r) ==
    LET seen == [r EXCEPT !.leader_witness_map = @ \union {r.self}]
    IN  IF raft_is_leader_seen(r) THEN seen ELSE raft_schedule_broadcast(seen)

\* Mutant: any other term is taken for a new one.
raft_process_any_term(r, term) ==
    IF term # r.volatile_term THEN raft_sm_schedule_new_term(r, term) ELSE r

raft_process_term(r, term) ==
    IF term > r.volatile_term THEN raft_sm_schedule_new_term(r, term) ELSE r

raft_new_term(r) == raft_sm_schedule_new_term(r, r.volatile_term + 1)

\* Mutant: the volatile vote is not taken into account.
raft_process_vote_again(r, req, source, own) ==
    LET counted == IF r.votes[source] # Nil THEN r
                   ELSE raft_check_split_vote(raft_add_vote(r, source, req.vote))
        is_request == /\ r.is_enabled /\ r.leader = Nil /\ req.vote # r.self
                      /\ req.state = CANDIDATE /\ r.vote = Nil
    IN  CASE req.vote = Nil -> r
          [] req.vote # Nil /\ r.state # CANDIDATE /\ is_request ->
                raft_sm_try_new_vote(counted, req.vote, req.vclock, own)
          [] req.vote = r.self /\ r.state = CANDIDATE
                /\ raft_vote_count(counted) >= r.election_quorum ->
                raft_sm_become_leader(counted)
          [] OTHER -> counted

\* The vote of a message: a vote request, a vote response or a notification.
raft_process_vote(r, req, source, own) ==
    LET counted == IF r.votes[source] # Nil THEN r
                   ELSE raft_check_split_vote(raft_add_vote(r, source, req.vote))
        is_request == /\ r.is_enabled /\ r.leader = Nil /\ req.vote # r.self
                      /\ req.state = CANDIDATE /\ r.volatile_vote = Nil
    IN  CASE req.vote = Nil -> r
          [] req.vote # Nil /\ r.state # CANDIDATE /\ is_request ->
                raft_sm_try_new_vote(counted, req.vote, req.vclock, own)
          [] req.vote = r.self /\ r.state = CANDIDATE
                /\ raft_vote_count(counted) >= r.election_quorum ->
                raft_sm_become_leader(counted)
          [] OTHER -> counted

\* The known leader reports that it is not a leader any more.
raft_leader_resigned(r, own) ==
    LET lost == raft_schedule_broadcast(
                    [r EXCEPT !.leader = Nil, !.timer = FALSE,
                              !.leader_witness_map = @ \ {r.self}])
    IN  IF r.is_cfg_candidate THEN raft_sm_schedule_new_election(lost, own) ELSE lost

raft_process_state(r, req, source, own) ==
    CASE req.state # LEADER /\ source = r.leader -> raft_leader_resigned(r, own)
      [] req.state = LEADER /\ r.leader = Nil ->
            raft_sm_follow_leader(raft_leader_see(r), source)
      [] OTHER -> r

raft_process_msg(r, req, source, own) ==
    LET bumped == raft_process_term(r, req.term)
        notified == raft_notify_is_leader_seen(bumped, req.is_leader_seen, source, own)
        voted == raft_process_vote(notified, req, source, own)
    IN  IF req.term < r.volatile_term THEN r
        ELSE raft_process_state(voted, req, source, own)

\* Mutant: a heartbeat is accepted during a write.
raft_is_heartbeat_accepted_in_write(r, source) ==
    r.is_enabled /\ r.state # LEADER /\ r.leader = source

\* A heartbeat that is not ignored by one of the early returns.
raft_is_heartbeat_accepted(r, source) ==
    /\ r.is_enabled /\ r.state # LEADER /\ r.leader = source
    /\ ~r.is_write_in_progress

raft_process_heartbeat(r, source) ==
    IF raft_is_heartbeat_accepted(r, source)
    THEN raft_sm_wait(raft_leader_see(r)) ELSE r

-----------------------------------------------------------------------------
(* The worker: raft_worker_handle_io split at the WAL write, and the       *)
(* message of raft_worker_handle_broadcast.                                *)

\* A vote for another node is dumped only when its vclock is acceptable
\* after the new term was flushed.
raft_is_vote_canceled(r, own) ==
    /\ r.volatile_vote \notin {Nil, r.self, r.vote}
    /\ r.volatile_term = r.term
    /\ ~raft_can_vote_for(r.candidate_vclock, own)

raft_has_dump(r, own) == ~raft_is_fully_on_disk(r) /\ ~raft_is_vote_canceled(r, own)

\* Mutant: the vote is dumped together with the term.
raft_dump_req_at_once(r) == [term |-> r.volatile_term, vote |-> r.volatile_vote]

\* A vote for another node is never dumped together with a new term.
raft_dump_req(r) ==
    [term |-> r.volatile_term,
     vote |-> IF r.volatile_vote = r.self \/ r.volatile_term = r.term
              THEN r.volatile_vote ELSE Nil]

\* Mutants: the own vote is enough to win; the write is not marked as ended.
raft_end_dump_with_victory(r, own) ==
    LET done == [r EXCEPT !.is_write_in_progress = FALSE]
        watches == raft_is_leader_seen(r) /\ r.is_enabled
    IN  CASE watches -> raft_sm_wait(done)
          [] ~watches /\ ~r.is_candidate -> done
          [] ~watches /\ r.is_candidate /\ r.vote = r.self -> raft_sm_become_leader(done)
          [] ~watches /\ r.is_candidate /\ r.vote \notin {r.self, Nil} -> raft_sm_wait(done)
          [] ~watches /\ r.is_candidate /\ r.vote = Nil ->
                raft_sm_schedule_new_vote(done, r.self, own)

raft_end_dump_never(r, own) == IF r.is_candidate THEN raft_sm_become_candidate(r) ELSE r

raft_end_dump(r, own) ==
    LET done == [r EXCEPT !.is_write_in_progress = FALSE]
        watches == raft_is_leader_seen(r) /\ r.is_enabled
    IN  CASE watches -> raft_sm_wait(done)
          [] ~watches /\ ~r.is_candidate -> done
          [] ~watches /\ r.is_candidate /\ r.vote = r.self ->
                IF r.election_quorum = 1
                THEN raft_sm_become_leader(done) ELSE raft_sm_become_candidate(done)
          [] ~watches /\ r.is_candidate /\ r.vote \notin {r.self, Nil} -> raft_sm_wait(done)
          [] ~watches /\ r.is_candidate /\ r.vote = Nil ->
                raft_sm_schedule_new_vote(done, r.self, own)

\* raft_worker_handle_io when there is nothing to write.
raft_handle_io_no_dump(r, own) ==
    raft_end_dump(IF raft_is_vote_canceled(r, own) THEN raft_revoke_vote(r) ELSE r, own)

\* Mutant: the end of the write is not postponed until all is on disk.
raft_handle_io_dumped_early(r, req, own) ==
    raft_end_dump(raft_schedule_broadcast([r EXCEPT !.term = req.term, !.vote = req.vote]), own)

\* raft_worker_handle_io after raft_write() has returned.
raft_handle_io_dumped(r, req, own) ==
    LET persisted == raft_schedule_broadcast([r EXCEPT !.term = req.term, !.vote = req.vote])
    IN  IF raft_is_fully_on_disk(persisted)
        THEN raft_end_dump(persisted, own) ELSE persisted

\* Mutant: the volatile state is sent.
raft_checkpoint_volatile(r, own) ==
    [term |-> r.volatile_term, vote |-> r.volatile_vote, leader_id |-> r.leader,
     is_leader_seen |-> raft_is_leader_seen(r), state |-> r.state,
     vclock |-> IF r.state = CANDIDATE THEN own ELSE Nil]

raft_checkpoint_remote(r, own) ==
    [term |-> r.term, vote |-> r.vote, leader_id |-> r.leader,
     is_leader_seen |-> raft_is_leader_seen(r), state |-> r.state,
     vclock |-> IF r.state = CANDIDATE THEN own ELSE Nil]

raft_checkpoint_local(r) == [term |-> r.term, vote |-> r.vote]

-----------------------------------------------------------------------------
(* Configuration and the calls of the administrator.                       *)

raft_cfg_is_enabled(r, is_enabled) ==
    CASE is_enabled = r.is_enabled -> r
      [] is_enabled /\ ~r.is_enabled -> raft_sm_start(r)
      [] ~is_enabled /\ r.is_enabled -> raft_sm_stop(r)

raft_cfg_is_candidate_later(r, is_candidate) == [r EXCEPT !.is_cfg_candidate = is_candidate]

raft_cfg_is_candidate(r, is_candidate) ==
    raft_restore(raft_cfg_is_candidate_later(r, is_candidate))

raft_promote(r, own) ==
    IF ~r.is_enabled THEN r
    ELSE raft_sm_schedule_new_vote(
            raft_start_candidate(raft_sm_schedule_new_term(r, r.volatile_term + 1)),
            r.self, own)

raft_resign(r) == raft_stop_candidate(r)

raft_cfg_election_quorum(r, quorum) ==
    LET cfg == [r EXCEPT !.election_quorum = quorum]
    IN  IF r.state = CANDIDATE /\ raft_vote_count(r) >= quorum
        THEN raft_sm_become_leader(cfg) ELSE raft_check_split_vote(cfg)

\* A changed timeout restarts the timer that waits for that timeout.
raft_cfg_election_timeout(r) ==
    IF r.vote # Nil /\ r.leader = Nil /\ r.is_candidate /\ ~r.is_write_in_progress
    THEN raft_sm_wait(r) ELSE r

raft_cfg_death_timeout(r) ==
    IF r.state = FOLLOWER /\ raft_is_leader_seen(r) THEN raft_sm_wait(r) ELSE r
=============================================================================
