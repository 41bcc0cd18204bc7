------------------------ MODULE BoxRaftHandlerProofs ------------------------
(***************************************************************************)
(* The invariant of BoxRaftProofs, and the actions of BoxRaft that only    *)
(* run a handler of the state machine of one instance: they do what        *)
(* RaftNodeProofs says of the handler, and keep the types of the rest.     *)
(***************************************************************************)
EXTENDS BoxRaft, RaftNodeProofs, SequenceTheorems, FiniteSetTheorems

USE BoxRaftAssumption

\* The types of the variables that are neither raft nor history.
RestType ==
    /\ box \in [Server -> Box]
    /\ worker \in [Server -> Location]
    /\ dump \in [Server -> Row \union {Nil}]
    /\ wal \in [Server -> Seq(Entry)]
    /\ vclock \in [Server -> Vclock]
    /\ disk \in [Server -> Row]
    /\ snap \in [Server -> Row \union {Nil}]
    /\ net \in [Server -> [Server -> Seq(Msg)]]
    /\ slot \in [Server -> [Server -> Msg \union {Nil}]]
    /\ ack \in [Server -> [Server -> Nat]]
    /\ applier \in [Server -> [Server -> {"off", "sync", "follow"}]]
    /\ relay \in [Server -> SUBSET Server]
    /\ budget \in [Events -> Nat]

\* What an instance has on disk, in its memory and on the way to the disk is
\* in that order.
NodeOK(i) ==
    /\ raft[i].self = i /\ Kept(raft[i]) /\ Counted(raft[i])
    /\ worker[i] \in {"write", "written"} => dump[i] \in Row /\ KeptRow(raft[i], dump[i])

\* The inductive invariant for the types, the own vote and the terms.
TermInv == TypeOK /\ \A i \in Server : NodeOK(i)

-----------------------------------------------------------------------------
(* The glue of src/src/box/raft.c.                                         *)

\* box_raft_fence, box_raft_notify_have_quorum.
LEMMA NotifyQuorumSame ==
    ASSUME NEW r \in Raft, NEW b \in Box, NEW has \in BOOLEAN
    PROVE  Same(r, box_raft_fence(r, b)) /\ Same(r, box_raft_notify_have_quorum(r, b, has))
<1>1. Same(r, r)
  BY DEF Same
<1>2. Same(r, box_raft_fence(r, b))
  BY <1>1, TimeoutSame DEF box_raft_fence
<1>3. Same(r, raft_cfg_is_candidate_later(box_raft_fence(r, b), FALSE))
  <2> DEFINE f == box_raft_fence(r, b)
  <2>1. f \in Raft
    BY <1>2 DEF Same
  <2> HIDE DEF f
  <2>2. Same(f, raft_cfg_is_candidate_later(f, FALSE))
    BY <2>1, CfgSame, Zenon
  <2> QED
    BY <1>2, <2>2, SameTransitive, Zenon DEF f
<1>4. box_raft_notify_have_quorum(r, b, has) \in
        {r, box_raft_fence(r, b), raft_cfg_is_candidate(r, TRUE), raft_cfg_is_candidate(r, FALSE),
         raft_cfg_is_candidate_later(box_raft_fence(r, b), FALSE)}
  BY DEF box_raft_notify_have_quorum
<1> QED
  BY <1>1, <1>2, <1>3, <1>4, CfgSame, Zenon

\* box_raft_cfg_election_mode.
LEMMA CfgElectionModeSame ==
    ASSUME NEW r \in Raft, NEW mode \in {"off", "voter", "manual", "candidate"},
           NEW has \in BOOLEAN
    PROVE  Same(r, box_raft_cfg_election_mode(r, mode, has))
<1> DEFINE cfg == CASE mode \in {"off", "voter"} -> raft_cfg_is_candidate(r, FALSE)
                    [] mode = "manual" /\ r.state \in {LEADER, CANDIDATE} ->
                           raft_cfg_is_candidate_later(r, FALSE)
                    [] mode = "manual" /\ r.state = FOLLOWER -> raft_cfg_is_candidate(r, FALSE)
                    [] mode = "candidate" /\ has -> raft_cfg_is_candidate(r, TRUE)
                    [] mode = "candidate" /\ ~has -> r
<1>1. Same(r, r) /\ r.state \in {LEADER, CANDIDATE, FOLLOWER}
  BY DEF Same, Raft, RaftState
<1>2. cfg \in {r, raft_cfg_is_candidate(r, TRUE), raft_cfg_is_candidate(r, FALSE),
               raft_cfg_is_candidate_later(r, FALSE)}
  BY <1>1, Zenon
<1>3. box_raft_cfg_election_mode(r, mode, has) = raft_cfg_is_enabled(cfg, mode # "off")
  BY DEF box_raft_cfg_election_mode
<1> HIDE DEF cfg
<1>4. Same(r, cfg)
  BY <1>1, <1>2, CfgSame, Zenon
<1>5. Same(cfg, raft_cfg_is_enabled(cfg, mode # "off"))
  BY <1>4, CfgSame, Zenon DEF Same
<1> QED
  BY <1>3, <1>4, <1>5, SameTransitive

\* replicaset_on_health_change.
LEMMA HealthSame ==
    ASSUME NEW i \in Server, NEW r \in Raft, NEW b \in Box, NEW ap, NEW rel
    PROVE  LET health == replicaset_on_health_change(i, r, b, ap, rel)
           IN  Same(r, health.raft) /\ health.box \in Box
<1> DEFINE has == replicaset_has_healthy_quorum(ap, rel, i, r)
           f == b.fencing_paused /\ ~(has /\ b.mode \in {"manual", "candidate"})
           n == box_raft_fencing_resume(b, has)
<1>1. has \in BOOLEAN /\ f \in BOOLEAN
  BY DEF replicaset_has_healthy_quorum, Box
<1>2. n = [b EXCEPT !.fencing_paused = f]
  BY DEF box_raft_fencing_resume
<1> HIDE DEF f
<1>3. n \in Box
  BY <1>1, <1>2 DEF Box
<1> HIDE DEF has, n
<1>4. Same(r, box_raft_notify_have_quorum(r, n, has))
  BY <1>1, <1>3, NotifyQuorumSame
<1> QED
  BY <1>3, <1>4 DEF replicaset_on_health_change, has, n

-----------------------------------------------------------------------------
(* Steps of the state machine of one instance.                             *)

\* A handler of instance i.
RaftStep(i) == \E n \in Raft : Follows(raft[i], n) /\ raft' = [raft EXCEPT ![i] = n]

\* The places of the worker where it has nothing in the WAL queue.
Active == {"idle", "broadcast", "qsync", "loop"}

\* A handler that leaves the disk alone, also one of the worker.
Handled(i) ==
    /\ RaftStep(i)
    /\ \/ worker' = worker
       \/ worker[i] \in Active /\ \E l \in Active : worker' = [worker EXCEPT ![i] = l]
    /\ UNCHANGED <<dump, wal, disk, snap>>

\* An assignment of the state machine.
LEMMA SetRaftStep ==
    ASSUME TypeOK, NEW i \in Server, NEW n, SetRaft(i, n),
           Follows(raft[i], n) \/ Same(raft[i], n)
    PROVE  RaftStep(i)
<1>1. raft[i] \in Raft
  BY DEF TypeOK
<1>2. Follows(raft[i], n)
  BY <1>1, SameFollows
<1> QED
  BY <1>2, Zenon DEF RaftStep, SetRaft, Follows

\* No assignment.
LEMMA NoRaftStep ==
    ASSUME TypeOK, NEW i \in Server, UNCHANGED raft
    PROVE  RaftStep(i)
<1>1. raft[i] \in Raft /\ raft' = [raft EXCEPT ![i] = raft[i]]
  BY DEF TypeOK
<1>2. Follows(raft[i], raft[i])
  BY <1>1 DEF Follows, Raft, Term
<1> QED
  BY <1>1, <1>2, Zenon DEF RaftStep

\* UpdateHealth.
LEMMA UpdateHealthStep ==
    ASSUME TypeOK, NEW i \in Server, NEW ap, NEW rel, NEW healthy,
           UpdateHealth(i, ap, rel, healthy)
    PROVE  RaftStep(i) /\ box' \in [Server -> Box]
<1> DEFINE health == replicaset_on_health_change(i, raft[i], box[i], ap, rel)
<1>1. raft[i] \in Raft /\ box[i] \in Box /\ box \in [Server -> Box]
  BY DEF TypeOK
<1>2. Same(raft[i], health.raft) /\ health.box \in Box
  BY <1>1, HealthSame
<1> HIDE DEF health
<1>3. CASE healthy
  <2>1. SetRaft(i, health.raft) /\ box' = [box EXCEPT ![i] = health.box]
    BY <1>3 DEF UpdateHealth, health
  <2> QED
    BY <1>1, <1>2, <2>1, SetRaftStep
<1>4. CASE ~healthy
  BY <1>1, <1>4, NoRaftStep DEF UpdateHealth
<1> QED
  BY <1>3, <1>4

-----------------------------------------------------------------------------
(* Steps of the worker.                                                    *)

\* relay_push_raft keeps a queue of messages.
LEMMA PushType ==
    ASSUME NEW queue \in Seq(Msg), NEW msg \in Msg
    PROVE  relay_push_raft(queue, msg) \in Seq(Msg)
<1>1. CASE Len(queue) < MaxInFlight
  BY <1>1, AppendProperties DEF relay_push_raft
<1>2. CASE ~(Len(queue) < MaxInFlight)
  <2>1. Len(queue) \in Nat /\ Len(queue) \in 1..Len(queue)
    BY <1>2, LenProperties
  <2> QED
    BY <1>2, <2>1, ExceptSeq DEF relay_push_raft
<1> QED
  BY <1>1, <1>2

\* box_raft_broadcast.
LEMMA BroadcastType ==
    ASSUME RestType, NEW i \in Server, NEW msg \in Msg, box_raft_broadcast(i, msg)
    PROVE  /\ net' \in [Server -> [Server -> Seq(Msg)]]
           /\ slot' \in [Server -> [Server -> Msg \union {Nil}]]
<1> DEFINE q == [j \in Server |->
                    IF j \in relay[i] THEN relay_push_raft(net[i][j], msg) ELSE net[i][j]]
           s == [j \in Server |-> IF j \in Peers(i) \ relay[i] THEN msg ELSE slot[i][j]]
<1>1. \A j \in Server : net[i][j] \in Seq(Msg) /\ slot[i][j] \in Msg \union {Nil}
  BY DEF RestType
<1>2. \A j \in Server : relay_push_raft(net[i][j], msg) \in Seq(Msg)
  BY <1>1, PushType
<1>3. q \in [Server -> Seq(Msg)] /\ s \in [Server -> Msg \union {Nil}]
  BY <1>1, <1>2
<1>4. net' = [net EXCEPT ![i] = q] /\ slot' = [slot EXCEPT ![i] = s]
  BY DEF box_raft_broadcast
<1> HIDE DEF q, s
<1> QED
  BY <1>3, <1>4 DEF RestType

\* Spend.
LEMMA SpendType ==
    ASSUME RestType, NEW event \in Events, Spend(event)
    PROVE  budget' \in [Events -> Nat]
  BY DEF RestType, Spend

\* The end of an iteration of raft_process_async.
LEMMA EndIterationStep ==
    ASSUME RestType, NEW i \in Server, NEW r \in Raft, WorkerEndIteration(i, r)
    PROVE  /\ \E n \in Raft : Same(r, n) /\ raft' = [raft EXCEPT ![i] = n]
           /\ \E l \in Active : worker' = [worker EXCEPT ![i] = l]
           /\ net' \in [Server -> [Server -> Seq(Msg)]]
           /\ slot' \in [Server -> [Server -> Msg \union {Nil}]]
           /\ budget' \in [Events -> Nat]
<1> DEFINE off == [r EXCEPT !.is_broadcast_scheduled = FALSE]
<1>1. Same(r, r) /\ Same(r, off) /\ off \in Raft
  BY Zenon DEF Same, Raft
<1> HIDE DEF off
<1>2. raft' = [raft EXCEPT ![i] = r] \/ raft' = [raft EXCEPT ![i] = off]
  BY DEF WorkerEndIteration, SetRaft, off
<1>3. \E l \in Active : worker' = [worker EXCEPT ![i] = l]
  BY DEF WorkerEndIteration, Active
<1>4. /\ net' \in [Server -> [Server -> Seq(Msg)]]
      /\ slot' \in [Server -> [Server -> Msg \union {Nil}]]
  <2>1. raft_checkpoint_remote(r, vclock[i]) \in Msg
    BY CheckpointType DEF RestType
  <2>2. CASE r.is_broadcast_scheduled
    BY <2>1, <2>2, BroadcastType DEF WorkerEndIteration
  <2>3. CASE ~r.is_broadcast_scheduled
    BY <2>3 DEF WorkerEndIteration, RestType
  <2> QED
    BY <2>2, <2>3
<1>5. budget' \in [Events -> Nat]
  <2>1. Spend("yield") \/ budget' = budget
    BY DEF WorkerEndIteration
  <2> QED
    BY <2>1, SpendType DEF Events, RestType
<1> QED
  BY <1>1, <1>2, <1>3, <1>4, <1>5, Zenon

-----------------------------------------------------------------------------
(* The actions that only run a handler.                                    *)

\* The types in the current state, one by one.
LEMMA TypesOf ==
    ASSUME TypeOK, NEW i \in Server
    PROVE  /\ RestType /\ raft \in [Server -> Raft] /\ raft[i] \in Raft
           /\ vclock[i] \in Vclock /\ box[i] \in Box /\ disk[i] \in Row
  BY DEF TypeOK, RestType

\* WorkerBroadcasted, WorkerQsync and WorkerQsyncDone: the worker goes on.
LEMMA WorkerGoesOn ==
    ASSUME TypeOK, NEW i \in Server,
           WorkerBroadcasted(i) \/ WorkerQsync(i) \/ WorkerQsyncDone(i)
    PROVE  Handled(i) /\ RestType'
<1>0. RestType /\ raft[i] \in Raft
  BY TypesOf
<1>1. CASE WorkerBroadcasted(i)
  <2> DEFINE n == [raft[i] EXCEPT !.is_broadcast_scheduled = FALSE]
  <2>1. Same(raft[i], n)
    BY <1>0, Zenon DEF Same, Raft
  <2>2. SetRaft(i, n)
    BY <1>1 DEF WorkerBroadcasted
  <2> HIDE DEF n
  <2>3. RaftStep(i)
    BY <2>1, <2>2, SetRaftStep
  <2>4. worker[i] \in Active /\ \E l \in Active : worker' = [worker EXCEPT ![i] = l]
    BY <1>1, Zenon DEF WorkerBroadcasted, Active
  <2>5. worker' \in [Server -> Location]
    BY <1>0, <2>4 DEF RestType, Active, Location
  <2> QED
    BY <1>0, <1>1, <2>3, <2>4, <2>5, Zenon
       DEF WorkerBroadcasted, Handled, RestType, diskVars, linkVars
<1>2. CASE WorkerQsync(i)
  <2>1. RaftStep(i)
    BY <1>2, NoRaftStep DEF WorkerQsync
  <2>2. worker[i] \in Active /\ worker' = [worker EXCEPT ![i] = "qsync"] /\ "qsync" \in Active
    BY <1>2 DEF WorkerQsync, Active
  <2>3. worker' \in [Server -> Location]
    BY <1>0, <2>2 DEF RestType, Location
  <2>4. budget' \in [Events -> Nat]
    BY <1>0, <1>2, SpendType DEF WorkerQsync, Events
  <2> QED
    BY <1>0, <1>2, <2>1, <2>2, <2>3, <2>4, Zenon
       DEF WorkerQsync, Handled, RestType, diskVars, linkVars
<1>3. CASE WorkerQsyncDone(i)
  <2>1. RaftStep(i)
    BY <1>3, NoRaftStep DEF WorkerQsyncDone
  <2>2. worker[i] \in Active /\ worker' = [worker EXCEPT ![i] = "idle"] /\ "idle" \in Active
    BY <1>3 DEF WorkerQsyncDone, Active
  <2>3. worker' \in [Server -> Location]
    BY <1>0, <2>2 DEF RestType, Location
  <2> QED
    BY <1>0, <1>3, <2>1, <2>2, <2>3, Zenon
       DEF WorkerQsyncDone, Handled, RestType, diskVars, linkVars
<1> QED
  BY <1>1, <1>2, <1>3

\* The timer, box_raft_try_promote and box_trigger_elections.
LEMMA ElectionHandled ==
    ASSUME TypeOK, NEW i \in Server,
           Timer(i) \/ Promote(i) \/ PromoteEnd(i) \/ TriggerElections(i)
    PROVE  Handled(i) /\ RestType'
<1>0. RestType /\ raft[i] \in Raft /\ vclock[i] \in Vclock /\ box[i] \in Box
  BY TypesOf
<1>1. CASE Timer(i)
  <2>1. RaftStep(i)
    BY <1>0, <1>1, TimerFollows, SetRaftStep DEF Timer
  <2> QED
    BY <1>0, <1>1, <2>1 DEF Timer, Handled, RestType, diskVars, linkVars
<1>2. CASE Promote(i)
  <2>1. RaftStep(i)
    BY <1>0, <1>2, PromoteFollows, SetRaftStep DEF Promote
  <2>2. [box[i] EXCEPT !.promotes = box[i].promotes + 1] \in Box
    BY <1>0 DEF Box
  <2>3. box' \in [Server -> Box]
    BY <1>0, <1>2, <2>2 DEF Promote, RestType
  <2>4. budget' \in [Events -> Nat]
    BY <1>0, <1>2, SpendType DEF Promote, Events
  <2> QED
    BY <1>0, <1>2, <2>1, <2>3, <2>4 DEF Promote, Handled, RestType, diskVars, linkVars
<1>3. CASE PromoteEnd(i)
  <2>1. Same(raft[i], raft[i]) /\ Same(raft[i], raft_restore(raft[i]))
    BY <1>0, RestoreSame DEF Same
  <2>2. RaftStep(i)
    BY <1>3, <2>1, SetRaftStep DEF PromoteEnd
  <2>3. [box[i] EXCEPT !.promotes = box[i].promotes - 1] \in Box
    BY <1>0, <1>3 DEF Box, PromoteEnd
  <2>4. box' \in [Server -> Box]
    BY <1>0, <1>3, <2>3 DEF PromoteEnd, RestType
  <2> QED
    BY <1>0, <1>3, <2>2, <2>4 DEF PromoteEnd, Handled, RestType, diskVars, linkVars
<1>4. CASE TriggerElections(i)
  <2>1. RaftStep(i)
    BY <1>0, <1>4, ProcessTermFollows, SetRaftStep DEF TriggerElections
  <2>2. budget' \in [Events -> Nat]
    BY <1>0, <1>4, SpendType DEF TriggerElections, Events
  <2> QED
    BY <1>0, <1>4, <2>1, <2>2 DEF TriggerElections, Handled, RestType, diskVars, linkVars
<1> QED
  BY <1>1, <1>2, <1>3, <1>4

\* box.cfg: the mode, the quorum, fencing and the timeouts.
LEMMA CfgHandled ==
    ASSUME TypeOK, NEW i \in Server, NEW mode \in Modes, NEW quorum \in Quorums,
           CfgElectionMode(i, mode) \/ CfgQuorum(i, quorum) \/ CfgFencing(i) \/ CfgTimeout(i)
    PROVE  Handled(i) /\ RestType'
<1>0. RestType /\ raft[i] \in Raft /\ vclock[i] \in Vclock /\ box[i] \in Box
  BY TypesOf
<1>1. CASE CfgElectionMode(i, mode)
  <2> DEFINE has == replicaset_has_healthy_quorum(applier, relay, i, raft[i])
  <2>1. has \in BOOLEAN /\ mode \in {"off", "voter", "manual", "candidate"}
    BY DEF replicaset_has_healthy_quorum
  <2>2. SetRaft(i, box_raft_cfg_election_mode(raft[i], mode, has))
    BY <1>1 DEF CfgElectionMode
  <2> HIDE DEF has
  <2>3. RaftStep(i)
    BY <1>0, <2>1, <2>2, CfgElectionModeSame, SetRaftStep
  <2>4. [box[i] EXCEPT !.mode = mode] \in Box
    BY <1>0, <2>1 DEF Box
  <2>5. box' \in [Server -> Box]
    BY <1>0, <1>1, <2>4 DEF CfgElectionMode, RestType
  <2>6. budget' \in [Events -> Nat]
    BY <1>0, <1>1, SpendType DEF CfgElectionMode, Events
  <2> QED
    BY <1>0, <1>1, <2>3, <2>5, <2>6
       DEF CfgElectionMode, Handled, RestType, diskVars, linkVars
<1>2. CASE CfgQuorum(i, quorum)
  <2> DEFINE pauses == /\ quorum > raft[i].election_quorum
                       /\ healthy_count(applier, relay, i) < quorum
             f == box[i].fencing_paused \/ pauses
             b == [box[i] EXCEPT !.fencing_paused = f]
             r == raft_cfg_election_quorum(raft[i], quorum)
             health == replicaset_on_health_change(i, r, b, applier, relay)
  <2>1. SetRaft(i, health.raft) /\ box' = [box EXCEPT ![i] = health.box]
    BY <1>2 DEF CfgQuorum
  <2>2. f \in BOOLEAN
    BY <1>0 DEF Box
  <2> HIDE DEF f
  <2>3. b \in Box
    BY <1>0, <2>2 DEF Box
  <2>4. quorum \in Nat \ {0}
    BY FS_CardinalityType
  <2>5. Same(raft[i], r)
    BY <1>0, <2>4, CfgQuorumSame
  <2> HIDE DEF b, r
  <2>6. Same(r, health.raft) /\ health.box \in Box
    BY <2>3, <2>5, HealthSame DEF Same
  <2> HIDE DEF health
  <2>7. RaftStep(i)
    BY <1>0, <2>1, <2>5, <2>6, SameTransitive, SetRaftStep
  <2>8. box' \in [Server -> Box]
    BY <1>0, <2>1, <2>6 DEF RestType
  <2>9. budget' \in [Events -> Nat]
    BY <1>0, <1>2, SpendType DEF CfgQuorum, Events
  <2> QED
    BY <1>0, <1>2, <2>7, <2>8, <2>9 DEF CfgQuorum, Handled, RestType, diskVars, linkVars
<1>3. CASE CfgFencing(i)
  <2> DEFINE b == [box[i] EXCEPT !.fencing = ~box[i].fencing]
             health == replicaset_on_health_change(i, raft[i], b, applier, relay)
  <2>1. SetRaft(i, health.raft) /\ box' = [box EXCEPT ![i] = health.box]
    BY <1>3 DEF CfgFencing
  <2>2. b \in Box
    BY <1>0, Zenon DEF Box
  <2> HIDE DEF b
  <2>3. Same(raft[i], health.raft) /\ health.box \in Box
    BY <1>0, <2>2, HealthSame
  <2> HIDE DEF health
  <2>4. RaftStep(i)
    BY <2>1, <2>3, SetRaftStep
  <2>5. box' \in [Server -> Box]
    BY <1>0, <2>1, <2>3 DEF RestType
  <2>6. budget' \in [Events -> Nat]
    BY <1>0, <1>3, SpendType DEF CfgFencing, Events
  <2> QED
    BY <1>0, <1>3, <2>4, <2>5, <2>6 DEF CfgFencing, Handled, RestType, diskVars, linkVars
<1>4. CASE CfgTimeout(i)
  <2>1. RaftStep(i)
    BY <1>0, <1>4, TimeoutSame, SetRaftStep DEF CfgTimeout
  <2>2. budget' \in [Events -> Nat]
    BY <1>0, <1>4, SpendType DEF CfgTimeout, Events
  <2> QED
    BY <1>0, <1>4, <2>1, <2>2 DEF CfgTimeout, Handled, RestType, diskVars, linkVars
<1> QED
  BY <1>1, <1>2, <1>3, <1>4

\* Messages, heartbeats and ACKs.
LEMMA MessageHandled ==
    ASSUME TermInv, NEW i \in Server, NEW j \in Peers(i),
           Deliver(i, j) \/ Heartbeat(i, j) \/ SignalAck(i, j) \/ ProcessAck(i, j)
    PROVE  Handled(i) /\ RestType'
<1>0. /\ TypeOK /\ RestType /\ raft[i] \in Raft /\ vclock[i] \in Vclock
      /\ j \in Server /\ j # i /\ raft[i].self = i
  BY TypesOf DEF TermInv, NodeOK, Peers
<1>1. CASE Deliver(i, j)
  <2> DEFINE heard == raft_process_heartbeat(raft[i], j)
             n == raft_process_msg(heard, Head(net[j][i]), j, vclock[i])
  <2>1. net[j][i] # <<>>
    BY <1>1 DEF Deliver
  <2>2. Head(net[j][i]) \in Msg /\ Tail(net[j][i]) \in Seq(Msg)
    <3>1. net[j][i] \in Seq(Msg)
      BY <1>0 DEF RestType
    <3> QED
      BY <2>1, <3>1, HeadTailProperties
  <2>3. Same(raft[i], heard)
    BY <1>0, HeartbeatSame
  <2> HIDE DEF heard
  <2>4. heard \in Raft /\ heard.self = i
    BY <1>0, <2>3 DEF Same
  <2>5. Follows(heard, n)
    BY <1>0, <2>2, <2>4, ProcessMsgFollows
  <2> HIDE DEF n
  <2>6. Follows(raft[i], n)
    BY <1>0, <2>3, <2>5, SameFollows, FollowsTransitive
  <2>7. SetRaft(i, n)
    BY <1>1 DEF Deliver, heard, n
  <2>8. RaftStep(i)
    BY <1>0, <2>6, <2>7, SetRaftStep
  <2>9. net' \in [Server -> [Server -> Seq(Msg)]]
    BY <1>0, <1>1, <2>2, Zenon DEF Deliver, RestType
  <2> QED
    BY <1>0, <1>1, <2>8, <2>9, Zenon DEF Deliver, Handled, RestType, diskVars
<1>2. CASE Heartbeat(i, j)
  <2>1. RaftStep(i)
    BY <1>0, <1>2, HeartbeatSame, SetRaftStep, Zenon DEF Heartbeat
  <2> QED
    BY <1>0, <1>2, <2>1, Zenon DEF Heartbeat, Handled, RestType, diskVars, linkVars
<1>3. CASE SignalAck(i, j)
  <2>1. RaftStep(i)
    BY <1>0, <1>3, NoRaftStep DEF SignalAck, nodeVars
  <2>2. budget' \in [Events -> Nat]
    BY <1>0, <1>3, SpendType DEF SignalAck, Events
  <2>3. raft[i].term \in Nat
    BY <1>0 DEF Raft, Term
  <2>4. ack' \in [Server -> [Server -> Nat]]
    BY <1>0, <1>3, <2>3, Zenon DEF SignalAck, RestType
  <2> QED
    BY <1>0, <1>3, <2>1, <2>2, <2>4 DEF SignalAck, Handled, RestType, diskVars, nodeVars
<1>4. CASE ProcessAck(i, j)
  <2>1. ack[j][i] \in Nat
    <3>1. ack \in [Server -> [Server -> Nat]]
      BY <1>0, Zenon DEF RestType
    <3> QED
      BY <1>0, <3>1, Zenon
  <2>2. RaftStep(i)
    BY <1>0, <1>4, <2>1, ProcessTermFollows, SetRaftStep DEF ProcessAck
  <2>3. ack' \in [Server -> [Server -> Nat]]
    BY <1>0, <1>4, Zenon DEF ProcessAck, RestType
  <2> QED
    BY <1>0, <1>4, <2>2, <2>3, Zenon DEF ProcessAck, Handled, RestType, diskVars
<1> QED
  BY <1>1, <1>2, <1>3, <1>4

\* Connections: the instance whose relay starts handles a change of health.
LEMMA SubscribeHandled ==
    ASSUME TypeOK, NEW i \in Server, NEW j \in Peers(i), Subscribe(i, j)
    PROVE  Handled(j) /\ RestType'
<1> DEFINE rel == [relay EXCEPT ![j] = @ \union {i}]
           state == raft_checkpoint_remote(raft[j], vclock[j])
           q == IF slot[j][i] = Nil THEN <<state>> ELSE <<state, slot[j][i]>>
<1>0. /\ RestType /\ j \in Server /\ raft[j] \in Raft /\ vclock[j] \in Vclock
  BY TypesOf DEF Peers
<1>1. RaftStep(j) /\ box' \in [Server -> Box]
  BY <1>0, UpdateHealthStep DEF Subscribe
<1>2. q \in Seq(Msg)
  <2>1. state \in Msg
    BY <1>0, CheckpointType
  <2>2. slot[j][i] \in Msg \union {Nil}
    BY <1>0 DEF RestType
  <2> HIDE DEF state
  <2> QED
    BY <2>1, <2>2
<1> HIDE DEF q
<1>3. net' \in [Server -> [Server -> Seq(Msg)]]
  <2>1. net' = [net EXCEPT ![j][i] = q]
    BY DEF Subscribe, q
  <2> QED
    BY <1>0, <1>2, <2>1 DEF RestType
<1>4. /\ slot' \in [Server -> [Server -> Msg \union {Nil}]]
      /\ applier' \in [Server -> [Server -> {"off", "sync", "follow"}]]
  BY <1>0 DEF Subscribe, RestType
<1>5. relay' \in [Server -> SUBSET Server]
  BY <1>0, Zenon DEF Subscribe, RestType
<1> QED
  BY <1>0, <1>1, <1>3, <1>4, <1>5, Zenon DEF Subscribe, Handled, RestType, diskVars

\* The other changes of a connection.
LEMMA ConnectionHandled ==
    ASSUME TypeOK, NEW i \in Server, NEW j \in Peers(i), NEW n,
           ApplierFollow(i, j) \/ ApplierStop(i, j) \/ RelayStop(i, j, n)
    PROVE  Handled(i) /\ RestType'
<1>0. /\ RestType /\ j \in Server /\ raft[i] \in Raft /\ vclock[i] \in Vclock /\ box[i] \in Box
  BY TypesOf DEF Peers
<1>1. CASE ApplierFollow(i, j)
  <2>1. RaftStep(i) /\ box' \in [Server -> Box]
    BY <1>0, <1>1, UpdateHealthStep DEF ApplierFollow
  <2>2. applier' \in [Server -> [Server -> {"off", "sync", "follow"}]]
    BY <1>0, <1>1 DEF ApplierFollow, RestType
  <2> QED
    BY <1>0, <1>1, <2>1, <2>2 DEF ApplierFollow, Handled, RestType, diskVars
<1>2. CASE ApplierStop(i, j)
  <2> DEFINE ap == [applier EXCEPT ![i][j] = "off"]
             health == replicaset_on_health_change(i, raft[i], box[i], ap, relay)
             m == raft_notify_is_leader_seen(health.raft, FALSE, j, vclock[i])
  <2>1. Same(raft[i], health.raft) /\ health.box \in Box
    BY <1>0, HealthSame
  <2>2. \/ SetRaft(i, m) /\ box' = [box EXCEPT ![i] = health.box]
        \/ UNCHANGED <<raft, box>>
    BY <1>2, Zenon DEF ApplierStop
  <2> HIDE DEF health
  <2>3. Follows(health.raft, m)
    BY <1>0, <2>1, NotifyFollows, Zenon DEF Same
  <2> HIDE DEF m
  <2>4. Follows(raft[i], m)
    BY <1>0, <2>1, <2>3, SameFollows, FollowsTransitive
  <2>5. RaftStep(i)
    BY <1>0, <2>2, <2>4, SetRaftStep, NoRaftStep
  <2>6. box' \in [Server -> Box]
    BY <1>0, <2>1, <2>2, Zenon DEF RestType
  <2>7. budget' \in [Events -> Nat]
    <3>1. budget' = budget \/ Spend("link")
      BY <1>2 DEF ApplierStop
    <3> QED
      BY <1>0, <3>1, SpendType, Zenon DEF RestType, Events
  <2>8. net' \in [Server -> [Server -> Seq(Msg)]] /\ ack' \in [Server -> [Server -> Nat]]
    <3>1. net' = [net EXCEPT ![j][i] = <<>>] /\ ack' = [ack EXCEPT ![i][j] = 0]
      BY <1>2 DEF ApplierStop
    <3>2. net \in [Server -> [Server -> Seq(Msg)]] /\ ack \in [Server -> [Server -> Nat]]
      BY <1>0 DEF RestType
    <3>3. [net[j] EXCEPT ![i] = <<>>] \in [Server -> Seq(Msg)]
      BY <1>0, <3>2
    <3>4. [ack[i] EXCEPT ![j] = 0] \in [Server -> Nat]
      BY <1>0, <3>2
    <3> QED
      BY <1>0, <3>1, <3>2, <3>3, <3>4
  <2>9. applier' \in [Server -> [Server -> {"off", "sync", "follow"}]]
    <3>1. applier' = [applier EXCEPT ![i][j] = "off"]
      BY <1>2 DEF ApplierStop
    <3>2. applier \in [Server -> [Server -> {"off", "sync", "follow"}]]
      BY <1>0 DEF RestType
    <3> QED
      BY <1>0, <3>1, <3>2
  <2> QED
    BY <1>0, <1>2, <2>5, <2>6, <2>7, <2>8, <2>9, Zenon DEF ApplierStop, Handled, RestType, diskVars
<1>3. CASE RelayStop(i, j, n)
  <2> DEFINE q == net[i][j]
             s == IF n < Len(q) THEN q[Len(q)] ELSE slot[i][j]
  <2>1. RaftStep(i) /\ box' \in [Server -> Box]
    BY <1>0, <1>3, UpdateHealthStep DEF RelayStop
  <2>2. budget' \in [Events -> Nat]
    <3>1. budget' = budget \/ Spend("link")
      BY <1>3 DEF RelayStop
    <3> QED
      BY <1>0, <3>1, SpendType, Zenon DEF RestType, Events
  <2>3. /\ q \in Seq(Msg) /\ slot[i][j] \in Msg \union {Nil} /\ Len(q) \in Nat
        /\ n \in 0..Len(q) /\ \A k \in 1..Len(q) : q[k] \in Msg
    <3>1. q \in Seq(Msg) /\ slot[i][j] \in Msg \union {Nil} /\ n \in 0..Len(q)
      <4>1. /\ net \in [Server -> [Server -> Seq(Msg)]]
            /\ slot \in [Server -> [Server -> Msg \union {Nil}]]
        BY <1>0, Zenon DEF RestType
      <4>2. n \in 0..Len(q)
        BY <1>3, Zenon DEF RelayStop
      <4> QED
        BY <1>0, <4>1, <4>2, Zenon
    <3> QED
      BY <3>1, LenProperties, ElementOfSeq, Zenon
  <2>4. net' = [net EXCEPT ![i][j] = SubSeq(q, 1, n)] /\ slot' = [slot EXCEPT ![i][j] = s]
    BY <1>3 DEF RelayStop
  <2> HIDE DEF q
  <2>5. SubSeq(q, 1, n) \in Seq(Msg)
    <3>1. 1 \in Int /\ n \in Int /\ \A k \in 1..n : q[k] \in Msg
      BY <2>3
    <3> QED
      BY <3>1, SubSeqProperties, Zenon
  <2>6. s \in Msg \union {Nil}
    BY <2>3
  <2> HIDE DEF s
  <2>7. /\ net' \in [Server -> [Server -> Seq(Msg)]]
        /\ slot' \in [Server -> [Server -> Msg \union {Nil}]]
    BY <1>0, <2>4, <2>5, <2>6 DEF RestType
  <2>8. relay' \in [Server -> SUBSET Server]
    BY <1>0, <1>3, Zenon DEF RelayStop, RestType
  <2> QED
    BY <1>0, <1>3, <2>1, <2>2, <2>7, <2>8, Zenon DEF RelayStop, Handled, RestType, diskVars
<1> QED
  BY <1>1, <1>2, <1>3

=============================================================================
