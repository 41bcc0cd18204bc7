------------------------------ MODULE BoxRaft -------------------------------
(***************************************************************************)
(* Leader election in a replica set: the Raft state machines of the        *)
(* instances (module RaftNode), the glue that connects a state machine to  *)
(* its instance (src/src/box/raft.c), and the parts of the instance it     *)
(* talks to:                                                               *)
(*   - the worker fiber, which writes the term and the vote to the WAL and *)
(*     broadcasts the state; the WAL queue it shares with the data rows;   *)
(*   - the checkpoint, which saves the term and the vote in a snapshot;    *)
(*   - relays and appliers: the health of a connection, the slot of Raft   *)
(*     messages of a relay, heartbeats and the term in an ACK;             *)
(*   - box.cfg and box.ctl: election mode, fencing, quorum, timeouts,      *)
(*     promote and demote;                                                 *)
(*   - crash and recovery.                                                 *)
(***************************************************************************)
EXTENDS RaftNode, Sequences

CONSTANTS
    Modes,          \* the values that box.cfg gives to election_mode
    Quorums,        \* the values of replication_synchro_quorum in use
    Scenarios,      \* initial settings and bounds, a set of Scenario
    MaxTerm,        \* bound: no instance starts a term above it
    MaxRows,        \* bound: data rows written by each instance
    MaxInFlight     \* bound: Raft messages between two instances

\* The rare events that a budget bounds.
Events == {"restart", "link", "cfg", "timeout", "promote", "checkpoint", "ack", "qsync",
           "yield"}

\* modes: election_mode of each instance; quorum: replication_synchro_quorum;
\* budget: how many times each kind of rare event happens.
Scenario == [modes : [Server -> {"off", "voter", "manual", "candidate"}],
             quorum : Quorums, budget : [Events -> Nat]]

ASSUME BoxRaftAssumption ==
    /\ Modes \subseteq {"off", "voter", "manual", "candidate"} /\ Modes # {}
    /\ Quorums \subseteq 1..Cardinality(Server) /\ Quorums # {}
    /\ Scenarios \subseteq Scenario /\ Scenarios # {}
    /\ MaxTerm \in Term /\ MaxRows \in Nat /\ MaxInFlight \in Nat \ {0}

VARIABLES
    raft,       \* box_raft_global of each instance
    box,        \* election settings of each instance and its running promotes
    worker,     \* where the Raft worker fiber of each instance is
    dump,       \* the row that the worker waits for the WAL with, or Nil
    wal,        \* the WAL queue of each instance: submitted, not completed
    vclock,     \* replicaset.vclock of each instance, without component 0
    disk,       \* the term and the vote that a recovery would restore
    snap,       \* the same for the checkpoint in progress, or Nil
    net,        \* net[i][j]: Raft messages from the relay of i to the applier of j
    slot,       \* slot[i][j]: the message that the relay of i saves for j, or Nil
    ack,        \* ack[i][j]: the term of the ACK on the way from i to j, or 0
    applier,    \* applier[i][j]: the state of the applier of i that reads from j
    relay,      \* relay[i]: the peers that instance i has a running relay for
    budget,     \* the rare events that are still allowed
    voted,      \* history: votes that were visible, <<voter, term, vote>>
    elected,    \* history: leaders, <<term, leader>>
    flushed     \* history: vclock of each instance when its term was written

nodeVars == <<raft, box, worker, dump>>
diskVars == <<wal, vclock, disk, snap>>
linkVars == <<net, slot, ack, applier, relay>>
history == <<voted, elected, flushed>>
vars == <<raft, box, worker, dump, wal, vclock, disk, snap, net, slot, ack, applier, relay,
          budget, voted, elected, flushed>>

Peers(i) == Server \ {i}

\* struct journal_entry in the WAL queue: a data row of instance id, a Raft
\* row, or the call that starts a new WAL file for a checkpoint.
Entry ==
    [kind : {"row"}, id : Server, term : {0}, vote : {Nil}]
    \union [kind : {"raft"}, id : {Nil}, term : Term, vote : ServerOrNil]
    \union [kind : {"checkpoint"}, id : {Nil}, term : {0}, vote : {Nil}]
RowEntry(id) == [kind |-> "row", id |-> id, term |-> 0, vote |-> Nil]
RaftEntry(req) == [kind |-> "raft", id |-> Nil, term |-> req.term, vote |-> req.vote]
CheckpointEntry == [kind |-> "checkpoint", id |-> Nil, term |-> 0, vote |-> Nil]

Box == [mode : {"off", "voter", "manual", "candidate"}, fencing : BOOLEAN,
        fencing_paused : BOOLEAN, promotes : Nat]

\* Where the worker fiber has yielded: waiting for work, for the WAL, for the
\* WAL with the row already written, in a trigger, in box_promote_qsync. In
\* "loop" it has not yielded: nothing else runs on the instance.  In "down"
\* the instance is not running.
Location == {"idle", "write", "written", "broadcast", "qsync", "loop", "down"}

\* Every variable keeps its type.
TypeOK ==
    /\ raft \in [Server -> Raft]
    /\ box \in [Server -> Box]
    /\ worker \in [Server -> Location]
    /\ dump \in [Server -> Row \union {Nil}]
    /\ wal \in [Server -> Seq(Entry)]
    /\ vclock \in [Server -> Vclock]
    /\ disk \in [Server -> Row]
    /\ snap \in [Server -> Row \union {Nil}]
    /\ net \in [Server -> [Server -> Seq(Msg)]]
    /\ slot \in [Server -> [Server -> Msg \union {Nil}]]
    /\ ack \in [Server -> [Server -> Nat]]
    /\ applier \in [Server -> [Server -> {"off", "sync", "follow"}]]
    /\ relay \in [Server -> SUBSET Server]
    /\ budget \in [Events -> Nat]
    /\ voted \subseteq Server \X Term \X Server
    /\ elected \subseteq Term \X Server
    /\ flushed \in [Server -> Vclock]

-----------------------------------------------------------------------------
(* Helpers.                                                                *)

Spend(event) ==
    budget[event] > 0 /\ budget' = [budget EXCEPT ![event] = @ - 1]

\* A handler left the state machine of i in state r.
SetRaft(i, r) ==
    r.volatile_term <= MaxTerm /\ raft' = [raft EXCEPT ![i] = r]

\* A running relay has a message on the way and saves only the latest one
\* after it.
relay_push_raft(queue, msg) ==
    IF Len(queue) < MaxInFlight THEN Append(queue, msg)
    ELSE [queue EXCEPT ![Len(queue)] = msg]

\* box_raft_broadcast: a relay that is not running saves the message for the
\* next subscribe of the replica.
box_raft_broadcast(i, msg) ==
    /\ net' = [net EXCEPT ![i] = [j \in Server |->
                 IF j \in relay[i] THEN relay_push_raft(@[j], msg) ELSE @[j]]]
    /\ slot' = [slot EXCEPT ![i] = [j \in Server |->
                 IF j \in Peers(i) \ relay[i] THEN msg ELSE @[j]]]

\* replicaset.healthy_count: peers with both an applier and a relay in FOLLOW.
IsHealthy(ap, rel, i, j) == ap[i][j] = "follow" /\ j \in rel[i]
healthy_count(ap, rel, i) ==
    1 + Cardinality({j \in Peers(i) : IsHealthy(ap, rel, i, j)})

replicaset_has_healthy_quorum(ap, rel, i, r) ==
    healthy_count(ap, rel, i) >= r.election_quorum

-----------------------------------------------------------------------------
(* src/src/box/raft.c: fencing and reaction to the connection quorum.      *)

\* Mutant: a leader that may run again is not fenced.
box_raft_fence_unless_cfg(r, b) ==
    IF r.is_enabled /\ r.state = LEADER /\ b.fencing /\ ~r.is_cfg_candidate
    THEN raft_resign(r) ELSE r

box_raft_fence(r, b) ==
    IF r.is_enabled /\ r.state = LEADER /\ b.fencing /\ ~b.fencing_paused
    THEN raft_resign(r) ELSE r

\* Mutant: a candidate that gets the quorum back does not run again.
box_raft_notify_lost_quorum(r, b, has_quorum) ==
    CASE b.mode = "manual" ->
            IF has_quorum THEN r ELSE box_raft_fence(r, b)
      [] b.mode = "candidate" /\ ~has_quorum /\ r.state \in {CANDIDATE, LEADER} ->
            raft_cfg_is_candidate_later(box_raft_fence(r, b), FALSE)
      [] b.mode = "candidate" /\ ~has_quorum /\ r.state = FOLLOWER ->
            raft_cfg_is_candidate(r, FALSE)
      [] OTHER -> r

box_raft_notify_have_quorum(r, b, has_quorum) ==
    CASE b.mode = "manual" ->
            IF has_quorum THEN r ELSE box_raft_fence(r, b)
      [] b.mode = "candidate" /\ has_quorum -> raft_cfg_is_candidate(r, TRUE)
      [] b.mode = "candidate" /\ ~has_quorum /\ r.state \in {CANDIDATE, LEADER} ->
            raft_cfg_is_candidate_later(box_raft_fence(r, b), FALSE)
      [] b.mode = "candidate" /\ ~has_quorum /\ r.state = FOLLOWER ->
            raft_cfg_is_candidate(r, FALSE)
      \* The triggers are not installed in the other modes.
      [] OTHER -> r

box_raft_fencing_resume(b, has_quorum) ==
    [b EXCEPT !.fencing_paused = @ /\ ~(has_quorum /\ b.mode \in {"manual", "candidate"})]

box_raft_cfg_election_mode(r, mode, has_quorum) ==
    LET cfg == CASE mode \in {"off", "voter"} -> raft_cfg_is_candidate(r, FALSE)
                 [] mode = "manual" /\ r.state \in {LEADER, CANDIDATE} ->
                        raft_cfg_is_candidate_later(r, FALSE)
                 [] mode = "manual" /\ r.state = FOLLOWER -> raft_cfg_is_candidate(r, FALSE)
                 [] mode = "candidate" /\ has_quorum -> raft_cfg_is_candidate(r, TRUE)
                 [] mode = "candidate" /\ ~has_quorum -> r
    IN  raft_cfg_is_enabled(cfg, mode # "off")

\* replicaset_on_health_change, after applier or relay of i has changed.
replicaset_on_health_change(i, r, b, ap, rel) ==
    LET has == replicaset_has_healthy_quorum(ap, rel, i, r)
    IN  [raft |-> box_raft_notify_have_quorum(r, box_raft_fencing_resume(b, has), has),
         box |-> box_raft_fencing_resume(b, has)]

-----------------------------------------------------------------------------
(* A replica set whose instances are configured and connected, and have    *)
(* exchanged the broadcasts of raft_sm_start.                              *)

Init ==
    /\ applier = [i \in Server |-> [j \in Server |-> IF i = j THEN "off" ELSE "follow"]]
    /\ relay = [i \in Server |-> Peers(i)]
    /\ \E s \in Scenarios :
        /\ budget = s.budget
        /\ box = [i \in Server |-> [mode |-> s.modes[i], fencing |-> TRUE,
                                    fencing_paused |-> FALSE, promotes |-> 0]]
        /\ raft = [i \in Server |->
                    [box_raft_cfg_election_mode(raft_create(i, s.quorum), s.modes[i], TRUE)
                        EXCEPT !.is_broadcast_scheduled = FALSE]]
    /\ worker = [i \in Server |-> "idle"]
    /\ dump = [i \in Server |-> Nil]
    /\ wal = [i \in Server |-> <<>>]
    /\ vclock = [i \in Server |-> [j \in Server |-> 0]]
    /\ disk = [i \in Server |-> [term |-> 1, vote |-> Nil]]
    /\ snap = [i \in Server |-> Nil]
    /\ net = [i \in Server |-> [j \in Server |-> <<>>]]
    /\ slot = [i \in Server |-> [j \in Server |-> Nil]]
    /\ ack = [i \in Server |-> [j \in Server |-> 0]]
    /\ voted = {}
    /\ elected = {}
    /\ flushed = vclock

-----------------------------------------------------------------------------
(* The worker fiber: box_raft_worker_f and raft_process_async.             *)

\* Fibers are cooperative: the others run only when the worker has yielded.
Yielded(i) == worker[i] \notin {"loop", "down"}

\* raft_worker_handle_io up to the yield in raft_write.
WorkerWrite(i) ==
    /\ worker[i] \in {"idle", "loop"}
    /\ raft[i].is_write_in_progress
    /\ raft_has_dump(raft[i], vclock[i])
    /\ wal' = [wal EXCEPT ![i] = Append(@, RaftEntry(raft_dump_req(raft[i])))]
    /\ dump' = [dump EXCEPT ![i] = raft_dump_req(raft[i])]
    /\ worker' = [worker EXCEPT ![i] = "write"]
    /\ UNCHANGED <<raft, box, vclock, disk, snap, linkVars, budget>>

\* The rest of an iteration of raft_process_async, with the state machine in
\* state r: the broadcast, if there is one, and what follows it. A trigger of
\* the user may yield in the broadcast.
WorkerEndIteration(i, r) ==
    IF r.is_broadcast_scheduled
    THEN /\ box_raft_broadcast(i, raft_checkpoint_remote(r, vclock[i]))
         /\ \/ /\ Spend("yield")
               /\ SetRaft(i, r)
               /\ worker' = [worker EXCEPT ![i] = "broadcast"]
            \/ /\ SetRaft(i, [r EXCEPT !.is_broadcast_scheduled = FALSE])
               /\ worker' = [worker EXCEPT ![i] =
                                IF r.is_write_in_progress THEN "loop" ELSE "idle"]
               /\ UNCHANGED budget
    ELSE /\ SetRaft(i, r)
         /\ worker' = [worker EXCEPT ![i] = IF r.is_write_in_progress THEN "loop" ELSE "idle"]
         /\ UNCHANGED <<net, slot, budget>>

\* An iteration that has nothing to write.
WorkerIterate(i) ==
    /\ worker[i] \in {"idle", "loop"}
    /\ \/ /\ raft[i].is_write_in_progress
          /\ ~raft_has_dump(raft[i], vclock[i])
          /\ WorkerEndIteration(i, raft_handle_io_no_dump(raft[i], vclock[i]))
       \/ /\ ~raft[i].is_write_in_progress
          /\ raft[i].is_broadcast_scheduled
          /\ WorkerEndIteration(i, raft[i])
    /\ UNCHANGED <<box, dump, diskVars, ack, applier, relay>>

\* raft_write has returned.
WorkerDumped(i) ==
    /\ worker[i] = "written"
    /\ WorkerEndIteration(i, raft_handle_io_dumped(raft[i], dump[i], vclock[i]))
    /\ dump' = [dump EXCEPT ![i] = Nil]
    /\ UNCHANGED <<box, diskVars, ack, applier, relay>>

\* The triggers of raft_broadcast have returned.
WorkerBroadcasted(i) ==
    /\ worker[i] = "broadcast"
    /\ SetRaft(i, [raft[i] EXCEPT !.is_broadcast_scheduled = FALSE])
    /\ worker' = [worker EXCEPT ![i] =
                    IF raft[i].is_write_in_progress THEN "loop" ELSE "idle"]
    /\ UNCHANGED <<box, dump, diskVars, linkVars, budget>>

\* box_raft_update_synchro_queue: the worker of a leader that has no work is
\* blocked in box_promote_qsync, for as long as the queue is not confirmed.
WorkerQsync(i) ==
    /\ Spend("qsync") /\ worker[i] = "idle" /\ raft[i].state = LEADER
    /\ ~raft[i].is_write_in_progress /\ ~raft[i].is_broadcast_scheduled
    /\ worker' = [worker EXCEPT ![i] = "qsync"]
    /\ UNCHANGED <<raft, box, dump, diskVars, linkVars>>

WorkerQsyncDone(i) ==
    /\ worker[i] = "qsync"
    /\ worker' = [worker EXCEPT ![i] = "idle"]
    /\ UNCHANGED <<raft, box, dump, diskVars, linkVars, budget>>

-----------------------------------------------------------------------------
(* The WAL queue, the data rows that share it, the checkpoint.             *)

\* The rows of id on their way to the WAL: replicaset.applier.vclock counts
\* them, replicaset.vclock does not.
QueuedRows(i, id) == Cardinality({k \in DOMAIN wal[i] : wal[i][k] = RowEntry(id)})

\* A writable instance writes a row of its own.
WriteRow(i) ==
    /\ Yielded(i) /\ ~raft_is_ro(raft[i])
    /\ vclock[i][i] + QueuedRows(i, i) < MaxRows
    /\ wal' = [wal EXCEPT ![i] = Append(@, RowEntry(i))]
    /\ UNCHANGED <<nodeVars, vclock, disk, snap, linkVars, budget>>

\* The applier of i writes the next row of id that j has.
ApplyRow(i, j, id) ==
    /\ Yielded(i) /\ applier[i][j] # "off"
    /\ id # i /\ vclock[i][id] + QueuedRows(i, id) < vclock[j][id]
    /\ wal' = [wal EXCEPT ![i] = Append(@, RowEntry(id))]
    /\ UNCHANGED <<nodeVars, vclock, disk, snap, linkVars, budget>>

\* What recovery makes of a Raft row that comes after the rows in d.
RecoverRow(d, e) ==
    IF e.kind = "raft"
    THEN [term |-> e.term, vote |-> IF e.vote # Nil THEN e.vote ELSE d.vote]
    ELSE d

CountRow(v, e) == IF e.kind = "row" THEN [v EXCEPT ![e.id] = @ + 1] ELSE v

\* The new WAL file of the checkpoint is not started yet.
IsRotationQueued(queue) == \E k \in DOMAIN queue : queue[k].kind = "checkpoint"

\* The first entry of the queue is on disk and its callback is called, unless
\* the instance is dead by now.  Rows that follow the rotation belong to the
\* checkpoint too.
WalComplete(i) ==
    LET e == Head(wal[i]) IN
    /\ wal[i] # <<>> /\ worker[i] # "loop"
    /\ wal' = [wal EXCEPT ![i] = Tail(@)]
    /\ vclock' = [vclock EXCEPT ![i] = CountRow(@, e)]
    /\ disk' = [disk EXCEPT ![i] = RecoverRow(@, e)]
    /\ snap' = [snap EXCEPT ![i] = IF @ = Nil \/ IsRotationQueued(wal[i])
                                   THEN @ ELSE RecoverRow(@, e)]
    /\ worker' = [worker EXCEPT ![i] = IF e.kind = "raft" /\ @ = "write"
                                       THEN "written" ELSE @]
    /\ UNCHANGED <<raft, box, dump, linkVars, budget>>

\* gc_do_checkpoint: engine_begin_checkpoint takes the Raft state, and
\* wal_begin_checkpoint is queued after the rows that are being written.
CheckpointBegin(i) ==
    /\ Spend("checkpoint") /\ Yielded(i) /\ snap[i] = Nil
    /\ snap' = [snap EXCEPT ![i] = raft_checkpoint_local(raft[i])]
    /\ wal' = [wal EXCEPT ![i] = Append(@, CheckpointEntry)]
    /\ UNCHANGED <<nodeVars, vclock, disk, linkVars>>

\* engine_commit_checkpoint: recovery starts from the new snapshot.
CheckpointCommit(i) ==
    /\ Yielded(i) /\ snap[i] # Nil /\ ~IsRotationQueued(wal[i])
    /\ disk' = [disk EXCEPT ![i] = snap[i]]
    /\ snap' = [snap EXCEPT ![i] = Nil]
    /\ UNCHANGED <<nodeVars, wal, vclock, linkVars, budget>>

-----------------------------------------------------------------------------
(* Messages.                                                               *)

\* applier_process_batch on a Raft row: it is a heartbeat and a message.
Deliver(i, j) ==
    LET heard == raft_process_heartbeat(raft[i], j) IN
    /\ Yielded(i) /\ applier[i][j] # "off" /\ net[j][i] # <<>>
    /\ SetRaft(i, raft_process_msg(heard, Head(net[j][i]), j, vclock[i]))
    /\ net' = [net EXCEPT ![j][i] = Tail(@)]
    /\ UNCHANGED <<box, worker, dump, diskVars, slot, ack, applier, relay, budget>>

\* applier_process_batch on a heartbeat row; one that changes nothing is
\* left out.
Heartbeat(i, j) ==
    /\ Yielded(i) /\ applier[i][j] # "off" /\ i \in relay[j]
    /\ raft_is_heartbeat_accepted(raft[i], j)
    /\ raft_process_heartbeat(raft[i], j) # raft[i]
    /\ SetRaft(i, raft_process_heartbeat(raft[i], j))
    /\ UNCHANGED <<box, worker, dump, diskVars, linkVars, budget>>

\* applier_signal_ack: the ACK carries the written term.
SignalAck(i, j) ==
    /\ Spend("ack") /\ Yielded(i) /\ applier[i][j] # "off" /\ ack[i][j] = 0
    /\ ack' = [ack EXCEPT ![i][j] = raft[i].term]
    /\ UNCHANGED <<nodeVars, diskVars, net, slot, applier, relay>>

\* tx_status_update.
ProcessAck(i, j) ==
    /\ Yielded(i) /\ j \in relay[i] /\ ack[j][i] # 0
    /\ SetRaft(i, raft_process_term(raft[i], ack[j][i]))
    /\ ack' = [ack EXCEPT ![j][i] = 0]
    /\ UNCHANGED <<box, worker, dump, diskVars, net, slot, applier, relay, budget>>

\* raft->timer fires.
Timer(i) ==
    /\ Yielded(i) /\ raft[i].timer
    /\ SetRaft(i, raft_sm_election_update_cb(raft[i], vclock[i]))
    /\ UNCHANGED <<box, worker, dump, diskVars, linkVars, budget>>

-----------------------------------------------------------------------------
(* Connections and their health.                                           *)

\* The applier or the relay of i has changed its state, to ap and rel.  When
\* the other of the two is not healthy the quorum cannot change.
UpdateHealth(i, ap, rel, is_other_healthy) ==
    LET health == replicaset_on_health_change(i, raft[i], box[i], ap, rel)
    IN  IF is_other_healthy
        THEN SetRaft(i, health.raft) /\ box' = [box EXCEPT ![i] = health.box]
        ELSE UNCHANGED <<raft, box>>

\* Mutant: only the message that the relay saved is sent.
SubscribeWithoutState(i, j) ==
    LET rel == [relay EXCEPT ![j] = @ \union {i}]
    IN  /\ Yielded(i) /\ Yielded(j)
        /\ applier[i][j] = "off" /\ i \notin relay[j]
        /\ relay' = rel
        /\ applier' = [applier EXCEPT ![i][j] = "sync"]
        /\ net' = [net EXCEPT ![j][i] = IF slot[j][i] = Nil THEN <<>> ELSE <<slot[j][i]>>]
        /\ slot' = [slot EXCEPT ![j][i] = Nil]
        /\ UpdateHealth(j, applier, rel, applier[j][i] = "follow")
        /\ UNCHANGED <<worker, dump, diskVars, ack, budget>>

\* The applier of i has subscribed to j: box_process_subscribe of j sends its
\* Raft state, its relay starts and sends the message that it saved.
Subscribe(i, j) ==
    LET rel == [relay EXCEPT ![j] = @ \union {i}]
        state == raft_checkpoint_remote(raft[j], vclock[j])
    IN  /\ Yielded(i) /\ Yielded(j)
        /\ applier[i][j] = "off" /\ i \notin relay[j]
        /\ relay' = rel
        /\ applier' = [applier EXCEPT ![i][j] = "sync"]
        /\ net' = [net EXCEPT ![j][i] = IF slot[j][i] = Nil THEN <<state>>
                                        ELSE <<state, slot[j][i]>>]
        /\ slot' = [slot EXCEPT ![j][i] = Nil]
        /\ UpdateHealth(j, applier, rel, applier[j][i] = "follow")
        /\ UNCHANGED <<worker, dump, diskVars, ack, budget>>

\* applier_check_sync: the applier of i has caught up with j.
ApplierFollow(i, j) ==
    LET ap == [applier EXCEPT ![i][j] = "follow"]
    IN  /\ Yielded(i) /\ applier[i][j] = "sync"
        /\ applier' = ap
        /\ UpdateHealth(i, ap, relay, j \in relay[i])
        /\ UNCHANGED <<worker, dump, diskVars, net, slot, ack, relay, budget>>

\* The applier of i loses the connection to j.  The budget bounds how many times a
\* connection breaks, not how many times the other end finds it broken.
ApplierStop(i, j) ==
    LET ap == [applier EXCEPT ![i][j] = "off"]
        health == replicaset_on_health_change(i, raft[i], box[i], ap, relay)
    IN  /\ Yielded(i) /\ applier[i][j] # "off"
        /\ IF i \in relay[j] THEN Spend("link") ELSE UNCHANGED budget
        /\ applier' = ap
        /\ net' = [net EXCEPT ![j][i] = <<>>]
        /\ ack' = [ack EXCEPT ![i][j] = 0]
        /\ IF applier[i][j] = "follow" /\ j \in relay[i]
           THEN /\ SetRaft(i, raft_notify_is_leader_seen(health.raft, FALSE, j, vclock[i]))
                /\ box' = [box EXCEPT ![i] = health.box]
           ELSE UNCHANGED <<raft, box>>
        /\ UNCHANGED <<worker, dump, diskVars, slot, relay>>

\* The relay of i that serves j stops.  n messages have left for j, the last
\* one that has not is saved.
RelayStop(i, j, n) ==
    LET rel == [relay EXCEPT ![i] = @ \ {j}]
    IN  /\ Yielded(i) /\ j \in relay[i] /\ n \in 0..Len(net[i][j])
        /\ IF applier[j][i] # "off" THEN Spend("link") ELSE UNCHANGED budget
        /\ relay' = rel
        /\ net' = [net EXCEPT ![i][j] = SubSeq(@, 1, n)]
        /\ slot' = [slot EXCEPT ![i][j] = IF n < Len(net[i][j])
                                          THEN net[i][j][Len(net[i][j])] ELSE @]
        /\ UpdateHealth(i, applier, rel, applier[i][j] = "follow")
        /\ UNCHANGED <<worker, dump, diskVars, ack, applier>>

-----------------------------------------------------------------------------
(* box.cfg and box.ctl.                                                    *)

CfgElectionMode(i, mode) ==
    LET has == replicaset_has_healthy_quorum(applier, relay, i, raft[i])
    IN  /\ Spend("cfg") /\ Yielded(i) /\ mode # box[i].mode
        /\ SetRaft(i, box_raft_cfg_election_mode(raft[i], mode, has))
        /\ box' = [box EXCEPT ![i].mode = mode]
        /\ UNCHANGED <<worker, dump, diskVars, linkVars>>

\* box_update_replication_synchro_quorum.
CfgQuorum(i, quorum) ==
    LET pauses == /\ quorum > raft[i].election_quorum
                  /\ healthy_count(applier, relay, i) < quorum
        b == [box[i] EXCEPT !.fencing_paused = @ \/ pauses]
        health == replicaset_on_health_change(i, raft_cfg_election_quorum(raft[i], quorum),
                                              b, applier, relay)
    IN  /\ Spend("cfg") /\ Yielded(i)
        /\ SetRaft(i, health.raft)
        /\ box' = [box EXCEPT ![i] = health.box]
        /\ UNCHANGED <<worker, dump, diskVars, linkVars>>

\* box_raft_set_election_fencing_mode.
CfgFencing(i) ==
    LET b == [box[i] EXCEPT !.fencing = ~@]
        health == replicaset_on_health_change(i, raft[i], b, applier, relay)
    IN  /\ Spend("cfg") /\ Yielded(i)
        /\ SetRaft(i, health.raft)
        /\ box' = [box EXCEPT ![i] = health.box]
        /\ UNCHANGED <<worker, dump, diskVars, linkVars>>

CfgTimeout(i) ==
    /\ Spend("timeout") /\ Yielded(i)
    /\ \/ SetRaft(i, raft_cfg_election_timeout(raft[i]))
       \/ SetRaft(i, raft_cfg_death_timeout(raft[i]))
    /\ UNCHANGED <<box, worker, dump, diskVars, linkVars>>

\* box_raft_try_promote until it yields.
Promote(i) ==
    /\ Spend("promote") /\ Yielded(i) /\ box[i].mode \in {"manual", "candidate"}
    /\ raft[i].state # LEADER
    /\ SetRaft(i, raft_promote(raft[i], vclock[i]))
    /\ box' = [box EXCEPT ![i].promotes = @ + 1]
    /\ UNCHANGED <<worker, dump, diskVars, linkVars>>

\* box_raft_try_promote after the term has ended or the fiber is cancelled.
PromoteEnd(i) ==
    /\ Yielded(i) /\ box[i].promotes > 0
    /\ SetRaft(i, IF raft[i].state = LEADER THEN raft[i] ELSE raft_restore(raft[i]))
    /\ box' = [box EXCEPT ![i].promotes = @ - 1]
    /\ UNCHANGED <<worker, dump, diskVars, linkVars, budget>>

\* box_trigger_elections, from box_promote when elections are off and from
\* box_demote of a leader.
TriggerElections(i) ==
    /\ Spend("promote") /\ Yielded(i) /\ (box[i].mode = "off" \/ raft[i].state = LEADER)
    /\ SetRaft(i, raft_new_term(raft[i]))
    /\ UNCHANGED <<box, worker, dump, diskVars, linkVars>>

-----------------------------------------------------------------------------
(* Crash and recovery.                                                     *)

\* The process dies.  The peers have not noticed: what it has sent may still
\* arrive, and the WAL may still have written a part of the queue.
Crash(i) ==
    /\ Spend("restart") /\ Yielded(i)
    /\ raft' = [raft EXCEPT ![i] = raft_create(i, @.election_quorum)]
    /\ box' = [box EXCEPT ![i].promotes = 0, ![i].fencing_paused = FALSE]
    /\ worker' = [worker EXCEPT ![i] = "down"]
    /\ dump' = [dump EXCEPT ![i] = Nil]
    /\ snap' = [snap EXCEPT ![i] = Nil]
    /\ net' = [j \in Server |-> [net[j] EXCEPT ![i] = <<>>]]
    /\ slot' = [slot EXCEPT ![i] = [j \in Server |-> Nil]]
    /\ applier' = [applier EXCEPT ![i] = [j \in Server |-> "off"]]
    /\ relay' = [relay EXCEPT ![i] = {}]
    /\ UNCHANGED <<wal, vclock, disk, ack>>

\* The process starts, recovers the rows that have reached the disk and
\* configures Raft.  It has no connections yet.
Restart(i) ==
    LET recovered == raft_cfg_instance_id(
                        raft_process_recovery(raft_create(i, raft[i].election_quorum), disk[i]))
    IN  /\ worker[i] = "down"
        /\ SetRaft(i, box_raft_cfg_election_mode(recovered, box[i].mode,
                                                 raft[i].election_quorum = 1))
        /\ worker' = [worker EXCEPT ![i] = "idle"]
        /\ wal' = [wal EXCEPT ![i] = <<>>]
        /\ UNCHANGED <<box, dump, vclock, disk, snap, linkVars, budget>>

-----------------------------------------------------------------------------

NodeStep(i) ==
    \/ WorkerWrite(i) \/ WorkerIterate(i) \/ WorkerDumped(i) \/ WorkerBroadcasted(i)
    \/ WorkerQsync(i) \/ WorkerQsyncDone(i)
    \/ WriteRow(i) \/ WalComplete(i) \/ CheckpointBegin(i) \/ CheckpointCommit(i)
    \/ Timer(i) \/ Promote(i) \/ PromoteEnd(i) \/ TriggerElections(i)
    \/ CfgFencing(i) \/ CfgTimeout(i) \/ Crash(i) \/ Restart(i)
    \/ \E mode \in Modes : CfgElectionMode(i, mode)
    \/ \E quorum \in Quorums : CfgQuorum(i, quorum)

LinkStep(i, j) ==
    \/ Deliver(i, j) \/ Heartbeat(i, j) \/ SignalAck(i, j) \/ ProcessAck(i, j)
    \/ Subscribe(i, j) \/ ApplierFollow(i, j) \/ ApplierStop(i, j)
    \/ \E n \in 0..MaxInFlight : RelayStop(i, j, n)
    \/ \E id \in Server : ApplyRow(i, j, id)

\* The history variables follow the visible votes, the leaders and the
\* moments when a new term gets visible.
Record ==
    /\ voted' = voted \union {<<i, raft'[i].term, raft'[i].vote>> :
                                i \in {k \in Server : raft'[k].vote # Nil}}
    /\ elected' = elected \union {<<raft'[i].volatile_term, i>> :
                                i \in {k \in Server : raft'[k].state = LEADER}}
    /\ flushed' = [i \in Server |-> IF raft'[i].term > raft[i].term
                                    THEN vclock[i] ELSE flushed[i]]

Next ==
    /\ \/ \E i \in Server : NodeStep(i)
       \/ \E i \in Server : \E j \in Peers(i) : LinkStep(i, j)
    /\ Record

Spec == Init /\ [][Next]_vars

-----------------------------------------------------------------------------
(* Votes and leaders.                                                      *)

IsRunning(i) == worker[i] # "down"

\* An instance shows at most one vote in a term, whatever it wrote, lost in a
\* crash or restored (raft_worker_handle_io, raft_process_recovery).
VoteUniqueness ==
    \A v, w \in voted : v[1] = w[1] /\ v[2] = w[2] => v[3] = w[3]

\* A term has at most one leader, over the whole history of the replica set
\* (raft_process_msg, raft_sm_become_leader).
ElectionSafety ==
    \A e, f \in elected : e[1] = f[1] => e[2] = f[2]

\* A vote that an instance counts was cast by its peer in the very term in
\* which it is counted (raft_add_vote in raft_process_msg).
VotesAreCast ==
    \A i \in Server : \A j \in Peers(i) :
        raft[i].votes[j] # Nil => <<j, raft[i].volatile_term, raft[i].votes[j]>> \in voted

\* A leader was elected by a quorum of votes that were really cast in its
\* term (raft_process_msg, raft_cfg_election_quorum).
ElectedByQuorum ==
    \A e \in elected : \E quorum \in Quorums :
        Cardinality({s \in Server : <<s, e[1], e[2]>> \in voted}) >= quorum

\* A vote is given only to a candidate that has every row which the voter had
\* while it could still acknowledge rows in an older term: that is why a new
\* term and a vote are written separately (raft_worker_handle_io).  It is about
\* votes cast since the start of the process: a recovery does not restore the
\* vclock of the candidate.
VoteCoversLog ==
    \A i \in Server :
        raft[i].vote \notin {Nil, i} /\ raft[i].candidate_vclock # Nil =>
            raft_can_vote_for(raft[i].candidate_vclock, flushed[i])

\* What was told to a peer is not forgotten in a crash: a message or an ACK
\* never carries a term or a vote that a recovery would not restore.
IsDurable(i, m) ==
    \/ m.term < disk[i].term
    \/ m.term = disk[i].term /\ m.vote \in {Nil, disk[i].vote}

MessagesAreDurable ==
    \A i, j \in Server :
        /\ \A k \in DOMAIN net[i][j] : IsDurable(i, net[i][j][k])
        /\ slot[i][j] # Nil => IsDurable(i, slot[i][j])
        /\ ack[i][j] <= disk[i].term

-----------------------------------------------------------------------------
(* The state machine of an instance.                                       *)

\* State that is not on disk yet is never used to be a candidate or a leader,
\* and a write that will put it on disk is always under way.
UnwrittenStateIsHidden ==
    \A i \in Server : ~raft_is_fully_on_disk(raft[i]) =>
        raft[i].state = FOLLOWER /\ raft[i].is_write_in_progress

\* A node that runs for the leadership, or leads, has its own vote on disk.
CandidateHasOwnVote ==
    \A i \in Server : raft[i].state # FOLLOWER =>
        raft[i].vote = i /\ raft[i].votes[i] = i /\ raft[i].is_candidate

\* The own vote is counted if and only if there is one to write or on disk:
\* the assertion in raft_sm_schedule_new_vote, and what raft_revoke_vote takes
\* back.  It has to survive a restart (raft_cfg_instance_id).
OwnVoteIsCounted ==
    \A i \in Server : IsRunning(i) => raft[i].votes[i] = raft[i].volatile_vote

\* A promotion by box.ctl.promote makes a candidate for a single term: a node
\* that is not configured as a candidate is one only with its own vote.
PromotionIsForOneTerm ==
    \A i \in Server : raft[i].is_candidate /\ ~raft[i].is_cfg_candidate =>
        raft[i].volatile_vote = i /\ box[i].mode \in {"manual", "candidate"}

\* The state machine is never stuck: when it is not writing, a follower that
\* sees a leader waits for its death, and a candidate that knows of no witness
\* of a leader waits to start an election.
TimerIsArmed ==
    \A i \in Server : LET r == raft[i] IN
        r.is_enabled /\ ~r.is_write_in_progress /\ r.state # LEADER =>
            /\ raft_is_leader_seen(r) => r.timer
            /\ r.is_candidate /\ r.leader_witness_map = {} => r.timer

\* During a write the leader is known if and only if it is seen: the branch
\* that raft_worker_handle_io takes after the write depends on it.
WriteKnowsLeader ==
    \A i \in Server : raft[i].is_write_in_progress =>
        (raft_is_leader_seen(raft[i]) <=> raft[i].leader # Nil)

\* A peer that is counted as a witness of the leader is connected: otherwise
\* nothing will ever take its mark off and let an election start.
WitnessIsConnected ==
    \A i \in Server : \A j \in Peers(i) :
        j \in raft[i].leader_witness_map => applier[i][j] # "off"

\* When nothing is on the way from i to j and i has nothing to tell, j knows
\* the term, the vote and the leadership of i, and does not count on i as a
\* witness of a leader that i does not see.
PeersAreUpToDate ==
    \A i \in Server : \A j \in Peers(i) :
        /\ j \in relay[i] /\ applier[j][i] # "off" /\ net[i][j] = <<>>
        /\ worker[i] \notin {"broadcast", "loop"} /\ ~raft[i].is_broadcast_scheduled
        => /\ raft[j].volatile_term >= raft[i].term
           /\ raft[j].volatile_term = raft[i].term =>
                /\ raft[i].vote # Nil => raft[j].votes[i] # Nil
                /\ raft[i].state = LEADER => raft[j].leader # Nil
                /\ i \in raft[j].leader_witness_map => raft_is_leader_seen(raft[i])

-----------------------------------------------------------------------------
(* Action properties.                                                      *)

\* A running instance never goes back to an older term and never replaces a
\* vote that is on disk within the term.
TermsOnlyGrow ==
    [][\A i \in Server : IsRunning(i) /\ worker'[i] # "down" =>
            /\ raft'[i].volatile_term >= raft[i].volatile_term
            /\ raft'[i].term >= raft[i].term
            /\ raft'[i].term = raft[i].term /\ raft[i].vote # Nil =>
                    raft'[i].vote = raft[i].vote]_vars

\* The timer does not run during a write, which raft_sm_election_update_cb asserts
\* when it fires: nothing starts it until the write is over and all is on disk, but
\* for raft_cfg_death_timeout, which does not look at the write.
TimerStopsForWrite ==
    [][\A i \in Server :
            /\ raft'[i].timer /\ (raft'[i].is_write_in_progress \/ ~raft_is_fully_on_disk(raft'[i]))
            => \/ raft[i].timer /\ (raft[i].is_write_in_progress \/ ~raft_is_fully_on_disk(raft[i]))
               \/ raft_is_leader_seen(raft[i]) /\ raft'[i] = raft_cfg_death_timeout(raft[i])]_vars

HasQuorum(i) == replicaset_has_healthy_quorum(applier, relay, i, raft[i])

\* A leader does not outlive its connection quorum: in the step in which it
\* loses the quorum it resigns, unless fencing is off or paused.  (A candidate
\* that has lost the quorum may still win: it is not a leader at that moment.)
QuorumLossFences ==
    [][\A i \in Server :
        /\ raft[i].state = LEADER /\ box[i].mode \in {"manual", "candidate"}
        /\ box[i].fencing /\ HasQuorum(i)
        => \/ raft'[i].state # LEADER
           \/ HasQuorum(i)'
           \/ ~box'[i].fencing \/ box'[i].fencing_paused]_vars

-----------------------------------------------------------------------------
(* Liveness.  The fibers, the WAL thread and the connections make progress *)
(* (replication_timeout ends a connection that one end has lost); nothing  *)
(* forces a timer to fire or an administrator to act.  The conditions on   *)
(* messages and connections are weak fairness, written out with the states *)
(* in which there is something to do and the steps that do it.             *)

Progress(i) ==
    \/ WorkerWrite(i) \/ WorkerIterate(i) \/ WorkerDumped(i) \/ WorkerBroadcasted(i)
    \/ WalComplete(i) \/ Restart(i)

HasMessage(i, j) == Yielded(i) /\ applier[i][j] # "off" /\ net[j][i] # <<>>

Received(i, j) == Len(net'[j][i]) < Len(net[j][i])

IsConnected(i, j) == applier[i][j] = "follow" /\ i \in relay[j]

CanConnect(i, j) == Yielded(i) /\ Yielded(j) /\ ~IsConnected(i, j)

Connects(i, j) ==
    \/ applier'[i][j] # applier[i][j]
    \/ i \in relay'[j] /\ i \notin relay[j]
    \/ i \notin relay'[j] /\ i \in relay[j]

FairSpec ==
    /\ Spec
    /\ \A i \in Server : WF_vars(Progress(i) /\ Record)
    /\ \A i \in Server : \A j \in Peers(i) :
        /\ []<>~HasMessage(i, j) \/ []<><<Received(i, j)>>_vars
        /\ []<>~CanConnect(i, j) \/ []<><<Connects(i, j)>>_vars

\* A timer fires, sooner or later, when no leader is known that could put it
\* off with its heartbeats.
TimersFire ==
    \A i \in Server :
        \/ []<>~(raft[i].timer /\ raft[i].leader = Nil)
        \/ []<><<raft[i].timer /\ ~raft'[i].timer>>_vars

\* Every write of a term or a vote ends.
WriteCompletes ==
    \A i \in Server : raft[i].is_write_in_progress ~> ~raft[i].is_write_in_progress

\* Every instance gets to know a leader of the term, unless the leader is not
\* one any more, or the instance is already in a newer term.
LeaderIsLearnt ==
    \A i, j \in Server :
        raft[i].state = LEADER ~>
            \/ raft[i].state # LEADER
            \/ raft[j].leader # Nil
            \/ raft[j].volatile_term > raft[i].term

\* The replica set does not stay without a leader in one term: as long as
\* nobody leads, new elections start, up to the bound on terms.
ElectionsGoOn ==
    TimersFire =>
        []<>(\E i \in Server : raft[i].state = LEADER \/ raft[i].volatile_term = MaxTerm)
=============================================================================
