# Specifications of Tarantool

TLA+ models of Tarantool (the C sources under `src/src`), the TLC configurations that
check them on small instances, and proofs that TLAPS checks for every instance.

Three parts of the system are modelled:

- **leader election**: the Raft state machine (`lib/raft/raft.c`), its glue to an instance
  (`box/raft.c`) and what it depends on: the order of the WAL, checkpoints, appliers,
  relays, `box.cfg` and `box.ctl`, crash and recovery;
- **the journal**: the queue of writes (`box/journal.c`) and the WAL writer (`box/wal.c`)
  with its thread, batches, failed writes, checkpoints and watchers;
- **synchronous replication**: the queue of transactions that wait for a quorum
  (`box/txn_limbo.c`), with commits, ACKs, appliers and the change of the leader.

Contents: [inventory](#inventory-of-the-system), [modules](#modules),
[correspondence with the code](#correspondence-with-the-code), [properties](#properties),
[runs](#runs), [bounds](#bounds), [fairness](#fairness), [findings](#findings),
[proofs](#proofs), [what is not modelled](#what-is-not-modelled).

To check a run: `tlc -config election.cfg MCBoxRaft` (`votes.cfg`: `MCRaftVotes`,
`journal.cfg`: `MCJournal`, `limbo.cfg`: `MCLimbo`).
To check proofs: `tlapm BoxRaftVoteProofs.tla`.

## Inventory of the system

An instance runs its transactions, its replication and its elections in one thread
(*tx*), as cooperative fibers: a fiber runs until it yields. Other threads (the WAL
writer, a relay per replica, network I/O) exchange messages with it through `cbus`.
Instances form a replica set: the applier of an instance reads rows from the relay of
another one.

| component | state | operations | what makes it hard | what should hold |
|---|---|---|---|---|
| Raft state machine (`lib/raft`) | volatile and persistent term and vote, role, leader, votes, witness map, timer | messages, heartbeats, timer, write completion, configuration | every handler may run while a write is in progress; handlers call each other | one leader in a term, votes are cast once, no lost wakeup |
| Raft glue (`box/raft.c`) | worker fiber, mode, fencing | worker loop, broadcast, promote, quorum triggers | user triggers yield inside the worker; the worker blocks in the synchronous queue | a leader without quorum resigns; a promotion is for one term |
| WAL writer (`wal.c`, `journal.c`) | queue of entries, rollback list | write, complete, rotate, cascading rollback | crash between write and completion; rollback across batches in flight | completion in order; nothing visible before it is written |
| Checkpoints, garbage collector (`gc.c`, `memtx_engine.cc`) | checkpoint in progress, consumers | begin, commit, abort, remove files | writes go on while a checkpoint is taken | snapshot and WAL suffix lose nothing |
| Replica health (`replication.cc`) | health of applier and relay, counts | state changes of both | the two ends of a connection fail independently | counts and the witness map match the connections |
| Relay (`relay.cc`) | one message slot, vclock of the replica | push, status update, stop | only the latest message is kept | the peer learns the latest state |
| Applier (`applier.cc`) | connection state, vclock of queued rows | rows, heartbeats, ACK, rollback | several appliers get the same row | each row is applied once and in order |
| Synchronous queue (`txn_limbo.c`) | owner, entries, confirmed LSN, promote terms | append, ACK, confirm, rollback, promote, demote, filter | ownership changes while confirmation or rollback is being written | a confirmed transaction is never rolled back anywhere |
| Transactions (`txn.c`), MVCC (`memtx_tx.c`) | statements, stories, read views | prepare, commit, rollback, conflict | rollback of prepared transactions | serialisable histories |
| Vinyl (`vy_*.c`) | LSM metadata, quota, generations, cache | dump, compaction, log records, recovery | crash between log records; quota waiters | metadata recovers to a consistent tree; nobody waits forever |
| SWIM (`lib/swim`) | members, incarnations | ping, suspicion, dissemination | loss and reordering of packets | no false death without a suspicion; incarnations grow |
| Watchers (`watcher.c`) | keys, pending notifications | register, broadcast, ack, unregister | unregistration from inside a callback | the last value is delivered |
| Core (`lib/core`) | fibers, latches, channels, cbus | wait, wake up, cancel | lost wakeups, cancellation | no waiter is forgotten |
| Schema, SQL, tuples, indexes, iproto, Lua | | | large sequential code or I/O | covered by tests |

`PROJECT.json` lists each component with what is and what is not modelled, and the
hazards at the source lines where they bite.

## Modules

| module | models |
|---|---|
| `RaftNode` | The functions of `raft.c` as operators on `struct raft`: each takes a state and returns the state after the call. |
| `BoxRaft` | The replica set: a state machine per instance, the worker fiber, the WAL queue, checkpoints, connections, configuration, crash and recovery; the properties. |
| `RaftVotes` | The incremental counters of votes (`votes[]`, `voted_count`, `max_vote`) next to the votes themselves, as `RaftNode` has them. |
| `Journal` | The queue of fibers that write, the WAL thread, the pipes between the threads, cascading rollback, `wal_sync`, checkpoints, a watcher; the properties. |
| `TxLog` | What the journal promises, as an abstract log with pending and committed entries. `Journal` implements it (`KeepsPromise`). |
| `LimboNode` | The functions of `txn_limbo.c` as operators on `struct txn_limbo`, split where they write to the WAL. |
| `Limbo` | The replica set around it: fibers of transactions, ACKs, appliers, `box_promote_qsync`, elections in one step; the properties. |
| `MCBoxRaft`, `MCRaftVotes`, `MCJournal`, `MCLimbo` | Instances for TLC. |
| `RaftNodeProofs` | What the operators of `RaftNode` do to terms and votes. |
| `BoxRaftHandlerProofs`, `BoxRaftProofs` | Types, own vote and growth of terms for `BoxRaft`. |
| `BoxRaftVoteProofs` | Uniqueness of votes for `BoxRaft`. |
| `RaftVotesProofs` | The counters of `RaftVotes`. |
| `JournalProofs` | The journal queue and the watcher of `Journal`. |

`RaftNode` has no variables: the code calls its functions from several places (a message
handler calls the function that the timer calls too), and an operator can be used in the
same way. `BoxRaft` has one action per callback, handler or step of a fiber between two
yields. Operators whose comment begins with "Mutant" are plausible faults. They are not
part of the model; a property counts as checked only if it fails when its mutant takes the
place of the operator it mutates.

## Correspondence with the code

`RaftNode`: `Raft` is `struct raft`. `term` and `vote` are on disk, `volatile_term` and
`volatile_vote` are not yet. `votes[s]` is the candidate that `s` has voted for; the code
keeps counters instead, and `RaftVotes` shows that they agree. `timer` says whether the
timer is active; which of the three timeouts it waits for does not matter to the model,
any active timer may fire at any time. Handlers keep the names of the C functions, and
every early return is a branch. The assertions of the C code that are not obvious are
properties (`OwnVoteIsCounted`, `CandidateHasOwnVote`, `TimerStopsForWrite`).

`BoxRaft`, for each instance `i`:

| variable | code |
|---|---|
| `raft[i]` | `box_raft_global` |
| `box[i]` | `box_election_mode`, `election_fencing_mode`, `election_fencing_paused`, the fibers in `box_raft_try_promote` |
| `worker[i]` | where `box_raft_worker_f` has yielded |
| `dump[i]` | the request on the stack of `raft_worker_handle_io` |
| `wal[i]` | journal entries submitted and not completed, with the call that rotates the file |
| `vclock[i]` | `replicaset.vclock` without component 0 |
| `disk[i]`, `snap[i]` | the term and vote that recovery would restore from the files; the same for the checkpoint in progress |
| `net[i][j]`, `slot[i][j]` | Raft messages on the way from the relay of `i` to `j`; the message a stopped relay keeps |
| `ack[i][j]` | the term in the ACK that the applier of `i` sends to `j` |
| `applier[i][j]`, `relay[i]` | connection states, as far as health depends on them |
| `budget` | bound on rare events |
| `voted`, `elected`, `flushed` | history: what the instances have shown, for the properties |

Scheduling: an action of instance `i` requires `Yielded(i)`, that is, the worker is not in
the middle of its loop. In `"loop"` the worker goes on without a yield and nothing else
runs on the instance. `WorkerWrite` is `raft_worker_handle_io` up to the yield in the WAL
write, `WorkerDumped` is the rest. `WalComplete` is the WAL thread writing the next entry
and the tx thread completing it. After `Crash` the entries still in the queue may or may
not reach the disk: `WalComplete` may go on until `Restart`.

Broadcast: `box_raft_broadcast` pushes a message to each relay. A running relay has a
message in flight and one saved for later, so `net` holds at most two and the last one is
overwritten. A stopped relay keeps the last message for the next subscribe
(`relay_push_raft`, `tx_raft_msg_return`). Triggers of the broadcast may yield if
the budget has a `yield` left.

Connections: applier and relay of a connection are separate and fail separately, in either
order. `replicaset_on_health_change` is called with the early returns of
`replica_update_applier_health` and `replica_update_relay_health`: a change of one has no
effect while the other is not healthy.

Checkpoints: `CheckpointBegin` copies the persistent term and vote (`checkpoint_new`) and
queues the rotation behind the entries already submitted (`wal_begin_checkpoint`); rows
after the rotation belong to the WAL that follows the snapshot. `CheckpointCommit` makes
recovery start from it.

In `BoxRaft` data rows exist only as far as elections depend on them: a vclock per instance,
own rows of a writable instance and rows applied from a peer, all through the same WAL queue.

`Journal` (one instance, two threads):

| variable | code |
|---|---|
| `queue` | `journal_queue`; `ready` are the fibers that `fiber_wakeup` has made ready |
| `fiber[e]` | where the fiber that writes entry `e` is |
| `input`, `wal_pipe`, `tx_pipe` | `wal_pipe.input`, messages that tx has flushed to the WAL thread, messages back |
| `tx` | `wal_writer.rollback`, `last_entry`, and `replicaset.vclock` |
| `wal` | `wal_writer.vclock`, `is_in_rollback`, `checkpoint_vclock`, `checkpoint_wal_size`, `checkpoint_triggered` |
| `log` | the entries in the files |
| `watcher` | a `struct wal_watcher` with its message, and how much its relay has read |
| `gc`, `sync` | `gc_do_checkpoint` in progress; a call of `wal_sync` |
| `committed` | history: entries in the order of commit |

An action is what one thread does for one message or one fiber does between two yields.
`wal_write_to_disk` writes any prefix of the batch when it fails, as the writer flushes in
the middle of a batch. `wal_write_async` adds to the batch that is first in `wal_pipe.input`,
even if other messages have been put behind it. An entry is one row and has size 1.
`gc_do_checkpoint` leaves out that it also waits for the synchronous queue
(`txn_limbo_wait_confirm`) and compares its `rollback_count`.

`Limbo` (for each instance one record in `node`): `limbo` is `struct txn_limbo`, `wal` the rows
given to the WAL, `writes` how to go on when the last of them are written, `ready` the woken
fibers, `is_locked` and `lockers` the `promote_latch`, `filtered` requests that have passed
`applier_synchro_filter_tx` and wait for the latch again in `apply_synchro_req`, `prepare` a request
that waits in `txn_limbo_wait_persisted`, `qsync` where `box_promote_qsync` of the Raft worker is,
`params` the `has_work` of the fiber `txn_limbo_on_parameters_change_f`, which handles a new quorum
in a step of its own (`ParametersChange`), `stopped` the peers whose applier here has ended with an
error. The filter unlocks the latch, and `latch_unlock` gives it to the first waiter: only when
somebody may wait for it (`HasWaiters`) is `apply_synchro_req` a later step. The fields `committed`, `aborted` and
`failed` of the limbo are history. A function that writes is split there: the part before the
write is one step, `WriteDone` is the completion in tx, and `Resume` is the fiber that goes on.
An assertion of the code that fails is recorded in `failed` and the step goes on as in a release
build. Elections take one step (`Elect`, with the terms and the rule on vclocks of
`raft_can_vote_for`), and the candidate leads after the votes are in the WALs of the voters,
behind all that was in their queues (`BecomeLeader`). A PROMOTE reaches an instance after its
term: instances broadcast the term before they vote. ACKs are those for own transactions and
PROMOTE requests: `txn_limbo_ack` compares with the LSN of nothing else.

## Properties

Votes and leaders: `VoteUniqueness` (one vote per instance and term, over crashes),
`ElectionSafety` (one leader per term, over the whole history), `ElectedByQuorum`,
`VotesAreCast` (a counted vote was cast in that very term), `VoteCoversLog` (a vote is
cast only for a candidate that has every row the voter could have acknowledged in an older
term; votes restored by a recovery are not judged), `MessagesAreDurable` (what was told to a peer survives a crash).

State machine of an instance: `UnwrittenStateIsHidden`, `CandidateHasOwnVote`,
`OwnVoteIsCounted`, `PromotionIsForOneTerm`, `TimerIsArmed` (nobody waits for nothing),
`WriteKnowsLeader`, `WitnessIsConnected`, `PeersAreUpToDate` (a quiet
connection has delivered the latest state).

Steps: `TermsOnlyGrow`, `QuorumLossFences`, `TimerStopsForWrite` (no step starts a timer during a
write, except `raft_cfg_death_timeout` of an instance that sees the leader).

Liveness: `WriteCompletes`, `LeaderIsLearnt`, `ElectionsGoOn`.

Counters: `CountersMatchVotes`, `SplitVoteIsExact`.

Journal: `KeepsPromise` (refinement of `TxLog`: entries that the WAL has accepted commit in that
order, and a failure rolls back all that is in flight before anything else is accepted),
`CommittedIsLogged` (what tx commits is in the files, in that order, and the vclock agrees),
`NoOvertaking`, `NoLostWakeup`, `SizeIsAccounted` (the queue), `SyncMeansWritten`,
`CheckpointHasNoRollback`, `CheckpointSizeIsExact`, `WatcherIsUpToDate`, and the liveness
property `WritesEnd`.

Synchronous replication: `OneDecision` (never CONFIRM and ROLLBACK for the same transaction in a
WAL), `NoSplitDecision` (never committed here and rolled back there, unless a deposed leader has
written ROLLBACK for a timeout), `SplitIsDetected` (instances that disagree about a transaction do
not both go on behind the same leader), `QuorumHasIt` (a quorum has what is committed),
`CommitsInOrder` (an asynchronous transaction does not overtake a synchronous one),
`NoOtherAssertFails` (the assertions of `txn_limbo.c` and of `box_promote_qsync`; two of them may
fail, no other is the first to do so).

## Runs

| run | instance | what it shows |
|---|---|---|
| `election` | 3 candidates, one contested term, a changed timeout | `ElectionSafety`, `ElectedByQuorum`, `TimerStopsForWrite`: three-way races, split votes, a late vote after a leader is known |
| `restart` | 2 candidates, 1 row each, 1 crash, 3 terms | `TypeOK`, `VoteUniqueness`, `VoteCoversLog`, `OwnVoteIsCounted`, `PeersAreUpToDate`: a crash at every point of a write, recovery, a data row between the term and the vote |
| `links` | 2 candidates, 1 broken connection, fairness | `TimerIsArmed`, `MessagesAreDurable`, `UnwrittenStateIsHidden`, `QuorumLossFences`, and the three liveness properties |
| `mixed` | 2 instances: modes off, voter and manual, quorums 1 and 2, 2 reconfigurations, 2 promotions; and 2 candidates with yielding triggers, `box_promote_qsync`, a changed timeout, an ACK, a checkpoint | `VotesAreCast`, `PromotionIsForOneTerm`, `WriteKnowsLeader`, `CandidateHasOwnVote`, `TermsOnlyGrow` |
| `votes` | 4 instances | `TypeOK`, `CountersMatchVotes`, `SplitVoteIsExact` |
| `journal` | up to 4 entries in 5 scenarios: a queue that fills up, is resized, has failures; failures without a limit, with `wal_sync`, with checkpoints; fairness | all properties of the journal |
| `limbo` | 2 and 3 instances in 10 scenarios: timeouts, changes of the quorum, one or two elections, an asynchronous transaction | all properties of synchronous replication but `SplitIsDetected` |
| `stale_vote`, `checkpoint`, `trigger_yield`, `witness`, `split_decision` | see [findings](#findings) | the property is violated |

`VotesAreCast`, `VoteUniqueness` and `LeaderIsLearnt` hold in one run and fail in another. The
passing run lacks what the finding needs (broken connections, a checkpoint, yielding triggers), so
it says nothing about that case. The pairs differ in other respects too: `VotesAreCast` passes in
`mixed`, which has no broken connection.

The run `split_decision` uses `DeposedScenario`: three instances, a transaction that times out, and
an election without the leader. It is too large for `limbo` to explore to the end with its other
scenarios (1.1 million states); explored alone, all properties of `limbo` hold in it too.

Every action is taken in some passing run. In `BoxRaft`, `Next` conjoins the history (`Record`)
to all actions, so TLC's action statistics count them as one; it was established with
`tlc -coverage`, from the counts of the last conjunct of each action. Taken in one run only:
`WriteRow`, `ApplyRow`, `Crash`, `Restart` (`restart`); the actions of `box.cfg` and `box.ctl`,
`WorkerBroadcasted`, `WorkerQsync`, `WorkerQsyncDone`, `CheckpointBegin`, `CheckpointCommit`,
`SignalAck`, `ProcessAck` (`mixed`, with `election` for the change of the timeout). The properties of the other runs are not checked in
combination with these.

The runs use no deadlock check: with the bounds used up a replica set with a leader, or a journal
without writes, has nothing left to do, which is a stop of the model and not of the system. That
the system does not stop earlier is what the liveness properties say, for elections and for the
journal. There is none for synchronous replication: a transaction may wait for a quorum forever.

## Bounds

- **Instances.** Two instances have the pairwise interleavings of writes, messages, crashes
  and connection states; three are needed for races of several candidates. The three-instance
  runs break no connection and crash nobody (the state space is too large), so a leader seen
  only through a third instance over a broken connection is not explored. The proofs have no
  bound on instances.
- **`MaxTerm`.** Terms start at 1. With 2 there is one contested term; with 3 there are an
  elected leader, a term that replaces it, and messages and rows left over from the older one.
- **`MaxInFlight` = 2** is what a relay holds: one message given to its thread, one saved. The
  model counts messages already in the socket in the same queue, where the code has no such
  limit, so it overwrites a message earlier than the code may. The proofs hold for every limit.
- **`MaxRows`.** One row is enough to make the vclock of a candidate older than the voter's.
- **`Budget`** bounds crashes, broken connections, reconfigurations, promotions, checkpoints,
  changed timeouts, ACKs and `box_promote_qsync` calls. Every one of them occurs in some
  run. Each configuration spends its budget on the events that its properties are about.
- **Scenarios.** An initial state chooses settings and bounds from a set (`MCScenarios` and
  others in the MC modules), so that one run covers several combinations of rare events
  without their product.
- **Journal.** Four entries give several batches in flight with more writes waiting, and a limit
  of 1 or 2 fills the queue; two failures make a second rollback start after the first one. A
  checkpoint, `wal_sync` and the watcher each need one failure and three entries. `NoOvertaking`,
  `NoLostWakeup` and `WatcherIsUpToDate` are proved without bounds.
- **Limbo.** Two instances with quorum 2 have every race between the own write, an ACK, the
  timeout, a change of the quorum and a PROMOTE; three are needed for a deposed leader that is
  not among the voters and for a PROMOTE that another one makes obsolete. The last is explored
  without transactions. A timeout with an election that leaves the leader out is explored with
  two instances, where the quorum is one until it is changed, and with three in `DeposedScenario`.
- **Symmetry** of the instances is used in the runs without temporal properties over
  fairness; the initial modes are a symmetric set.

## Fairness

`FairSpec` assumes what the scheduler of the program provides:

- weak fairness of each instance's worker, WAL completion and restart, taken together: a fiber
  that is ready runs, the WAL thread works through its queue, a dead process is started again
  (the runs of liveness have no crash, so the last one is not exercised);
- a message that stays deliverable is delivered: the applier reads its socket;
- a connection does not stay half open: appliers reconnect and `replication_timeout` ends a
  connection whose other end is gone.

Nothing forces `box_promote_qsync` to return, an administrator to act, or a process to crash.
Only `ElectionsGoOn` assumes that timers fire, and only those of an instance that knows no
leader: heartbeats may put the others off for ever. The conditions on messages and
connections are written as "infinitely often not possible, or infinitely often done",
because the steps that do it are spread over several actions.

`FairSpec` of `Journal` assumes that ready fibers run, that the event loop of tx flushes its pipe at
the end of an iteration, and that each thread processes the messages in its pipe. Each is weak
fairness, and each is one queue served in order. Nobody has to write, resize the queue or take a
checkpoint, and disks may fail. `Limbo` has no fairness.

## Findings

Each is a run that violates the property, with a counterexample that follows the code.

- **`stale_vote`** – `raft_process_msg` calls `raft_notify_is_leader_seen` before it counts
  the vote in the message. If the message takes away the last witness of the leader, this
  call starts an election in a new term, and the vote of the previous term is then counted
  in the new one (`VotesAreCast`). The run stops there: no run shows two leaders or a leader
  without a quorum as a consequence, and none with broken connections and three or more
  instances excludes it.
- **`checkpoint`** – `checkpoint_new` takes the persistent vote before the position of the
  snapshot in the WAL is known. A vote in the WAL queue at that moment is in neither the
  snapshot nor the WAL suffix that recovery reads, and after a restart the instance votes
  again in the same term (`VoteUniqueness`). `VotesCorrect` proves that in
  the model the property cannot fail without a checkpoint that begins during such a write.
- **`trigger_yield`** – `raft_worker_handle_broadcast` clears `is_broadcast_scheduled` after
  the triggers. If one of them yields, a state change meanwhile is never broadcast
  (`LeaderIsLearnt`).
- **`witness`** – if the relay of a connection stops before its applier,
  `replica_update_applier_health` returns before it clears the witness bit
  (`WitnessIsConnected`).
- **`split_decision`** – a transaction of the leader times out, and the leader writes ROLLBACK, while
  the two other instances elect a new leader whose PROMOTE confirms the transaction. A replica that
  has written the PROMOTE, and waits for its CONFIRM, still follows the old owner of the queue:
  `txn_limbo_filter_rollback` looks at the queue and not at `pending_promotes`, and the replica rolls
  the transaction back. Then CONFIRM comes, the PROMOTE is applied to an empty queue, and the replica
  follows the leader that has committed the transaction, without `ER_SPLIT_BRAIN`
  (`SplitIsDetected`, 24 states). `gh_5295_split_brain_test.lua` tests the ROLLBACK after the CONFIRM,
  where the error is raised.

Two assertions of the code fail in the run `limbo`. `NoOtherAssertFails` names them, and says that no
other assertion is the first to fail:

- **PROMOTE during a rollback** (eighth scenario). A transaction of the leader times out and
  `txn_limbo_wait_complete` writes ROLLBACK, with `is_in_rollback` set. PROMOTE of a new leader
  reaches the deposed one before the write ends. `txn_limbo_req_prepare` then asserts
  `!limbo->is_in_rollback` (`txn_limbo.c:1684`), which is false; nothing on the way checks it or
  waits for it. A build without assertions accepts the PROMOTE in the middle of the rollback.
- **Retry of `box_promote_qsync`** (fourth scenario). `box_wait_limbo_acked` ends with
  `ER_QUORUM_WAIT` when a transaction has come, or the quorum has grown, during its wait.
  `box_raft_update_synchro_queue` calls `box_promote_qsync` again without a look at the state, which
  asserts `raft->state == RAFT_STATE_LEADER`; the instance may have lost the leadership meanwhile.

Other behaviours were noticed while modelling. No run states them as a violation.

- `raft_process_recovery` keeps the vote of an older term when a later row has no vote, so a
  restarted instance may show a vote in a term in which it cast none. `VoteUniqueness` covers
  it: the instance then votes for nobody else in the term. `VoteCoversLog` does **not**: it is
  stated while the vclock of the candidate is known, which a restart forgets, so whether such
  a vote can elect a candidate with an older log is open.
- A candidate that loses its connection quorum between its vote request and the answers may
  still become a leader. Fencing acts when the quorum is lost, so it does not stop this
  leader, and `QuorumLossFences` is stated for instances that already lead.

- `raft_cfg_death_timeout` (`raft.c:1284`) does not look at `is_write_in_progress`: a change of the
  timeout restarts the timer that a write has stopped, which the timer callback asserts not to
  happen (`raft.c:974-977`). `TimerStopsForWrite` states it as its exception, and the run `election`
  has such a step.
- The comment before `tx_complete_rollback` says "So when rollback is started, *all* pending
  transactions should be rolled back". A fiber that waits in the journal queue is not part of it: it
  is submitted after the rollback and may commit. `TxLog` promises nothing for it.
- An entry that `wal_write_async` refuses during a rollback stays in `journal_queue.size`, because
  only completed entries are taken out. `SizeIsAccounted` counts such entries, and `WritesEnd`
  excepts a queue that they have filled.
- The read view of a checkpoint has the changes of writes that still wait in the journal queue,
  while its vclock does not cover them. `CheckpointHasNoRollback` leaves them out.
- A transaction that times out and is not the first of the synchronous queue waits from then on
  without a timeout (`txn_limbo.c:357`), also if the first one is confirmed later.
- A new leader whose PROMOTE is on the way refuses synchronous rows of the deposed leader with
  `ER_SYNC_QUEUE_UNCLAIMED`, which stops the applier. `ER_INTERFERING_PROMOTE` ends
  `box_raft_update_synchro_queue` without another try, unlike `ER_QUORUM_WAIT`.

## Proofs

All theorems hold for every non-empty finite set of instances, all modes, quorums, bounds
and budgets allowed by `ServerAssumption` and `BoxRaftAssumption` (`VotersAssumption` for
`RaftVotes`, `JournalAssumption` for `Journal`); TLC evaluates the assumptions in every run.

| theorem | module | says |
|---|---|---|
| `TypeCorrect` | `BoxRaftProofs` | `Spec => []TypeOK` |
| `OwnVoteCorrect` | `BoxRaftProofs` | `Spec => []OwnVoteIsCounted` |
| `TermsCorrect` | `BoxRaftProofs` | `Spec => TermsOnlyGrow` |
| `VotesCorrect` | `BoxRaftVoteProofs` | `Spec /\ CheckpointsWait => []VoteUniqueness` |
| `CountersAreRight` | `RaftVotesProofs` | `Spec => []CountersMatchVotes` |
| `SplitVoteIsRight` | `RaftVotesProofs` | `Spec => []SplitVoteIsExact` |
| `JournalNoLostWakeup` | `JournalProofs` | `Spec => []NoLostWakeup` |
| `JournalNoOvertaking` | `JournalProofs` | `Spec => []NoOvertaking` |
| `JournalWatcherIsUpToDate` | `JournalProofs` | `Spec => []WatcherIsUpToDate` |

**Handlers.** `RaftNodeProofs` has two relations between a state of `struct raft` and the
next one. `Same(r, n)`: terms, votes and the own entry among the counted votes are untouched.
`Follows(r, n)`: what is on disk is untouched, the volatile term does not decrease, within a
term a volatile vote stays, and the own vote stays counted. Every function of `raft.c` is one
or the other, and both compose like the calls do. The functions that end a write are the
exception; `DumpedKept` and `NoDumpKept` say what they do.

**Terms.** The inductive invariant `TermInv` adds to `TypeOK`, for each instance: the volatile
state is ahead of the one on disk (`Kept`), a row being written is between the two
(`KeptRow`), and the own vote is counted (`Counted`). It is needed because messages arrive
while the row is being written, and the row becomes the state on disk afterwards.
`BoxRaftHandlerProofs` shows that most actions only run a handler of one instance (`Handled`);
`BoxRaftProofs` treats the worker, the WAL queue, checkpoints, crash and restart.

**Votes.** `VoteInv` says of each instance that a row which is queued or just written is newer
than every vote the instance has shown (`Fresh`); that the files, and the checkpoint in
progress, contradict none of these votes (`Covers`); and that at most one Raft row is queued,
after the rotation of a checkpoint if there is one (`QueueOK`). The last part is what a
checkpoint that begins during a write breaks. Hence the assumption `CheckpointsWait`: no
checkpoint begins while the worker waits for the WAL. The run `checkpoint` shows that the code
does not guarantee it, the run `restart` checks the property without checkpoints.

**Counters.** `IInv` of `RaftVotesProofs` adds to the match of counters and votes that the own
vote is the one counted for the node itself, because `raft_revoke_vote` decrements the counter
of `volatile_vote`. The proof counts by cardinalities of finite sets (`CountAfterVote`).

**Journal.** `JournalInv` has three parts. `QueueInv`: `waiter_count` is the number of listed and of
woken fibers, and with nobody woken a listed one waits only for a full queue. `OrderInv`: the woken
fibers followed by the listed ones are exactly the waiting ones, in the order of their calls, and
nobody after them has left. `PipeInv`: messages complete only entries that have left the queue.
`NoLostWakeup` alone is not inductive, because `journal_queue_has_waiters` decides by the counter
and the wakeup by the list; `NoOvertaking` needs the order of the two lists, because a fiber leaves
the first at the head and a flush moves all of the second. `WatcherInv` says that a message on its
way back without a pending event finds the log as long as the watcher has read it.

Only model-checked, not proved: liveness (`WriteCompletes`, `LeaderIsLearnt`, `ElectionsGoOn`,
`WritesEnd`), which needs fairness and is outside the prover's reach; the refinement `KeepsPromise`,
whose mapping flattens sequences of batches by a fold; `ElectionSafety` and the remaining invariants
of `BoxRaft`; and the properties of `Limbo`, whose operators fold over the queue.

## What is not modelled

- Clock values, the random part of the election timeout, `leader_idle` and statistics.
- Errors of WAL writes of Raft rows and of CONFIRM, ROLLBACK and PROMOTE: the code panics.
- In `BoxRaft`: the content of data rows, transactions and the synchronous queue;
  `box_promote_qsync` is a call that blocks the worker of a leader for an arbitrary time.
- In `Journal`: a fiber in `journal_queue_wait` that is woken by somebody else (the function yields
  once, without a loop); crashes (see `BoxRaft`); what the entries change in an engine.
- In `Limbo`: DEMOTE and an unclaimed queue, promotion by a user, crashes and recovery, the
  checkpoint of the queue, failed writes, and a PROMOTE that a third instance relays before the
  term is known (`txn_limbo_ack_txn` asserts that the queue is writable). Elections are one step;
  their own races are in `BoxRaft`.
- Registration of new replicas and anonymous replicas: the set of instances is fixed.
- Replication topologies other than full mesh, `replication_connect_quorum` at bootstrap.
- A crash of a machine that loses what `fsync` has not saved (`wal_mode` other than `fsync`).
- The components marked `not_modelled` in `PROJECT.json`, with the reasons there.

The modelled files are a small part of the sources by lines. Most of the others are SQL, tuples and
indexes, Vinyl, Lua bindings, encoders and bundled libraries: sequential
code on data that a model checker cannot enumerate, where a faithful model would be a transcript
of the code. What was chosen is where several fibers, threads or instances share state.
