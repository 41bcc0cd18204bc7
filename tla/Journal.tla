------------------------------ MODULE Journal -------------------------------
(***************************************************************************)
(* The journal of an instance: the queue of fibers that wait to write      *)
(* (src/src/box/journal.c, journal.h) and the WAL writer                   *)
(* (src/src/box/wal.c), a thread that writes batches of entries to a file. *)
(* A failed write rolls back the entries that were sent after it           *)
(* ("cascading rollback").  Checkpoints and wal_sync are calls to the WAL  *)
(* thread in the same pipe as the batches.  A watcher is the relay that    *)
(* reads the files.                                                        *)
(* Each entry is one row of its own fiber and counts as 1 in the size of   *)
(* the queue and in the size of the files.                                 *)
(***************************************************************************)
EXTENDS Integers, Sequences, SequencesExt, FiniteSets

CONSTANTS
    MaxEntries, \* bound: writes to the journal
    Scenarios   \* initial settings and bounds, a set of Scenario

\* max_size: wal_queue_max_size; threshold: checkpoint_wal_threshold.
\* Bounds: writes, resizes of the queue, failed writes, checkpoints that
\* box.snapshot starts, wal_sync calls.
Scenario == [max_size : Nat \ {0}, threshold : Nat,
             entries : 0..MaxEntries, resizes : Nat, errors : Nat, checkpoints : Nat, syncs : Nat]

ASSUME JournalAssumption ==
    MaxEntries \in Nat /\ Scenarios \subseteq Scenario /\ Scenarios # {}

\* Journal entries, numbered in the order of the calls of journal_write, and
\* the fibers that write them. 0: no entry.
Entry == 1..MaxEntries

VARIABLES
    queue,      \* journal_queue, with the fibers it has made ready to run
    fiber,      \* where the write of each entry is
    input,      \* wal_pipe.input: messages to WAL that tx has not flushed
    wal_pipe,   \* messages that the WAL thread has not processed
    tx_pipe,    \* messages from WAL that tx has not processed
    tx,         \* members of wal_writer that tx uses, and replicaset.vclock
    wal,        \* members of wal_writer that the WAL thread uses
    log,        \* the entries in the WAL files
    watcher,    \* a WAL watcher and how much of the log it has read
    gc,         \* the checkpoint in progress
    sync,       \* a call of wal_sync
    budget,     \* the settings and what is left of the bounds
    committed   \* history: entries in the order of their commit

txVars == <<queue, fiber, input, tx, committed>>
vars == <<queue, fiber, input, wal_pipe, tx_pipe, tx, wal, log, watcher, gc, sync, budget,
          committed>>

\* struct wal_msg ("batch"), the message of tx_complete_rollback ("rollback"),
\* cbus calls and the notification of the checkpoint threshold ("notify").
MsgType == {"batch", "rollback", "sync", "begin", "commit", "notify"}
Msg == [type : MsgType, commit : Seq(Entry), rollback : Seq(Entry), vclock : Nat,
        wal_size : Nat, ok : BOOLEAN]
NewMsg(type) == [type |-> type, commit |-> <<>>, rollback |-> <<>>, vclock |-> 0,
                 wal_size |-> 0, ok |-> TRUE]

\* A write waits in the queue, is on its way through the WAL, or is over:
\* "refused" by the valve in wal_write_async, "failed" if rolled back.
Location == {"new", "waiting", "sent", "committed", "failed", "refused"}

\* Every variable keeps its type.
TypeOK ==
    /\ queue \in [max_size : Nat, size : Nat, waiters : Seq(Entry), waiter_count : Nat,
                  ready : Seq(Entry)]
    /\ fiber \in [Entry -> Location]
    /\ input \in Seq(Msg) /\ wal_pipe \in Seq(Msg) /\ tx_pipe \in Seq(Msg)
    /\ tx \in [rollback : Seq(Entry), last_entry : 0..MaxEntries, vclock : Nat]
    /\ wal \in [vclock : Nat, is_in_rollback : BOOLEAN, checkpoint_vclock : Nat,
                checkpoint_wal_size : Nat, checkpoint_triggered : BOOLEAN]
    /\ log \in Seq(Entry)
    /\ watcher \in [route : {"none", "watcher", "wal"}, pending : BOOLEAN, seen : Nat]
    /\ gc \in [phase : {"idle", "begin", "engine", "commit"}, pending : BOOLEAN,
               view : SUBSET Entry, waiting : SUBSET Entry, vclock : Nat, wal_size : Nat]
    /\ sync \in [phase : {"idle", "wait", "ok", "failed"}, sent : SUBSET Entry]
    /\ budget \in Scenario
    /\ committed \in Seq(Entry)

Spend(event) ==
    budget[event] > 0 /\ budget' = [budget EXCEPT ![event] = @ - 1]

Init ==
    /\ \E s \in Scenarios :
        /\ budget = s
        /\ queue = [max_size |-> s.max_size, size |-> 0, waiters |-> <<>>,
                    waiter_count |-> 0, ready |-> <<>>]
    /\ fiber = [e \in Entry |-> "new"]
    /\ input = <<>> /\ wal_pipe = <<>> /\ tx_pipe = <<>>
    /\ tx = [rollback |-> <<>>, last_entry |-> 0, vclock |-> 0]
    /\ wal = [vclock |-> 0, is_in_rollback |-> FALSE, checkpoint_vclock |-> 0,
              checkpoint_wal_size |-> 0, checkpoint_triggered |-> FALSE]
    /\ log = <<>>
    /\ watcher = [route |-> "none", pending |-> FALSE, seen |-> 0]
    /\ gc = [phase |-> "idle", pending |-> FALSE, view |-> {}, waiting |-> {}, vclock |-> 0, wal_size |-> 0]
    /\ sync = [phase |-> "idle", sent |-> {}]
    /\ committed = <<>>

-----------------------------------------------------------------------------
(* src/src/box/journal.c, journal.h: the queue.                            *)

journal_queue_is_full(q) == q.size >= q.max_size

\* Mutant: fibers that were woken up and have not run yet are not counted.
journal_queue_has_listed_waiters(q) == q.waiters # <<>>

journal_queue_has_waiters(q) == q.waiter_count # 0

\* fiber_wakeup takes a fiber from the list it waits in and puts it at the
\* end of the list of ready fibers.
journal_queue_wakeup(q) ==
    IF q.waiters # <<>> /\ ~journal_queue_is_full(q)
    THEN [q EXCEPT !.waiters = Tail(@), !.ready = Append(@, Head(q.waiters))]
    ELSE q

\* journal_queue_wait up to its yield.
journal_queue_wait(q, e) ==
    [q EXCEPT !.waiters = Append(@, e), !.waiter_count = @ + 1]

\* Mutant: a fiber does not wake up the next one.
journal_queue_resume_alone(q) == [q EXCEPT !.ready = Tail(@), !.waiter_count = @ - 1]

\* journal_queue_wait after the yield.
journal_queue_resume(q) ==
    journal_queue_wakeup([q EXCEPT !.ready = Tail(@), !.waiter_count = @ - 1])

\* journal_queue_flush up to the yield.
journal_queue_flush(q, e) ==
    journal_queue_wait([q EXCEPT !.ready = @ \o q.waiters, !.waiters = <<>>], e)

journal_queue_on_append(q) == [q EXCEPT !.size = @ + 1]

\* Mutants: an entry is taken out twice; a list is taken out as one entry.
journal_queue_on_complete_twice(q, n) == [q EXCEPT !.size = @ - 2 * n]
journal_queue_on_complete_once(q, n) == [q EXCEPT !.size = IF n = 0 THEN @ ELSE @ - 1]

\* For the n entries of a list.
journal_queue_on_complete(q, n) == [q EXCEPT !.size = @ - n]

\* The n entries of a list are completed, then a waiter is woken up.
tx_schedule_queue(q, n) == journal_queue_wakeup(journal_queue_on_complete(q, n))

-----------------------------------------------------------------------------
(* The tx thread sends entries to the WAL.                                 *)

\* The last step of a write, with the queue in state q: the size of the entry
\* is added, and wal_write_async refuses the entry during a rollback, adds it
\* to the batch at the head of the input, or starts a new batch.
wal_write_async(q, e) ==
    /\ queue' = journal_queue_on_append(q)
    /\ \/ /\ tx.rollback # <<>>
          /\ fiber' = [fiber EXCEPT ![e] = "refused"]
          /\ UNCHANGED <<input, tx>>
       \/ /\ tx.rollback = <<>>
          /\ fiber' = [fiber EXCEPT ![e] = "sent"]
          /\ input' = IF input # <<>> /\ Head(input).type = "batch"
                      THEN [input EXCEPT ![1].commit = Append(@, e)]
                      ELSE Append(input, [NewMsg("batch") EXCEPT !.commit = <<e>>])
          /\ tx' = [tx EXCEPT !.last_entry = e]

Wait(q, e) ==
    /\ queue' = q
    /\ fiber' = [fiber EXCEPT ![e] = "waiting"]
    /\ UNCHANGED <<input, tx>>

\* A fiber writes the next entry.
IsNext(e) ==
    e <= budget.entries /\ fiber[e] = "new" /\ \A d \in 1..(e - 1) : fiber[d] # "new"

journal_write_try_async(e) ==
    /\ IsNext(e)
    /\ IF ~journal_queue_is_full(queue) /\ ~journal_queue_has_waiters(queue)
       THEN wal_write_async(queue, e)
       ELSE Wait(journal_queue_wait(queue, e), e)
    /\ UNCHANGED <<wal_pipe, tx_pipe, wal, log, watcher, gc, sync, budget, committed>>

journal_write(e) ==
    /\ IsNext(e)
    /\ IF ~journal_queue_has_waiters(queue)
       THEN wal_write_async(queue, e)
       ELSE Wait(journal_queue_flush(queue, e), e)
    /\ UNCHANGED <<wal_pipe, tx_pipe, wal, log, watcher, gc, sync, budget, committed>>

\* The next ready fiber runs and finishes its write.
Resume ==
    /\ queue.ready # <<>>
    /\ wal_write_async(journal_queue_resume(queue), Head(queue.ready))
    /\ UNCHANGED <<wal_pipe, tx_pipe, wal, log, watcher, gc, sync, budget, committed>>

\* box.cfg{wal_queue_max_size = size}
journal_queue_set_max_size(size) ==
    /\ size # queue.max_size /\ Spend("resizes")
    /\ queue' = journal_queue_wakeup([queue EXCEPT !.max_size = size])
    /\ UNCHANGED <<fiber, input, wal_pipe, tx_pipe, tx, wal, log, watcher, gc, sync,
                   committed>>

\* cpipe_flush_cb, at the end of an iteration of the event loop.
TxFlush ==
    /\ input # <<>>
    /\ wal_pipe' = wal_pipe \o input /\ input' = <<>>
    /\ UNCHANGED <<queue, fiber, tx_pipe, tx, wal, log, watcher, gc, sync, budget,
                   committed>>

-----------------------------------------------------------------------------
(* The WAL thread.                                                         *)

\* Mutant: an event is dropped when a message is en route.
wal_watcher_notify_once(w) == [w EXCEPT !.route = IF @ = "none" THEN "watcher" ELSE @]

\* wal_watcher_notify: a message that is still en route is sent again when it
\* comes back.
wal_watcher_notify(w) ==
    IF w.route # "none" THEN [w EXCEPT !.pending = TRUE] ELSE [w EXCEPT !.route = "watcher"]

\* Mutant: the vclock counts the entries that were not written.
WalReply_with_batch(msg, n) ==
    [msg EXCEPT !.vclock = wal.vclock + Len(msg.commit), !.commit = SubSeq(@, 1, n),
                !.rollback = SubSeq(msg.commit, n + 1, Len(msg.commit))]

\* The WAL thread sends the message back with the first n entries written.
WalReply(msg, n) ==
    [msg EXCEPT !.vclock = wal.vclock + n, !.commit = SubSeq(@, 1, n),
                !.rollback = SubSeq(msg.commit, n + 1, Len(msg.commit))]

\* wal_write_to_disk: all entries of the batch are written, or the first n of
\* them, up to the last flush before an error, or none during a rollback. The
\* tx thread is told when the files have grown over the threshold.
wal_write_to_disk ==
    /\ wal_pipe # <<>> /\ Head(wal_pipe).type = "batch"
    /\ \E n \in 0..Len(Head(wal_pipe).commit) :
        LET batch == Head(wal_pipe)
            is_written == n = Len(batch.commit)
            size == wal.checkpoint_wal_size + n
            notify == is_written /\ ~wal.checkpoint_triggered /\ size > budget.threshold
        IN  /\ wal.is_in_rollback => n = 0
            /\ IF is_written \/ wal.is_in_rollback THEN UNCHANGED budget ELSE Spend("errors")
            /\ log' = log \o SubSeq(batch.commit, 1, n)
            /\ wal' = [wal EXCEPT !.vclock = @ + n, !.checkpoint_wal_size = size,
                                  !.checkpoint_triggered = @ \/ notify,
                                  !.is_in_rollback = @ \/ ~is_written]
            /\ tx_pipe' = tx_pipe \o (IF notify THEN <<NewMsg("notify")>> ELSE <<>>)
                                  \o <<WalReply(batch, n)>>
    /\ wal_pipe' = Tail(wal_pipe)
    /\ watcher' = wal_watcher_notify(watcher)
    /\ UNCHANGED <<queue, fiber, input, tx, gc, sync, committed>>

wal_complete_rollback ==
    /\ wal_pipe # <<>> /\ Head(wal_pipe).type = "rollback"
    /\ wal_pipe' = Tail(wal_pipe)
    /\ wal' = [wal EXCEPT !.is_in_rollback = FALSE]
    /\ UNCHANGED <<queue, fiber, input, tx_pipe, tx, log, watcher, gc, sync, budget,
                   committed>>

\* The WAL thread answers a call, with its vclock and size.
WalAnswer(type, ok) ==
    /\ wal_pipe # <<>> /\ Head(wal_pipe).type = type
    /\ wal_pipe' = Tail(wal_pipe)
    /\ tx_pipe' = Append(tx_pipe, [NewMsg(type) EXCEPT
                    !.ok = ok, !.vclock = wal.vclock, !.wal_size = wal.checkpoint_wal_size])
    /\ UNCHANGED <<txVars, wal, log, watcher, gc, sync, budget>>

\* Mutant: wal_sync does not fail during a rollback.
wal_sync_f_in_rollback == WalAnswer("sync", TRUE)

wal_sync_f == WalAnswer("sync", ~wal.is_in_rollback)

\* Mutant: a checkpoint begins during a rollback.
wal_begin_checkpoint_f_in_rollback == WalAnswer("begin", TRUE)

wal_begin_checkpoint_f == WalAnswer("begin", ~wal.is_in_rollback)

\* The WAL thread's part of a successful checkpoint, after which it counts size.
WalCommitCheckpoint(size) ==
    /\ wal_pipe # <<>> /\ Head(wal_pipe).type = "commit"
    /\ wal_pipe' = Tail(wal_pipe)
    /\ wal' = [wal EXCEPT !.checkpoint_vclock = Head(wal_pipe).vclock,
                          !.checkpoint_wal_size = size,
                          !.checkpoint_triggered = FALSE]
    /\ tx_pipe' = Append(tx_pipe, Head(wal_pipe))
    /\ UNCHANGED <<txVars, log, watcher, gc, sync, budget>>

\* Mutant: what was written during the checkpoint is forgotten.
wal_commit_checkpoint_f_to_zero == WalCommitCheckpoint(0)

wal_commit_checkpoint_f ==
    WalCommitCheckpoint(wal.checkpoint_wal_size - Head(wal_pipe).wal_size)

\* wal_watcher_notify_perform: the relay reads all that is in the files.
wal_watcher_notify_perform ==
    /\ watcher.route = "watcher"
    /\ watcher' = [watcher EXCEPT !.route = "wal", !.seen = Len(log)]
    /\ UNCHANGED <<txVars, wal_pipe, tx_pipe, wal, log, gc, sync, budget>>

wal_watcher_notify_complete ==
    /\ watcher.route = "wal"
    /\ watcher' = IF watcher.pending
                  THEN [wal_watcher_notify([watcher EXCEPT !.route = "none"])
                            EXCEPT !.pending = FALSE]
                  ELSE [watcher EXCEPT !.route = "none"]
    /\ UNCHANGED <<txVars, wal_pipe, tx_pipe, wal, log, gc, sync, budget>>

-----------------------------------------------------------------------------
(* The tx thread processes the answers.                                    *)

\* Mutants: the rollback starts with the first failed batch; the border is
\* compared with the wrong end of the list.
IsRollbackComplete_at_once(rollback) == rollback # <<>>
IsRollbackComplete_by_head(rollback) == rollback # <<>> /\ Head(rollback) = tx.last_entry

\* The list of entries to roll back is complete: see tx_complete_rollback.
IsRollbackComplete(rollback) ==
    rollback # <<>> /\ Last(rollback) = tx.last_entry

\* tx_complete_batch, with tx_complete_rollback.
tx_complete_batch ==
    /\ tx_pipe # <<>> /\ Head(tx_pipe).type = "batch"
    /\ LET batch == Head(tx_pipe)
           rollback == tx.rollback \o batch.rollback
           is_over == batch.rollback # <<>> /\ IsRollbackComplete(rollback)
           rolled == IF is_over THEN rollback ELSE <<>>
           q == IF is_over THEN tx_schedule_queue(queue, Len(rollback)) ELSE queue
       IN  /\ tx' = [tx EXCEPT !.rollback = IF is_over THEN <<>> ELSE rollback,
                               !.vclock = batch.vclock]
           /\ input' = IF is_over THEN Append(input, NewMsg("rollback")) ELSE input
           /\ queue' = tx_schedule_queue(q, Len(batch.commit))
           /\ fiber' = [e \in Entry |->
                CASE Contains(batch.commit, e) -> "committed"
                  [] Contains(rolled, e) -> "failed"
                  [] OTHER -> fiber[e]]
           /\ committed' = committed \o batch.commit
    /\ tx_pipe' = Tail(tx_pipe)
    /\ UNCHANGED <<wal_pipe, wal, log, watcher, gc, sync, budget>>

\* tx_notify_checkpoint and gc_trigger_checkpoint.
tx_notify_checkpoint ==
    /\ tx_pipe # <<>> /\ Head(tx_pipe).type = "notify"
    /\ tx_pipe' = Tail(tx_pipe)
    /\ gc' = [gc EXCEPT !.pending = @ \/ gc.phase = "idle"]
    /\ UNCHANGED <<txVars, wal_pipe, wal, log, watcher, sync, budget>>

-----------------------------------------------------------------------------
(* Calls to the WAL thread.                                                *)

\* cbus_call: the message is pushed, and the caller waits for the answer.
Call(msg) ==
    /\ input' = Append(input, msg)
    /\ UNCHANGED <<queue, fiber, wal_pipe, tx_pipe, tx, wal, log, watcher, committed>>

\* A call that fails before it reaches the WAL thread.
NoCall == UNCHANGED <<txVars, wal_pipe, tx_pipe, wal, log, watcher>>

wal_sync ==
    /\ sync.phase = "idle" /\ Spend("syncs")
    /\ \/ /\ tx.rollback # <<>>
          /\ sync' = [phase |-> "failed", sent |-> {}]
          /\ NoCall
       \/ /\ tx.rollback = <<>>
          /\ sync' = [phase |-> "wait", sent |-> {e \in Entry : fiber[e] = "sent"}]
          /\ Call(NewMsg("sync"))
    /\ UNCHANGED gc

wal_sync_done ==
    /\ tx_pipe # <<>> /\ Head(tx_pipe).type = "sync"
    /\ sync' = [sync EXCEPT !.phase = IF Head(tx_pipe).ok THEN "ok" ELSE "failed"]
    /\ tx_pipe' = Tail(tx_pipe)
    /\ UNCHANGED <<txVars, wal_pipe, wal, log, watcher, gc, budget>>

\* gc_do_checkpoint from box.snapshot or from the checkpoint daemon, up to the
\* call of the WAL thread. The engine opens its read view first: it has the
\* changes of all transactions that are not over, written or not.
gc_do_checkpoint ==
    /\ gc.phase = "idle"
    /\ \/ gc.pending /\ UNCHANGED budget
       \/ Spend("checkpoints")
    /\ \/ /\ tx.rollback # <<>>
          /\ gc' = [gc EXCEPT !.pending = FALSE]
          /\ NoCall
       \/ /\ tx.rollback = <<>>
          /\ gc' = [gc EXCEPT !.phase = "begin", !.pending = FALSE,
                             !.view = {e \in Entry : fiber[e] \in {"waiting", "sent", "committed"}},
                             !.waiting = {e \in Entry : fiber[e] = "waiting"}]
          /\ Call(NewMsg("begin"))
    /\ UNCHANGED sync

wal_begin_checkpoint_done ==
    /\ tx_pipe # <<>> /\ Head(tx_pipe).type = "begin"
    /\ LET msg == Head(tx_pipe)
       IN  gc' = IF msg.ok
                 THEN [gc EXCEPT !.phase = "engine", !.vclock = msg.vclock,
                                 !.wal_size = msg.wal_size]
                 ELSE [gc EXCEPT !.phase = "idle"]
    /\ tx_pipe' = Tail(tx_pipe)
    /\ UNCHANGED <<txVars, wal_pipe, wal, log, watcher, sync, budget>>

\* engine_commit_checkpoint has written the snapshot, or failed.
wal_commit_checkpoint ==
    /\ gc.phase = "engine"
    /\ \/ /\ gc' = [gc EXCEPT !.phase = "commit"]
          /\ Call([NewMsg("commit") EXCEPT !.vclock = gc.vclock, !.wal_size = gc.wal_size])
       \/ /\ gc' = [gc EXCEPT !.phase = "idle"]
          /\ NoCall
    /\ UNCHANGED <<sync, budget>>

wal_commit_checkpoint_done ==
    /\ tx_pipe # <<>> /\ Head(tx_pipe).type = "commit"
    /\ gc' = [gc EXCEPT !.phase = "idle"]
    /\ tx_pipe' = Tail(tx_pipe)
    /\ UNCHANGED <<txVars, wal_pipe, wal, log, watcher, sync, budget>>

-----------------------------------------------------------------------------

Next ==
    \/ \E e \in Entry : journal_write(e) \/ journal_write_try_async(e)
    \/ \E size \in 1..Cardinality(Entry) : journal_queue_set_max_size(size)
    \/ Resume
    \/ TxFlush
    \/ wal_write_to_disk
    \/ wal_complete_rollback
    \/ wal_sync_f
    \/ wal_begin_checkpoint_f
    \/ wal_commit_checkpoint_f
    \/ wal_watcher_notify_perform
    \/ wal_watcher_notify_complete
    \/ tx_complete_batch
    \/ tx_notify_checkpoint
    \/ wal_sync
    \/ wal_sync_done
    \/ gc_do_checkpoint
    \/ wal_begin_checkpoint_done
    \/ wal_commit_checkpoint
    \/ wal_commit_checkpoint_done

Spec == Init /\ [][Next]_vars

\* Ready fibers run, the event loop flushes the pipe, and both threads process
\* their messages.
Fairness ==
    /\ WF_vars(Resume)
    /\ WF_vars(TxFlush)
    /\ WF_vars(wal_write_to_disk \/ wal_complete_rollback \/ wal_sync_f
                \/ wal_begin_checkpoint_f \/ wal_commit_checkpoint_f)
    /\ WF_vars(tx_complete_batch \/ tx_notify_checkpoint \/ wal_sync_done
                \/ wal_begin_checkpoint_done \/ wal_commit_checkpoint_done)

FairSpec == Spec /\ Fairness

-----------------------------------------------------------------------------
(* Properties.                                                             *)

\* The entries that were handed to the WAL and are not over, in their order.
Entries(pipe) == FlattenSeq([k \in DOMAIN pipe |-> pipe[k].commit \o pipe[k].rollback])
Pending == tx.rollback \o Entries(tx_pipe) \o Entries(wal_pipe) \o Entries(input)

Promise == INSTANCE TxLog WITH pending <- Pending

\* Batches in flight, partial writes and the two flags of a rollback implement
\* the promise of the journal: entries commit in the order in which they were
\* handed to the WAL, and a failure rolls back all that is in flight.
KeepsPromise == Promise!Spec

\* A transaction is committed on tx only when it is in the files, at the place
\* of its commit, and replicaset.vclock counts exactly the committed ones, also
\* while other batches are being written or rolled back.
CommittedIsLogged == IsPrefix(committed, log) /\ tx.vclock = Len(committed)

\* A write does not overtake one that was called earlier and waits in the queue,
\* although woken fibers, new calls and a flush by a synchronous write compete.
NoOvertaking ==
    \A d, e \in Entry : d < e /\ fiber[d] = "waiting" => fiber[e] \in {"new", "waiting"}

\* No wakeup is lost: a fiber stays in the queue with nobody on the way to wake
\* it up only as long as the queue is full.
NoLostWakeup ==
    queue.waiters # <<>> /\ queue.ready = <<>> => journal_queue_is_full(queue)

\* The queue counts the entries that are not completed, once each. (Also those
\* that the valve of wal_write_async has refused, which nobody takes out.)
SizeIsAccounted ==
    queue.size = Cardinality({e \in Entry : fiber[e] \in {"sent", "refused"}})

\* wal_sync succeeds only if all writes submitted before it have committed; a
\* rollback that starts or ends while the call is in the pipe does not fool it.
SyncMeansWritten == sync.phase = "ok" => sync.sent \subseteq ToSet(committed)

\* A checkpoint goes on only if all changes in its read view that were handed to
\* the WAL are in the files it covers: a snapshot has nothing that a cascading
\* rollback takes back.
CheckpointHasNoRollback ==
    gc.phase \in {"engine", "commit"} =>
        gc.view \ gc.waiting \subseteq ToSet(SubSeq(log, 1, gc.vclock))

\* The size that triggers the next checkpoint counts exactly what was written
\* after the last one, although writes go on while a checkpoint is made.
CheckpointSizeIsExact == wal.checkpoint_wal_size = Len(log) - wal.checkpoint_vclock

\* No notification of a watcher is lost: one with no message en route has read
\* all there is in the files.
WatcherIsUpToDate == watcher.route = "none" => watcher.seen = Len(log)

\* Every write ends, also the ones that wait in the queue, unless the entries that
\* wal_write_async has refused, whose size nobody takes out, fill the queue.
WritesEnd ==
    \A e \in Entry :
        fiber[e] \in {"waiting", "sent"} ~>
            \/ fiber[e] \in {"committed", "failed", "refused"}
            \/ Cardinality({d \in Entry : fiber[d] = "refused"}) >= queue.max_size
=============================================================================
