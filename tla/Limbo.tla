------------------------------- MODULE Limbo --------------------------------
(***************************************************************************)
(* Synchronous replication of a replica set in election mode "candidate":  *)
(* transactions of the leader, the fibers that end them, ACKs, the applier *)
(* (src/src/box/applier.cc), and the change of the leader with             *)
(* box_promote_qsync (src/src/box/box.cc).  Elections are those of BoxRaft, *)
(* in one step.  Instances do not fail, and the WAL writes all it is given *)
(* in order (see Journal for its failures).                                *)
(***************************************************************************)
EXTENDS LimboNode

CONSTANTS
    First,      \* the leader of term 1
    MaxBound,   \* bound of what a scenario allows of each kind of event
    Scenarios   \* settings and bounds, a set of Scenario

\* members: the instances that are up; candidates: those with election_mode
\* "candidate", the others have "voter"; quorum: replication_synchro_quorum.
\* Bounds: transactions, expirations of replication_synchro_timeout, elections,
\* changes of the quorum on one instance.
Scenario == [members : SUBSET Node, candidates : SUBSET Node,
             quorum : 1..Cardinality(Node), sync : 0..MaxBound,
             async : 0..MaxBound, timeouts : 0..MaxBound, elections : 0..MaxBound,
             quorums : 0..MaxBound]

ASSUME LimboAssumption ==
    First \in Node /\ MaxBound \in Nat /\ Scenarios \subseteq Scenario

VARIABLES
    node,       \* the state of each instance
    budget      \* the settings and what is left of the bounds

vars == <<node, budget>>

NoId == <<>>
Params == <<0>>

\* What goes on after a write: for a transaction, the callback txn_on_journal_write
\* ("txn"); for a request of the applier, apply_synchro_req_cb ("request"); for
\* the others the fiber that waits for the write.
Then == {"txn", "request", "confirm", "confirm_promote", "rollback", "promote"}

\* The transaction whose fiber it is, if any, or txn_limbo_on_parameters_change_f.
FiberId == (Node \X Nat) \union {NoId, Params}

\* limbo: txn_limbo; wal: rows given to the WAL; writes: how to go on after the
\* last rows of wal, which tx does not know to be written; ready: woken fibers;
\* is_locked: promote_latch; lockers: ACKs that wait for it; filtered: requests
\* whose appliers wait for it between the filter and txn_limbo_begin; prepare: the
\* request in txn_limbo_wait_persisted with the instance it came from; qsync:
\* box_promote_qsync of the Raft worker, and has_work to call it; params: has_work of
\* on_parameters_change; term, is_leader: of Raft; votes: those a candidate gets,
\* each with the length of the voter's WAL before its vote; stopped: instances
\* whose applier has stopped here.
Write == [then : Then, id : FiberId]
Ready == [then : Then, id : FiberId, row : Row]
Locker == [lsn : Nat, prev : Nat, id : FiberId]
Prepare == [from : Node, req : Row]
Qsync == [phase : {"idle", "sync", "quorum", "lock"}, tid : FiberId, owner : Node, lsn : Nat,
          quorum : Nat, term : Nat, promote_term : Nat]
Instance == [limbo : LimboType, wal : Seq(Row), writes : Seq(Write), ready : Seq(Ready),
             is_locked : BOOLEAN, lockers : Seq(Locker), filtered : SUBSET Prepare,
             prepare : Seq(Prepare), qsync : Qsync, has_work : BOOLEAN, params : BOOLEAN,
             term : Nat, is_leader : BOOLEAN, votes : SUBSET (Node \X Nat), quorum : Nat,
             stopped : SUBSET Node]

\* Every variable keeps its type.
TypeOK == node \in [Node -> Instance] /\ budget \in Scenario

Spend(event) == budget[event] > 0 /\ budget' = [budget EXCEPT ![event] = @ - 1]

\* The rows of the origin in a WAL, which are its first ones.
Rows(wal, origin) == Len(SelectSeq(wal, LAMBDA r : r.origin = origin))
\* The rows that tx knows to be written (replicaset.vclock).
Written(n) == SubSeq(n.wal, 1, Len(n.wal) - Len(n.writes))

NewRow(type, origin, lsn, term) ==
    [type |-> type, origin |-> origin, lsn |-> lsn, replica_id |-> origin, req_lsn |-> 0,
     term |-> 0, prev_term |-> 0, at |-> term]

\* The first term: PROMOTE of First and its CONFIRM, which all have applied.
InitialWal ==
    << [NewRow("promote", First, 1, 1) EXCEPT !.term = 1],
       [NewRow("confirm", First, 2, 1) EXCEPT !.req_lsn = 1] >>
InitialLimbo(self) ==
    [queue |-> <<>>, owner_id |-> First, confirmed_lsn |-> 1,
     confirmed_vclock |-> [n \in Node |-> IF n = First THEN 1 ELSE 0],
     vclock |-> [n \in Node |-> IF self # First THEN 0 ELSE IF n = First THEN 1 ELSE 2],
     promote_term_map |-> [n \in Node |-> IF n = First THEN 1 ELSE 0],
     promote_greatest_term |-> 1, pending_promotes |-> <<>>, is_in_rollback |-> FALSE,
     is_writing_promote |-> FALSE, frozen |-> FALSE, committed |-> {}, aborted |-> {},
     failed |-> {}]
NoQsync == [phase |-> "idle", tid |-> NoId, owner |-> First, lsn |-> 0, quorum |-> 0,
            term |-> 0, promote_term |-> 0]

Init ==
    \E s \in Scenarios :
        /\ budget = s
        /\ node = [i \in Node |->
            [limbo |-> InitialLimbo(i), wal |-> InitialWal, writes |-> <<>>, ready |-> <<>>,
             is_locked |-> FALSE, lockers |-> <<>>, filtered |-> {}, prepare |-> <<>>,
             qsync |-> NoQsync, has_work |-> FALSE, params |-> FALSE, term |-> 1,
             is_leader |-> i = First, votes |-> {}, quorum |-> s.quorum, stopped |-> {}]]

-----------------------------------------------------------------------------
(* Steps of one instance n with the id self.                               *)

WriteRow(n, row, then, id) ==
    [n EXCEPT !.wal = Append(@, row), !.writes = Append(@, [then |-> then, id |-> id])]

WriteRequest(n, self, type, lsn, then, id) ==
    WriteRow(n, [NewRow(type, self, Rows(n.wal, self) + 1, n.term) EXCEPT !.req_lsn = lsn],
             then, id)

Unlock(n) == [n EXCEPT !.is_locked = FALSE]

\* txn_limbo_wait_complete: the fiber of the transaction waits if it is not over.
FiberWaits(n, id) ==
    IF HasEntry(n.limbo, id)
    THEN [n EXCEPT !.limbo.queue[EntryOf(n.limbo, id)].wait = "timed"] ELSE n

\* fiber_cond_broadcast(&limbo->wait_cond) of the parameters' fiber: who wakes up
\* in a frozen limbo waits on without a timeout.
WakeWaiters(n, id) ==
    IF id # Params \/ ~n.limbo.frozen THEN n
    ELSE LET timed == {k \in DOMAIN n.limbo.queue : n.limbo.queue[k].wait = "timed"}
         IN  [n EXCEPT !.limbo.queue =
                FoldSet(LAMBDA k, q : [q EXCEPT ![k].wait = "forever"], @, timed)]

\* The fiber goes on after what it did for an ACK or a new quorum.
GoOn(n, id) == WakeWaiters(FiberWaits(n, id), id)

\* CONFIRM for the transactions up to lsn, if there is one.
ConfirmTxn(n, self, lsn, id) ==
    IF lsn = -1 THEN GoOn(n, id)
    ELSE WriteRequest([n EXCEPT !.limbo = txn_limbo_write_confirm(@, self, lsn)],
                      self, "confirm", lsn, "confirm", id)

\* CONFIRM for the own PROMOTE with the latch locked, if there is a quorum.
ConfirmPromote(n, self, id) ==
    LET lsn == txn_limbo_maybe_confirm_promotes(n.limbo, self, n.term, n.quorum)
    IN  IF lsn = -1 THEN GoOn(Unlock(n), id)
        ELSE WriteRequest([n EXCEPT !.limbo = txn_limbo_write_confirm(@, self, lsn)],
                          self, "confirm", lsn, "confirm_promote", id)

\* txn_limbo_ack_promote with the latch locked.
AckPromote(n, self, lsn, prev, id) ==
    LET l == txn_limbo_ack_promote(n.limbo, self, n.term, lsn, prev)
    IN  IF l = n.limbo THEN GoOn(Unlock(n), id)
        ELSE ConfirmPromote([n EXCEPT !.limbo = l], self, id)

AckTxn(n, self, lsn, prev, id) ==
    LET l == txn_limbo_ack_txn(n.limbo, self, lsn, prev)
        acked == IF n.limbo.frozen THEN {} ELSE AckedEntries(n.limbo, lsn, prev)
    IN  ConfirmTxn([n EXCEPT !.limbo = l], self, LsnToConfirm(l, acked, n.quorum), id)

\* Mutant: ACKs are taken during a rollback.
txn_limbo_ack_in_rollback(n, self, from, lsn, id) ==
    AckTxn([n EXCEPT !.limbo = txn_limbo_ack_seen(@, from, lsn)],
           self, lsn, n.limbo.vclock[from], id)

txn_limbo_ack(n, self, from, lsn, id) ==
    LET prev == n.limbo.vclock[from]
        seen == [n EXCEPT !.limbo = txn_limbo_ack_seen(@, from, lsn)]
    IN  IF n.limbo.is_in_rollback \/ lsn <= prev THEN GoOn(n, id)
        ELSE IF txn_limbo_is_trying_to_promote(n.limbo, self, n.term)
        THEN IF n.is_locked
             THEN [seen EXCEPT !.lockers = Append(@, [lsn |-> lsn, prev |-> prev, id |-> id])]
             ELSE AckPromote([seen EXCEPT !.is_locked = TRUE], self, lsn, prev, id)
        ELSE IF n.limbo.owner_id = self THEN AckTxn(seen, self, lsn, prev, id)
        ELSE GoOn(seen, id)

\* Mutant: the limbo of a deposed leader is not fenced.
raft_process_term_without_fence(n, term) ==
    IF term <= n.term THEN n ELSE [n EXCEPT !.term = term, !.is_leader = FALSE, !.votes = {}]

\* box_raft_on_update_f of a greater term.
raft_process_term(n, term) ==
    IF term <= n.term THEN n
    ELSE [n EXCEPT !.term = term, !.is_leader = FALSE, !.votes = {},
                   !.limbo.frozen = @ \/ term > n.limbo.promote_greatest_term]

-----------------------------------------------------------------------------
(* Requests.                                                               *)

\* A request is written, or refused: the applier stops on these errors, and
\* box_promote_qsync gives up.
Prepared(n, self, from, req) ==
    LET m == [n EXCEPT !.limbo = txn_limbo_req_prepared(@, req), !.prepare = <<>>]
        own == [req EXCEPT !.lsn = Rows(n.wal, self) + 1]
    IN  IF txn_limbo_filter_request(n.limbo, req) = "none"
        THEN IF from = self THEN WriteRow(m, own, "promote", NoId)
             ELSE WriteRow(m, req, "request", NoId)
        ELSE IF from = self
             THEN Unlock([m EXCEPT !.limbo.is_writing_promote = FALSE, !.qsync = NoQsync])
             ELSE Unlock([m EXCEPT !.stopped = @ \union {from}])

\* txn_limbo_begin and txn_limbo_req_prepare, up to the write or the wait.
PrepareRequest(n, self, from, req) ==
    LET m == [n EXCEPT !.is_locked = TRUE, !.limbo = txn_limbo_req_prepare(@)]
    IN  IF IsPersisted(m.limbo) THEN Prepared(m, self, from, req)
        ELSE [m EXCEPT !.prepare = <<[from |-> from, req |-> req]>>]

\* box_issue_promote with the latch.
IssuePromote(n, self) ==
    IF n.term # n.qsync.term \/ n.limbo.promote_greatest_term # n.qsync.promote_term
    THEN [n EXCEPT !.qsync = NoQsync]
    ELSE PrepareRequest([n EXCEPT !.limbo.is_writing_promote = TRUE], self, self,
            txn_limbo_make_promote(n.limbo, self, n.qsync.lsn, n.term, 0))

\* The end of box_promote_qsync, with the lsn that box_wait_limbo_acked returns.
QsyncIssue(n, self, lsn) ==
    LET m == [n EXCEPT !.qsync = [NoQsync EXCEPT !.phase = "lock", !.lsn = lsn,
                        !.term = n.term, !.promote_term = n.limbo.promote_greatest_term]]
    IN  IF ~n.is_leader THEN [n EXCEPT !.qsync = NoQsync]
        ELSE IF n.is_locked THEN m ELSE IssuePromote(m, self)

\* box_wait_quorum counts the instance itself, and does not wait if that is enough.
\* quorum: replication_synchro_quorum when box_wait_limbo_acked was called.
QsyncWaitQuorum(n, self, quorum) ==
    IF quorum = 1 THEN QsyncIssue(n, self, LastSynchroLsn(n.limbo))
    ELSE [n EXCEPT !.qsync = [NoQsync EXCEPT !.phase = "quorum", !.owner = n.limbo.owner_id,
                                !.lsn = LastSynchroLsn(n.limbo), !.quorum = quorum,
                                !.promote_term = n.limbo.promote_greatest_term]]

LastSynchroId(l) == Last(SelectSeq(l.queue, LAMBDA e : e.sync)).id

\* Mutant: the write of the last synchronous transaction is not waited for.
box_promote_qsync_without_sync(n, self) ==
    IF n.limbo.promote_term_map[self] = n.term
       \/ txn_limbo_is_trying_to_promote(n.limbo, self, n.term)
    THEN n
    ELSE IF n.limbo.queue = <<>> THEN QsyncIssue(n, self, n.limbo.confirmed_lsn)
    ELSE QsyncWaitQuorum(n, self, n.quorum)

\* box_promote_qsync up to its first wait.
box_promote_qsync(n, self) ==
    IF n.limbo.promote_term_map[self] = n.term
       \/ txn_limbo_is_trying_to_promote(n.limbo, self, n.term)
    THEN n
    ELSE IF n.limbo.queue = <<>> THEN QsyncIssue(n, self, n.limbo.confirmed_lsn)
    ELSE IF LastSynchroLsn(n.limbo) < 0
    THEN [n EXCEPT !.qsync = [NoQsync EXCEPT !.phase = "sync", !.tid = LastSynchroId(n.limbo),
                                !.quorum = n.quorum,
                                !.promote_term = n.limbo.promote_greatest_term]]
    ELSE QsyncWaitQuorum(n, self, n.quorum)

\* ER_QUORUM_WAIT: box_raft_update_synchro_queue calls it again at once. It asserts
\* that the instance is the leader, which has been true only for the first call.
QsyncRetry(n, self) ==
    box_promote_qsync([n EXCEPT !.qsync = NoQsync,
                                !.limbo = Check(@, n.is_leader, "box_promote_qsync")], self)

-----------------------------------------------------------------------------
(* Actions.                                                                *)

Members == budget.members

Step(i, n) == node' = [node EXCEPT ![i] = n]

\* Mutant: an asynchronous transaction does not wait for synchronous ones.
txn_commit_at_once(i, is_sync) ==
    LET n == node[i]
        id == <<i, Rows(n.wal, i) + 1>>
        row == NewRow(IF is_sync THEN "sync" ELSE "async", i, id[2], n.term)
    IN  /\ n.is_leader /\ ~txn_limbo_is_ro(n.limbo, i)
        /\ Spend(IF is_sync THEN "sync" ELSE "async")
        /\ is_sync => txn_limbo_append_error(n.limbo, i, n.term, i) = "none"
        /\ Step(i, WriteRow(IF is_sync THEN [n EXCEPT !.limbo = txn_limbo_append(@, id, TRUE)]
                            ELSE n, row, "txn", id))

\* txn_commit of a transaction on the leader, up to the end of journal_write; one
\* that the limbo refuses leaves nothing behind.
txn_commit(i, is_sync) ==
    LET n == node[i]
        id == <<i, Rows(n.wal, i) + 1>>
        waits == is_sync \/ n.limbo.queue # <<>>
        type == IF is_sync THEN "sync" ELSE IF waits THEN "wait" ELSE "async"
        row == NewRow(type, i, id[2], n.term)
    IN  /\ n.is_leader /\ ~txn_limbo_is_ro(n.limbo, i)
        /\ Spend(IF is_sync THEN "sync" ELSE "async")
        /\ waits => txn_limbo_append_error(n.limbo, i, n.term, i) = "none"
        /\ Step(i, WriteRow(IF waits THEN [n EXCEPT !.limbo = txn_limbo_append(@, id, is_sync)]
                            ELSE n, row, "txn", id))

\* txn_on_journal_write.
TxnWritten(n, self, row) ==
    CASE row.type = "nop" -> n
      [] HasEntry(n.limbo, Id(row)) ->
            [n EXCEPT !.limbo = txn_limbo_assign_lsn(@, self, Id(row)),
                      !.ready = IF row.origin # self THEN @
                                ELSE Append(@, [then |-> "txn", id |-> Id(row), row |-> row])]
      [] OTHER ->
            [n EXCEPT !.limbo = Check([@ EXCEPT !.committed = @ \union {Id(row)}],
                                      Id(row) \notin @.aborted, "txn_on_journal_write")]

\* The tx thread learns that the next row is written, see tx_complete_batch.
WriteDone(i) ==
    /\ node[i].writes # <<>>
    /\ LET k == Len(node[i].wal) - Len(node[i].writes) + 1
           n == [node[i] EXCEPT !.writes = Tail(@), !.wal[k].at = node[i].term]
           row == n.wal[k]
           write == Head(node[i].writes)
       IN  Step(i, CASE write.then = "txn" -> TxnWritten(n, i, row)
                     [] write.then = "request" ->
                            Unlock([n EXCEPT !.limbo = txn_limbo_req_commit(@, n.term, row)])
                     [] OTHER -> [n EXCEPT !.ready = Append(@,
                                    [then |-> write.then, id |-> write.id, row |-> row])])
    /\ UNCHANGED budget

\* txn_commit after the write: the own ACK, then txn_limbo_wait_complete.
TxnResumed(n, self, id) ==
    IF HasEntry(n.limbo, id) /\ n.limbo.queue[EntryOf(n.limbo, id)].sync
    THEN txn_limbo_ack(n, self, n.limbo.owner_id, id[2], id)
    ELSE FiberWaits(n, id)

\* txn_limbo_write_promote after the write.
PromoteWritten(n, self, req) ==
    LET prev == n.limbo.vclock[self]
        m == [n EXCEPT !.limbo = txn_limbo_req_commit(@, n.term, req), !.qsync = NoQsync]
        l == [m.limbo EXCEPT !.is_writing_promote = FALSE, !.vclock[self] = req.lsn]
    IN  AckPromote([m EXCEPT !.limbo = l], self, req.lsn, prev, NoId)

\* The next woken fiber runs.
Resume(i) ==
    /\ node[i].ready # <<>>
    /\ LET n == [node[i] EXCEPT !.ready = Tail(@)]
           f == Head(node[i].ready)
       IN  Step(i, CASE f.then = "txn" -> TxnResumed(n, i, f.id)
                     [] f.then = "confirm" ->
                            GoOn([n EXCEPT !.limbo = txn_limbo_confirm_txn(@, f.row.req_lsn)],
                                 f.id)
                     [] f.then = "confirm_promote" ->
                            GoOn(Unlock([n EXCEPT !.limbo =
                                    txn_limbo_confirm_promote(@, n.term, i, f.row.req_lsn)]),
                                 f.id)
                     [] f.then = "rollback" ->
                            [n EXCEPT !.limbo = txn_limbo_rollback_written(@, f.id)]
                     [] f.then = "promote" -> PromoteWritten(n, i, f.row))
    /\ UNCHANGED budget

\* replication_synchro_timeout of a transaction expires in txn_limbo_wait_complete.
TxnTimeout(i) ==
    /\ Spend("timeouts")
    /\ \E k \in DOMAIN node[i].limbo.queue :
        LET n == node[i]
            e == n.limbo.queue[k]
            m == [n EXCEPT !.limbo.queue[k].wait = "forever"]
        IN  /\ e.wait = "timed"
            /\ Step(i, IF n.limbo.frozen \/ k # 1 \/ e.lsn <= n.limbo.confirmed_lsn THEN m
                       ELSE WriteRequest([m EXCEPT !.limbo = txn_limbo_write_rollback(@, i, e.lsn)],
                                         i, "rollback", e.lsn, "rollback", e.id))

\* tx_status_update: an ACK of instance j with the lsn and the term it had when it
\* wrote the row, or later ones. The rows are those of own transactions and PROMOTE
\* requests: an ACK of another one differs in a vclock, which is only compared
\* with the lsns of these.
tx_status_update(i, j) ==
    /\ i # j
    /\ LET rows == SelectSeq(Written(node[j]), LAMBDA r : r.origin = i)
           own == SelectSeq(node[i].wal, LAMBDA r : r.origin = i)
       IN  \E lsn \in (node[i].limbo.vclock[j] + 1)..Len(rows) :
           /\ own[lsn].type \in {"sync", "promote"}
           /\ \E term \in {rows[lsn].at, node[j].term} :
                Step(i, txn_limbo_ack(raft_process_term(node[i], term), i, j, lsn, NoId))
    /\ UNCHANGED budget

\* The latch is free for an ACK that waits for it.
LatchNext(i) ==
    /\ ~node[i].is_locked /\ node[i].lockers # <<>>
    /\ LET w == Head(node[i].lockers)
           n == [node[i] EXCEPT !.lockers = Tail(@), !.is_locked = TRUE]
       IN  Step(i, IF w.id = Params THEN ConfirmPromote(n, i, w.id)
                   ELSE AckPromote(n, i, w.lsn, w.prev, w.id))
    /\ UNCHANGED budget

\* box.cfg{replication_synchro_quorum = quorum}.
SetQuorum(i, quorum) ==
    /\ quorum # node[i].quorum /\ Spend("quorums")
    /\ Step(i, [node[i] EXCEPT !.quorum = quorum, !.params = TRUE])

\* txn_limbo_on_parameters_change_f, when it does not wait for the latch or for a
\* write: txn_limbo_on_parameters_change_handler.
ParametersChange(i) ==
    LET n == [node[i] EXCEPT !.params = FALSE]
        lsn == LsnToConfirm(n.limbo, DOMAIN n.limbo.queue, n.quorum)
    IN  /\ node[i].params
        /\ \A w \in Range(n.lockers) \union Range(n.writes) \union Range(n.ready) : w.id # Params
        /\ Step(i, IF txn_limbo_is_trying_to_promote(n.limbo, i, n.term)
                   THEN IF n.is_locked
                        THEN [n EXCEPT !.lockers =
                                Append(@, [lsn |-> 0, prev |-> 0, id |-> Params])]
                        ELSE ConfirmPromote([n EXCEPT !.is_locked = TRUE], i, Params)
                   ELSE IF n.limbo.queue = <<>> \/ n.limbo.frozen THEN n
                   ELSE ConfirmTxn(n, i, IF n.limbo.is_in_rollback THEN -1 ELSE lsn, Params))
        /\ UNCHANGED budget

-----------------------------------------------------------------------------
(* The applier.                                                            *)

\* applier_synchro_filter_tx: what becomes of a row whose origin has not the
\* greatest term. "" is ER_SPLIT_BRAIN.
applier_synchro_filter_tx(l, row) ==
    LET confirmed_lsn == l.confirmed_vclock[row.replica_id]
        keep == CASE row.type = "promote" -> row.term >= l.promote_greatest_term
                  [] row.type = "confirm" -> row.req_lsn > confirmed_lsn
                  [] row.type = "rollback" -> row.req_lsn <= confirmed_lsn
                  [] OTHER -> FALSE
    IN  CASE l.promote_term_map[row.origin] = l.promote_greatest_term -> row.type
          [] row.type = "async" -> ""
          [] OTHER -> IF keep THEN row.type ELSE "nop"

\* apply_plain_tx, with txn_commit_try_async. ER_SYNC_ROLLBACK is tried again.
apply_plain_tx(i, from, row) ==
    LET n == node[i]
        is_sync == row.type = "sync"
        waits == is_sync \/ (row.type # "nop" /\ n.limbo.queue # <<>>)
        error == txn_limbo_append_error(n.limbo, i, n.term, row.origin)
    IN  /\ waits => error # "ER_SYNC_ROLLBACK"
        /\ Step(i, IF ~waits THEN WriteRow(n, row, "txn", NoId)
                   ELSE IF error # "none" THEN [n EXCEPT !.stopped = @ \union {from}]
                   ELSE WriteRow([n EXCEPT !.limbo = txn_limbo_append(@, Id(row), is_sync)],
                                 row, "txn", NoId))

\* The rows of a peer that are not applied here.
News(i, from) ==
    LET applied == {Id(r) : r \in Range(node[i].wal)}
    IN  SelectSeq(node[from].wal, LAMBDA r : Id(r) \notin applied)

\* Somebody may wait for the latch while the applier of from filters a row: an ACK,
\* box_issue_promote, or an applier of rows of another origin (those of the same
\* origin wait for its order_latch).
HasWaiters(i, from, origin) ==
    \/ node[i].lockers # <<>> \/ node[i].qsync.phase = "lock" \/ node[i].filtered # {}
    \/ \E j \in Members \ {i, from} :
        /\ j \notin node[i].stopped
        /\ News(i, j) # <<>> /\ Head(News(i, j)).origin # origin

\* applier_apply_tx: the next row of the peer. The latch is unlocked after the
\* filter, and a waiter, if there is one, gets it before apply_synchro_req locks it
\* again. The term of a leader is known before its PROMOTE comes: an instance sends
\* its term to the others before it votes, and it votes before it gets the PROMOTE.
applier_apply_tx(i, from) ==
    LET n == node[i]
        news == News(i, from)
        row == [Head(news) EXCEPT !.type = applier_synchro_filter_tx(n.limbo, Head(news))]
    IN  /\ i # from /\ from \notin n.stopped /\ ~n.is_locked /\ news # <<>>
        /\ \A f \in n.filtered : f.from # from /\ f.req.origin # row.origin
        /\ Head(news).type = "promote" => n.term >= Head(news).term
        /\ \/ row.type = "" /\ Step(i, [n EXCEPT !.stopped = @ \union {from}])
           \/ /\ row.type \in Synchro
              /\ Step(i, IF HasWaiters(i, from, row.origin)
                         THEN [n EXCEPT !.filtered = @ \union {[from |-> from, req |-> row]}]
                         ELSE PrepareRequest(n, i, from, row))
           \/ row.type \notin Synchro \union {""} /\ apply_plain_tx(i, from, row)
        /\ UNCHANGED budget

\* The latch is free for apply_synchro_req.
apply_synchro_req(i) ==
    /\ ~node[i].is_locked
    /\ \E f \in node[i].filtered :
        Step(i, PrepareRequest([node[i] EXCEPT !.filtered = @ \ {f}], i, f.from, f.req))
    /\ UNCHANGED budget

\* txn_limbo_wait_persisted ends.
PrepareDone(i) ==
    /\ node[i].prepare # <<>> /\ IsPersisted(node[i].limbo)
    /\ Step(i, Prepared(node[i], i, Head(node[i].prepare).from, Head(node[i].prepare).req))
    /\ UNCHANGED budget

-----------------------------------------------------------------------------
(* Leaders.                                                                *)

\* Mutant: voters do not compare the rows of the candidate with theirs.
Elect_any(i, voters) ==
    LET term == node[i].term + 1
    IN  /\ Spend("elections")
        /\ i \in budget.candidates \cap voters /\ Cardinality(voters) = node[i].quorum
        /\ \A j \in voters : node[j].term < term
        /\ node' = [j \in Node |->
            IF j \notin voters THEN node[j]
            ELSE [raft_process_term(node[j], term) EXCEPT !.votes =
                    IF j = i THEN {<<v, Len(node[v].wal)>> : v \in voters} ELSE {}]]

\* A quorum decides to vote for a candidate that has all rows the voters have.
Elect(i, voters) ==
    LET term == node[i].term + 1
    IN  /\ Spend("elections")
        /\ i \in budget.candidates \cap voters /\ Cardinality(voters) = node[i].quorum
        /\ \A j \in voters :
            /\ node[j].term < term
            /\ \A o \in Node : Rows(Written(node[j]), o) <= Rows(Written(node[i]), o)
        /\ node' = [j \in Node |->
            IF j \notin voters THEN node[j]
            ELSE [raft_process_term(node[j], term) EXCEPT !.votes =
                    IF j = i THEN {<<v, Len(node[v].wal)>> : v \in voters} ELSE {}]]

\* The first len rows are written and the fibers that waited for them have run.
IsSettled(n, len) ==
    /\ Len(Written(n)) >= len
    /\ \A k \in DOMAIN n.ready : n.ready[k].row \notin Range(SubSeq(n.wal, 1, len))

\* The votes are sent once they are in the WALs of the voters.
BecomeLeader(i) ==
    /\ node[i].votes # {}
    /\ \A v \in node[i].votes : IsSettled(node[v[1]], v[2])
    /\ Step(i, [node[i] EXCEPT !.is_leader = TRUE, !.has_work = TRUE, !.votes = {}])
    /\ UNCHANGED budget

\* A Raft message with a greater term.
LearnTerm(i, from) ==
    /\ node[from].term > node[i].term
    /\ Step(i, raft_process_term(node[i], node[from].term))
    /\ UNCHANGED budget

\* box_raft_update_synchro_queue in the worker.
QsyncStart(i) ==
    /\ node[i].has_work /\ node[i].qsync.phase = "idle" /\ ~node[i].limbo.is_writing_promote
    /\ LET n == [node[i] EXCEPT !.has_work = FALSE]
       IN  Step(i, IF n.is_leader THEN box_promote_qsync(n, i) ELSE n)
    /\ UNCHANGED budget

\* wal_sync of box_wait_limbo_acked is over.
QsyncSynced(i) ==
    LET n == node[i]
        l == n.limbo
    IN  /\ n.qsync.phase = "sync"
        /\ \A k \in DOMAIN l.queue : l.queue[k].id = n.qsync.tid => l.queue[k].lsn > 0
        /\ Step(i, IF l.promote_greatest_term # n.qsync.promote_term
                   THEN [n EXCEPT !.qsync = NoQsync]
                   ELSE IF l.queue = <<>> THEN QsyncIssue(n, i, l.confirmed_lsn)
                   ELSE IF LastSynchroId(l) # n.qsync.tid \/ (n.qsync.quorum = 1 /\ n.quorum > 1)
                   THEN QsyncRetry(n, i)
                   ELSE QsyncWaitQuorum(n, i, n.qsync.quorum))
        /\ UNCHANGED budget

\* box_wait_quorum of box_wait_limbo_acked is over.
QsyncAcked(i) ==
    LET n == node[i]
        l == n.limbo
        q == n.qsync
    IN  /\ q.phase = "quorum"
        /\ Cardinality({j \in Members : Rows(Written(node[j]), q.owner) >= q.lsn}) >= q.quorum
        /\ Step(i, IF l.promote_greatest_term # q.promote_term THEN [n EXCEPT !.qsync = NoQsync]
                   ELSE IF l.queue = <<>> THEN QsyncIssue(n, i, l.confirmed_lsn)
                   ELSE IF q.quorum < n.quorum \/ q.lsn < LastSynchroLsn(l) THEN QsyncRetry(n, i)
                   ELSE QsyncIssue(n, i, q.lsn))
        /\ UNCHANGED budget

\* The latch is free for box_issue_promote.
QsyncLocked(i) ==
    /\ node[i].qsync.phase = "lock" /\ ~node[i].is_locked
    /\ Step(i, IssuePromote(node[i], i))
    /\ UNCHANGED budget

Next ==
    \E i \in Members :
        \/ \E is_sync \in BOOLEAN : txn_commit(i, is_sync)
        \/ WriteDone(i)
        \/ Resume(i)
        \/ TxnTimeout(i)
        \/ LatchNext(i)
        \/ PrepareDone(i)
        \/ ParametersChange(i)
        \/ apply_synchro_req(i)
        \/ \E quorum \in 1..Cardinality(Members) : SetQuorum(i, quorum)
        \/ \E j \in Members : tx_status_update(i, j) \/ applier_apply_tx(i, j) \/ LearnTerm(i, j)
        \/ \E voters \in SUBSET Members : Elect(i, voters)
        \/ BecomeLeader(i)
        \/ QsyncStart(i) \/ QsyncSynced(i) \/ QsyncAcked(i) \/ QsyncLocked(i)

Spec == Init /\ [][Next]_vars

-----------------------------------------------------------------------------
(* Properties.                                                             *)

\* Every transaction has one decision: the WAL of an instance never has CONFIRM for
\* a transaction that ROLLBACK of the same leader covers, however the ACKs, the
\* timeout, and the two writes interleave. See "2 conflicting decisions for the
\* same LSNs" in txn_limbo_ack and the checks of txn_limbo_wait_complete.
OneDecision ==
    \A i \in Node : \A r \in Range(node[i].wal) : r.type = "rollback" =>
        \A c \in Range(node[i].wal) :
            c.type = "confirm" /\ c.replica_id = r.replica_id
                => ~(r.req_lsn <= c.req_lsn /\ c.req_lsn < r.lsn)

\* No instance rolls back a transaction that another one commits. A deposed leader
\* that is fenced (txn_limbo_fence) cannot confirm what the PROMOTE of the new leader
\* rolls back, and the new leader confirms all that the old one may have confirmed.
\* There is one exception, which the code reports as a split-brain: a deposed leader
\* writes ROLLBACK for a timeout, and the PROMOTE commits the transaction.
NoSplitDecision ==
    \A i \in Node : \A t \in node[i].limbo.aborted :
        \A j \in Node : t \in node[j].limbo.committed =>
            /\ node[j].limbo.promote_term_map[t[1]] < node[j].limbo.promote_greatest_term
            /\ \E r \in Range(node[i].wal) :
                r.type = "rollback" /\ r.replica_id = t[1] /\ r.req_lsn <= t[2]

\* Instances that disagree about a transaction do not follow the same leader: one that
\* has rolled it back refuses the PROMOTE that commits it, and one that has the
\* PROMOTE refuses the ROLLBACK (ER_SPLIT_BRAIN). Nothing is said after an assertion
\* has failed.
SplitIsDetected ==
    (\A k \in Node : node[k].limbo.failed = {}) =>
        \A i \in Node : \A t \in node[i].limbo.aborted :
            \A j \in Node : t \in node[j].limbo.committed =>
                node[i].limbo.promote_greatest_term # node[j].limbo.promote_greatest_term

\* A synchronous transaction is committed only when as many instances as the
\* quorum have it in their WALs: txn_limbo_ack counts every instance once, whether
\* its ACK comes before or after the end of the own write.
QuorumHasIt ==
    \A i \in Node : \A r \in Range(node[i].wal) :
        r.type = "sync" /\ Id(r) \in node[i].limbo.committed =>
            LET holders == {j \in Node : \E w \in Range(Written(node[j])) :
                                Id(w) = Id(r) /\ w.type = "sync"}
            IN  Cardinality(holders) >=
                    Min({budget.quorum} \union {node[j].quorum : j \in Node})

\* Transactions of a leader are committed in the order of its WAL: one that is
\* asynchronous never overtakes a synchronous one it may depend on (TXN_WAIT_SYNC
\* in txn_commit and txn_commit_try_async), on any instance.
CommitsInOrder ==
    \A i \in Node : \A b \in Range(node[i].wal) :
        b.type \in Transaction /\ Id(b) \in node[i].limbo.committed =>
            \A a \in Range(node[i].wal) :
                a.type \in Transaction /\ a.origin = b.origin /\ a.lsn < b.lsn
                    => Id(a) \in node[i].limbo.committed \union node[i].limbo.aborted

\* The assertions of txn_limbo.c about confirmed_lsn, rollbacks in progress, the queue
\* at a PROMOTE and the order of PROMOTEs, and that of txn_on_journal_write, hold, up
\* to two. !is_in_rollback of txn_limbo_req_prepare fails on a leader that is writing
\* ROLLBACK for a timeout when it gets a request of another leader. state == LEADER of
\* box_promote_qsync fails when it is tried again, after the quorum was increased or
\* a transaction came, and the instance has lost the leadership while it waited. No
\* other assertion is the first to fail.
NoOtherAssertFails ==
    (\E i \in Node : node[i].limbo.failed # {}) =>
        \E i \in Node :
            \/ /\ "txn_limbo_req_prepare" \in node[i].limbo.failed
               /\ \E r \in Range(node[i].wal) : r.type = "rollback" /\ r.origin = i
            \/ "box_promote_qsync" \in node[i].limbo.failed

=============================================================================
