----------------------------- MODULE LimboNode ------------------------------
(***************************************************************************)
(* The synchronous queue ("limbo") of one instance, src/src/box/txn_limbo.c *)
(* as operators on a record: transactions that wait for a quorum of ACKs,  *)
(* and PROMOTE requests that wait for a quorum before they are applied.    *)
(* Functions that write to the WAL are split at the write; module Limbo    *)
(* has the fibers.  The limbo has an owner all the time.                   *)
(***************************************************************************)
EXTENDS Integers, Sequences, SequencesExt, FiniteSets, FiniteSetsExt

CONSTANT
    Node        \* instances of the replica set

\* Rows of the WAL: transactions ("sync"; "wait" for an asynchronous one with
\* IPROTO_FLAG_WAIT_SYNC; "async"), synchronous requests, and rows without
\* effect. at: the Raft term of the instance that has the row, when it was
\* written.
Transaction == {"sync", "wait", "async"}
Synchro == {"confirm", "rollback", "promote"}
RowType == {"nop"} \union Transaction \union Synchro
Row == [type : RowType, origin : Node, lsn : Nat, replica_id : Node, req_lsn : Nat,
        term : Nat, prev_term : Nat, at : Nat]

Id(row) == <<row.origin, row.lsn>>

\* struct txn_limbo_entry. lsn = -1 until the transaction is written; wait says
\* how the fiber of the transaction waits ("no": not yet, or there is none).
Entry == [id : Node \X Nat, sync : BOOLEAN, lsn : Nat \union {-1}, ack_count : Nat,
          wait : {"no", "timed", "forever"}]

\* struct pending_promote.
Promote == [req : Row, ack_count : Nat]

\* struct txn_limbo. frozen is is_frozen_due_to_fencing. The last three are
\* history: transactions that ended here, and assertions that failed.
LimboType ==
    [queue : Seq(Entry), owner_id : Node, confirmed_lsn : Nat,
     confirmed_vclock : [Node -> Nat], vclock : [Node -> Nat],
     promote_term_map : [Node -> Nat], promote_greatest_term : Nat,
     pending_promotes : Seq(Promote), is_in_rollback : BOOLEAN,
     is_writing_promote : BOOLEAN, frozen : BOOLEAN,
     committed : SUBSET (Node \X Nat), aborted : SUBSET (Node \X Nat),
     failed : SUBSET STRING]

\* An assertion of the code, or a panic: execution goes on, as in a release build.
Check(l, cond, name) == IF cond THEN l ELSE [l EXCEPT !.failed = @ \union {name}]

Ids(entries) == {entries[k].id : k \in DOMAIN entries}
HasEntry(l, id) == id \in Ids(l.queue)
EntryOf(l, id) == CHOOSE k \in DOMAIN l.queue : l.queue[k].id = id

txn_limbo_is_ro(l, self) ==
    l.pending_promotes # <<>> \/ l.owner_id # self \/ l.frozen

\* The lsn of txn_limbo_last_synchro_entry.
LastSynchroLsn(l) ==
    Last(SelectSeq(l.queue, LAMBDA e : e.sync)).lsn

\* term: raft->volatile_term.
txn_limbo_has_active_promote(l, self, term) ==
    /\ l.pending_promotes # <<>>
    /\ Last(l.pending_promotes).req.origin = self
    /\ Last(l.pending_promotes).req.term >= term

txn_limbo_is_trying_to_promote(l, self, term) ==
    l.is_writing_promote \/ txn_limbo_has_active_promote(l, self, term)

\* Why txn_limbo_append refuses a transaction of this origin.
txn_limbo_append_error(l, self, term, origin) ==
    CASE txn_limbo_is_trying_to_promote(l, self, term) -> "ER_SYNC_QUEUE_UNCLAIMED"
      [] l.is_in_rollback -> "ER_SYNC_ROLLBACK"
      [] l.owner_id # origin -> "ER_SYNC_QUEUE_FOREIGN"
      [] OTHER -> "none"

txn_limbo_append(l, id, sync) ==
    [l EXCEPT !.queue = Append(@, [id |-> id, sync |-> sync, lsn |-> -1, ack_count |-> 0,
                                   wait |-> "no"])]

\* ACKs may have come before the tx thread knows of the write.
txn_limbo_assign_lsn(l, self, id) ==
    LET k == EntryOf(l, id)
        acks == Cardinality({n \in Node : l.vclock[n] >= id[2]})
    IN  IF l.owner_id = self
        THEN [l EXCEPT !.queue[k].lsn = id[2], !.queue[k].ack_count = acks]
        ELSE [l EXCEPT !.queue[k].lsn = id[2]]

-----------------------------------------------------------------------------
(* CONFIRM and ROLLBACK of transactions.                                   *)

\* txn_limbo_write_confirm, before the write.
txn_limbo_write_confirm(l, self, lsn) ==
    LET m == [l EXCEPT !.confirmed_vclock[self] = lsn]
    IN  IF l.owner_id # self THEN m
        ELSE Check([m EXCEPT !.confirmed_lsn = lsn],
                   lsn > l.confirmed_lsn /\ ~l.is_in_rollback, "txn_limbo_write_confirm")

\* The number of entries that CONFIRM of lsn ends: up to the first synchronous
\* one that it does not cover or that is being written.
ConfirmedCount(l, lsn) ==
    LET rest == {k \in DOMAIN l.queue :
                    l.queue[k].sync /\ (l.queue[k].lsn > lsn \/ l.queue[k].lsn = -1)}
    IN  IF rest = {} THEN Len(l.queue) ELSE Min(rest) - 1

\* Asynchronous entries that are being written become plain transactions.
txn_limbo_confirm_txn(l, lsn) ==
    LET n == ConfirmedCount(l, lsn)
        m == [l EXCEPT !.queue = SubSeq(@, n + 1, Len(@)),
                       !.committed = @ \union {l.queue[k].id : k \in
                                        {k \in 1..n : l.queue[k].lsn # -1}}]
    IN  IF l.confirmed_lsn < lsn
        THEN [m EXCEPT !.confirmed_lsn = lsn, !.confirmed_vclock[l.owner_id] = lsn]
        ELSE m

\* Entry k and all after it are rolled back, the last one first.
AbortFrom(l, k) ==
    Check([l EXCEPT !.queue = SubSeq(@, 1, k - 1),
                    !.aborted = @ \union Ids(SubSeq(l.queue, k, Len(l.queue)))],
          \A i \in k..Len(l.queue) : l.queue[i].lsn # -1, "AbortFrom")

\* All from the first of the synchronous entries at the end of the queue whose
\* lsn is not less than lsn.
txn_limbo_read_rollback(l, lsn) ==
    LET last == {k \in DOMAIN l.queue : l.queue[k].sync /\
                    \A i \in k..Len(l.queue) : l.queue[i].sync => l.queue[i].lsn >= lsn}
    IN  IF last = {} THEN l ELSE AbortFrom(l, Min(last))

\* txn_limbo_write_rollback, before the write.
txn_limbo_write_rollback(l, self, lsn) ==
    Check([l EXCEPT !.is_in_rollback = TRUE],
          l.owner_id = self /\ lsn > l.confirmed_lsn /\ ~l.is_in_rollback,
          "txn_limbo_write_rollback")

\* txn_limbo_wait_complete after the write of ROLLBACK for entry id.
txn_limbo_rollback_written(l, id) ==
    LET m == [l EXCEPT !.is_in_rollback = FALSE]
    IN  IF HasEntry(m, id) THEN AbortFrom(m, EntryOf(m, id))
        ELSE Check(m, FALSE, "txn_limbo_wait_complete")

-----------------------------------------------------------------------------
(* PROMOTE.                                                                *)

txn_limbo_make_promote(l, self, lsn, term, self_lsn) ==
    LET last == Last(l.pending_promotes).req
        req == [type |-> "promote", origin |-> self, lsn |-> self_lsn, term |-> term,
                at |-> term, prev_term |-> l.promote_greatest_term,
                replica_id |-> l.owner_id, req_lsn |-> lsn]
    IN  IF l.pending_promotes = <<>> THEN req
        ELSE [req EXCEPT !.prev_term = last.term, !.replica_id = last.origin,
                         !.req_lsn = last.lsn]

\* The request goes after those with lesser terms.
txn_limbo_read_promote(l, req) ==
    LET older == {k \in DOMAIN l.pending_promotes : l.pending_promotes[k].req.term <= req.term}
        k == IF older = {} THEN 0 ELSE Max(older)
        last_term == IF k = 0 THEN l.promote_greatest_term ELSE l.pending_promotes[k].req.term
    IN  Check([l EXCEPT !.pending_promotes =
                    InsertAt(@, k + 1, [req |-> req, ack_count |-> 0])],
              last_term < req.term, "txn_limbo_read_promote")

\* term: raft->volatile_term.
txn_limbo_apply_promote(l, term, req) ==
    LET is_new == l.promote_term_map[req.origin] < req.term
        is_greatest == is_new /\ l.promote_greatest_term < req.term
        a == [l EXCEPT !.promote_term_map[req.origin] = IF is_new THEN req.term ELSE @,
                       !.promote_greatest_term = IF is_greatest THEN req.term ELSE @,
                       !.frozen = @ /\ ~(is_greatest /\ term <= req.term)]
        b == txn_limbo_read_rollback(txn_limbo_confirm_txn(a, req.req_lsn), req.req_lsn + 1)
    IN  Check([b EXCEPT !.confirmed_lsn = req.lsn,
                        !.confirmed_vclock[req.origin] = req.lsn,
                        !.owner_id = req.origin],
              b.queue = <<>>, "txn_limbo_apply_promote")

\* The requests that lead to the last one of reqs, each by its prev_term; the
\* others are obsolete.
History(reqs) ==
    FoldLeft(LAMBDA h, p : IF p.req.term = h[1].req.prev_term THEN <<p>> \o h ELSE h,
             <<Last(reqs)>>, Reverse(Front(reqs)))

txn_limbo_confirm_promote(l, term, origin, lsn) ==
    LET matching == {k \in DOMAIN l.pending_promotes :
                        /\ l.pending_promotes[k].req.origin = origin
                        /\ l.pending_promotes[k].req.lsn <= lsn}
        n == Max(matching)
        confirmed == History(SubSeq(l.pending_promotes, 1, n))
    IN  IF matching = {} THEN l
        ELSE [FoldLeft(LAMBDA m, p : txn_limbo_apply_promote(m, term, p.req), l, confirmed)
                EXCEPT !.pending_promotes = SubSeq(@, n + 1, Len(@))]

-----------------------------------------------------------------------------
(* Filters of requests that come from other instances, and the own PROMOTE. *)

txn_limbo_filter_queue_boundaries(l, req) ==
    CASE l.confirmed_lsn = req.req_lsn ->
            IF req.type = "promote" THEN "none" ELSE "ER_UNSUPPORTED"
      [] l.confirmed_lsn > req.req_lsn -> "ER_SPLIT_BRAIN"
      [] l.confirmed_lsn < req.req_lsn ->
            IF l.queue = <<>> \/ req.req_lsn < Head(l.queue).lsn
               \/ LastSynchroLsn(l) < req.req_lsn
            THEN "ER_SPLIT_BRAIN" ELSE "none"

txn_limbo_filter_queue(l, req) ==
    IF req.replica_id # l.owner_id THEN "ER_SPLIT_BRAIN"
    ELSE txn_limbo_filter_queue_boundaries(l, req)

txn_limbo_filter_promote(l, req) ==
    LET is_first == req.prev_term = l.promote_greatest_term
        is_next == \E k \in DOMAIN l.pending_promotes :
                        l.pending_promotes[k].req.term = req.prev_term
    IN  CASE req.prev_term >= req.term -> "ER_SPLIT_BRAIN"
          [] is_first /\ txn_limbo_filter_queue(l, req) # "none" -> txn_limbo_filter_queue(l, req)
          [] OTHER -> IF is_first \/ is_next THEN "none" ELSE "ER_SPLIT_BRAIN"

\* txn_limbo_filter_request after txn_limbo_wait_persisted.
txn_limbo_filter_request(l, req) ==
    CASE req.type = "confirm" ->
            IF l.pending_promotes = <<>> THEN txn_limbo_filter_queue(l, req) ELSE "none"
      [] req.type = "rollback" -> txn_limbo_filter_queue(l, req)
      [] req.type = "promote" -> txn_limbo_filter_promote(l, req)

IsPersisted(l) == l.queue # <<>> => Last(l.queue).lsn > 0

\* txn_limbo_req_prepare, before and after txn_limbo_wait_persisted.
txn_limbo_req_prepare(l) ==
    Check([l EXCEPT !.is_in_rollback = TRUE], ~l.is_in_rollback, "txn_limbo_req_prepare")

txn_limbo_req_prepared(l, req) ==
    [l EXCEPT !.is_in_rollback =
        req.type = "promote" /\ txn_limbo_filter_request(l, req) = "none"]

txn_limbo_read_confirm(l, term, req) ==
    IF l.pending_promotes # <<>>
    THEN txn_limbo_confirm_promote(l, term, req.origin, req.req_lsn)
    ELSE IF l.owner_id = req.replica_id THEN txn_limbo_confirm_txn(l, req.req_lsn)
    ELSE Check(l, FALSE, "txn_limbo_read_confirm")

txn_limbo_req_commit(l, term, req) ==
    CASE req.type = "confirm" -> txn_limbo_read_confirm(l, term, req)
      [] req.type = "rollback" -> txn_limbo_read_rollback(l, req.req_lsn)
      [] req.type = "promote" ->
            txn_limbo_read_promote([l EXCEPT !.is_in_rollback = FALSE], req)

-----------------------------------------------------------------------------
(* ACKs.                                                                   *)

txn_limbo_ack_seen(l, n, lsn) == [l EXCEPT !.vclock[n] = lsn]

\* The PROMOTE of this instance gets an ACK; prev: the lsn acknowledged before.
txn_limbo_ack_promote(l, self, term, lsn, prev) ==
    LET n == Len(l.pending_promotes)
    IN  IF /\ txn_limbo_has_active_promote(l, self, term)
           /\ prev < l.pending_promotes[n].req.lsn /\ l.pending_promotes[n].req.lsn <= lsn
        THEN [l EXCEPT !.pending_promotes[n].ack_count = @ + 1]
        ELSE l

\* The lsn that txn_limbo_maybe_confirm_promotes writes, or -1.
txn_limbo_maybe_confirm_promotes(l, self, term, quorum) ==
    IF txn_limbo_has_active_promote(l, self, term) /\ Last(l.pending_promotes).ack_count >= quorum
    THEN Last(l.pending_promotes).req.lsn
    ELSE -1

\* Mutant: a repeated ACK is counted again.
AckedEntries_again(l, lsn, prev) ==
    {k \in DOMAIN l.queue : l.queue[k].sync /\ \A i \in 1..k : l.queue[i].lsn <= lsn}

\* The entries that an ACK of lsn reaches first.
AckedEntries(l, lsn, prev) ==
    {k \in DOMAIN l.queue :
        /\ l.queue[k].sync /\ l.queue[k].lsn > prev
        /\ \A i \in 1..k : l.queue[i].lsn <= lsn}

txn_limbo_ack_txn(l, self, lsn, prev) ==
    IF l.queue = <<>> \/ l.frozen THEN l
    ELSE Check([l EXCEPT !.queue = FoldSet(LAMBDA k, q : [q EXCEPT ![k].ack_count = @ + 1],
                                           @, AckedEntries(l, lsn, prev))],
               ~txn_limbo_is_ro(l, self), "txn_limbo_ack_txn")

\* The greatest lsn to confirm of entries ks, if it is not confirmed yet, or -1.
LsnToConfirm(l, ks, quorum) ==
    LET lsns == {l.queue[k].lsn : k \in {k \in ks : l.queue[k].sync /\
                                            l.queue[k].ack_count >= quorum}}
    IN  IF lsns # {} /\ Max(lsns) > l.confirmed_lsn THEN Max(lsns) ELSE -1
=============================================================================
