------------------------------- MODULE TxLog --------------------------------
(***************************************************************************)
(* What the journal promises to the transactions it has accepted: they     *)
(* commit in the order in which they were accepted, and when one of them   *)
(* fails, all that were accepted after it and have not committed are       *)
(* rolled back with it, before anything else is accepted.  A write is      *)
(* accepted when wal_write_async takes it (src/src/box/wal.c): one that    *)
(* still waits in the journal queue is not part of the promise.            *)
(***************************************************************************)
EXTENDS Sequences, Naturals

CONSTANT
    Entry       \* journal entries

VARIABLES
    pending,    \* accepted and not completed, in the order of acceptance
    committed   \* committed, in the order of commit

vars == <<pending, committed>>

Init == pending = <<>> /\ committed = <<>>

Accept(e) ==
    /\ pending' = Append(pending, e)
    /\ UNCHANGED committed

\* The first n pending entries commit.
Commit(n) ==
    /\ committed' = committed \o SubSeq(pending, 1, n)
    /\ pending' = SubSeq(pending, n + 1, Len(pending))

\* The first n pending entries commit and the others are rolled back.
RollBack(n) ==
    /\ committed' = committed \o SubSeq(pending, 1, n)
    /\ pending' = <<>>

Next ==
    \/ \E e \in Entry : Accept(e)
    \/ \E n \in 1..Len(pending) : Commit(n)
    \/ \E n \in 0..Len(pending) : RollBack(n)

Spec == Init /\ [][Next]_vars
=============================================================================
