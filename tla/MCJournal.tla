----------------------------- MODULE MCJournal ------------------------------
(* Small instances of Journal for TLC.                                     *)
EXTENDS Journal

Bounds(max_size, threshold, entries, resizes, errors, checkpoints, syncs) ==
    [max_size |-> max_size, threshold |-> threshold, entries |-> entries,
     resizes |-> resizes, errors |-> errors, checkpoints |-> checkpoints, syncs |-> syncs]

\* A queue that fills up, also with failures; failures with wal_sync, and with
\* checkpoints, in a queue that does not fill up.
MCScenarios == {
    Bounds(1, MaxEntries, MaxEntries, 1, 0, 0, 0),
    Bounds(2, MaxEntries, MaxEntries, 0, 1, 0, 0),
    Bounds(MaxEntries + 1, MaxEntries, MaxEntries, 0, 2, 0, 0),
    Bounds(MaxEntries + 1, MaxEntries, 3, 0, 1, 0, 1),
    Bounds(MaxEntries + 1, 1, 3, 0, 1, 1, 0)}
=============================================================================
