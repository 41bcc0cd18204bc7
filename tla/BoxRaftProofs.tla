---------------------------- MODULE BoxRaftProofs ---------------------------
(***************************************************************************)
(* For any replica set, any configuration and any bounds: the types of the *)
(* variables of BoxRaft, and what an instance may do with its term and its *)
(* vote.  BoxRaftHandlerProofs says what the actions do that only run a    *)
(* handler of the state machine; this module adds the worker, the WAL      *)
(* queue, crashes and recovery.                                            *)
(***************************************************************************)
EXTENDS BoxRaftHandlerProofs

USE BoxRaftAssumption

-----------------------------------------------------------------------------
(* One instance takes a step.                                              *)

\* Terms and votes of instance i in a step, as TermsOnlyGrow has it.
Grows(i) ==
    IsRunning(i) /\ worker'[i] # "down" =>
        /\ raft'[i].volatile_term >= raft[i].volatile_term
        /\ raft'[i].term >= raft[i].term
        /\ raft'[i].term = raft[i].term /\ raft[i].vote # Nil => raft'[i].vote = raft[i].vote

\* What a step has to keep.
StepOK ==
    /\ raft' \in [Server -> Raft] /\ RestType'
    /\ \A k \in Server : NodeOK(k)' /\ Grows(k)

\* The step is one of instance i.
OnlyNode(i) ==
    \A k \in Server \ {i} : raft'[k] = raft[k] /\ worker'[k] = worker[k] /\ dump'[k] = dump[k]

\* The step does not touch what instance i has on disk.
Quiet(i) ==
    /\ OnlyNode(i) /\ raft'[i].term = raft[i].term /\ raft'[i].vote = raft[i].vote
    /\ \/ worker' = worker
       \/ worker[i] \in Active /\ \E l \in Active : worker' = [worker EXCEPT ![i] = l]
    /\ UNCHANGED <<dump, wal, disk, snap>>

\* The other steps.
DiskStep(i) ==
    \/ WorkerWrite(i) \/ WorkerDumped(i) \/ WalComplete(i)
    \/ WriteRow(i) \/ \E j, id \in Server : ApplyRow(i, j, id)
    \/ CheckpointBegin(i) \/ CheckpointCommit(i) \/ Crash(i) \/ Restart(i)

\* It is enough to look at the instance that takes the step.
LEMMA LocalStep ==
    ASSUME TermInv, NEW i \in Server, OnlyNode(i), raft' \in [Server -> Raft], RestType',
           NodeOK(i)', Grows(i)
    PROVE  StepOK
<1>1. ASSUME NEW k \in Server \ {i}
      PROVE  NodeOK(k)' /\ Grows(k)
  <2>1. raft[k] \in Raft /\ NodeOK(k)
    BY TypesOf DEF TermInv
  <2>2. raft'[k] = raft[k] /\ worker'[k] = worker[k] /\ dump'[k] = dump[k]
    BY DEF OnlyNode
  <2>3. NodeOK(k)'
    BY <2>1, <2>2 DEF NodeOK
  <2>4. Grows(k)
    BY <2>1, <2>2 DEF Grows, Raft, Term
  <2> QED
    BY <2>3, <2>4
<1> QED
  BY <1>1 DEF StepOK

\* A handler.
LEMMA HandledStep ==
    ASSUME TermInv, NEW i \in Server, Handled(i), RestType'
    PROVE  StepOK /\ Quiet(i)
<1>0. TypeOK /\ raft \in [Server -> Raft] /\ raft[i] \in Raft /\ NodeOK(i) /\ RestType
  BY TypesOf DEF TermInv
<1>1. PICK n \in Raft : Follows(raft[i], n) /\ raft' = [raft EXCEPT ![i] = n]
  BY Zenon DEF Handled, RaftStep
<1>2. raft' \in [Server -> Raft] /\ raft'[i] = n
  BY <1>0, <1>1
<1>3. OnlyNode(i)
  BY <1>0, <1>1, Zenon DEF OnlyNode, Handled, RestType
<1>4. dump' = dump /\ (worker'[i] \in {"write", "written"} => worker'[i] = worker[i])
  BY <1>0, Zenon DEF Handled, RestType, Active
<1>5. Kept(n) /\ Counted(n) /\ n.self = i
  BY <1>0, <1>1, FollowsKept DEF NodeOK, Follows
<1>6. \A row \in Row : KeptRow(raft[i], row) => KeptRow(n, row)
  BY <1>0, <1>1, FollowsKept
<1>7. NodeOK(i)'
  BY <1>0, <1>2, <1>4, <1>5, <1>6 DEF NodeOK
<1>8. Grows(i)
  BY <1>0, <1>1, <1>2 DEF Grows, Follows, Raft, Term
<1>9. Quiet(i)
  BY <1>1, <1>2, <1>3 DEF Quiet, Handled, Follows
<1> QED
  BY <1>2, <1>3, <1>7, <1>8, <1>9, LocalStep

\* WorkerWrite.
LEMMA WriteStep ==
    ASSUME TermInv, NEW i \in Server, WorkerWrite(i)
    PROVE  StepOK
<1> DEFINE row == raft_dump_req(raft[i])
<1>0. /\ raft \in [Server -> Raft] /\ raft[i] \in Raft /\ vclock[i] \in Vclock
      /\ NodeOK(i) /\ RestType
  BY TypesOf DEF TermInv
<1>1. row \in Row
  BY <1>0, CheckpointType
<1>2. KeptRow(raft[i], row)
  BY <1>0, DumpKept DEF NodeOK, WorkerWrite
<1>3. /\ dump' = [dump EXCEPT ![i] = row] /\ worker' = [worker EXCEPT ![i] = "write"]
      /\ wal' = [wal EXCEPT ![i] = Append(wal[i], RaftEntry(row))]
      /\ raft' = raft
  BY DEF WorkerWrite
<1> HIDE DEF row
<1>4. RaftEntry(row) \in Entry
  BY <1>1 DEF RaftEntry, Entry, Row
<1>5. wal' \in [Server -> Seq(Entry)]
  BY <1>0, <1>3, <1>4, AppendProperties DEF RestType
<1>6. dump' \in [Server -> Row \union {Nil}] /\ worker' \in [Server -> Location]
  BY <1>0, <1>1, <1>3, Zenon DEF RestType, Location
<1>7. RestType'
  BY <1>0, <1>5, <1>6 DEF RestType, WorkerWrite, linkVars
<1>8. OnlyNode(i)
  BY <1>0, <1>3 DEF OnlyNode, RestType
<1>9. NodeOK(i)'
  BY <1>0, <1>1, <1>2, <1>3 DEF NodeOK, RestType
<1>10. Grows(i)
  BY <1>0, <1>3 DEF Grows, Raft, Term
<1> QED
  BY <1>0, <1>3, <1>7, <1>8, <1>9, <1>10, LocalStep

\* WorkerIterate.
LEMMA IterateStep ==
    ASSUME TermInv, NEW i \in Server, WorkerIterate(i)
    PROVE  StepOK /\ Quiet(i)
<1>0. /\ raft \in [Server -> Raft] /\ raft[i] \in Raft /\ vclock[i] \in Vclock
      /\ NodeOK(i) /\ RestType
  BY TypesOf DEF TermInv
<1>1. PICK r \in Raft :
        /\ WorkerEndIteration(i, r)
        /\ r.self = i /\ r.term = raft[i].term /\ r.vote = raft[i].vote
        /\ r.volatile_term >= raft[i].volatile_term /\ Kept(r) /\ Counted(r)
  <2> DEFINE n == raft_handle_io_no_dump(raft[i], vclock[i])
  <2>1. CASE ~raft_has_dump(raft[i], vclock[i]) /\ WorkerEndIteration(i, n)
    <3>1. /\ n \in Raft /\ n.self = i /\ n.term = raft[i].term /\ n.vote = raft[i].vote
          /\ n.volatile_term >= raft[i].volatile_term /\ Kept(n) /\ Counted(n)
      BY <1>0, <2>1, NoDumpKept DEF NodeOK
    <3> HIDE DEF n
    <3> QED
      BY <2>1, <3>1
  <2>2. CASE WorkerEndIteration(i, raft[i])
    <3>1. raft[i].volatile_term >= raft[i].volatile_term
      BY <1>0 DEF Raft, Term
    <3> QED
      BY <1>0, <2>2, <3>1 DEF NodeOK
  <2> QED
    BY <2>1, <2>2 DEF WorkerIterate
<1>2. /\ \E m \in Raft : Same(r, m) /\ raft' = [raft EXCEPT ![i] = m]
      /\ \E l \in Active : worker' = [worker EXCEPT ![i] = l]
      /\ net' \in [Server -> [Server -> Seq(Msg)]]
      /\ slot' \in [Server -> [Server -> Msg \union {Nil}]]
      /\ budget' \in [Events -> Nat]
  BY <1>0, <1>1, EndIterationStep
<1>3. PICK m \in Raft : Same(r, m) /\ raft' = [raft EXCEPT ![i] = m]
  BY <1>2, Zenon
<1>4. PICK l \in Active : worker' = [worker EXCEPT ![i] = l]
  BY <1>2, Zenon
<1>5. raft' \in [Server -> Raft] /\ raft'[i] = m /\ dump' = dump
  BY <1>0, <1>3 DEF WorkerIterate
<1>6. worker' \in [Server -> Location] /\ worker'[i] \notin {"write", "written"}
  BY <1>0, <1>4 DEF RestType, Location, Active
<1>7. RestType'
  BY <1>0, <1>2, <1>6 DEF RestType, WorkerIterate, diskVars
<1>8. OnlyNode(i)
  BY <1>0, <1>3, <1>4, <1>5 DEF OnlyNode, RestType
<1>9. NodeOK(i)'
  BY <1>1, <1>3, <1>5, <1>6 DEF NodeOK, Same, Kept, Counted
<1>10. Grows(i)
  <2>1. /\ raft'[i].term = raft[i].term /\ raft'[i].vote = raft[i].vote
        /\ raft'[i].volatile_term >= raft[i].volatile_term
    BY <1>1, <1>3, <1>5 DEF Same
  <2>2. raft[i].term >= raft[i].term
    BY <1>0 DEF Raft, Term
  <2> QED
    BY <2>1, <2>2 DEF Grows
<1>11. Quiet(i)
  BY <1>1, <1>3, <1>4, <1>5, <1>8, Zenon DEF Quiet, Same, WorkerIterate, Active, diskVars
<1> QED
  BY <1>5, <1>7, <1>8, <1>9, <1>10, <1>11, LocalStep

\* WorkerDumped.
LEMMA DumpedStep ==
    ASSUME TermInv, NEW i \in Server, WorkerDumped(i)
    PROVE  /\ StepOK /\ OnlyNode(i)
           /\ raft'[i].term = dump[i].term /\ raft'[i].vote = dump[i].vote
           /\ \E l \in Active : worker' = [worker EXCEPT ![i] = l]
<1> DEFINE r == raft_handle_io_dumped(raft[i], dump[i], vclock[i])
<1>0. /\ raft \in [Server -> Raft] /\ raft[i] \in Raft /\ vclock[i] \in Vclock
      /\ NodeOK(i) /\ RestType
  BY TypesOf DEF TermInv
<1>1. dump[i] \in Row /\ KeptRow(raft[i], dump[i])
  BY <1>0 DEF NodeOK, WorkerDumped
<1>2. /\ r \in Raft /\ r.self = i /\ r.term = dump[i].term /\ r.vote = dump[i].vote
      /\ r.volatile_term >= raft[i].volatile_term /\ Kept(r) /\ Counted(r)
  BY <1>0, <1>1, DumpedKept DEF NodeOK
<1>3. WorkerEndIteration(i, r) /\ dump' = [dump EXCEPT ![i] = Nil]
  BY DEF WorkerDumped
<1> HIDE DEF r
<1>4. /\ \E m \in Raft : Same(r, m) /\ raft' = [raft EXCEPT ![i] = m]
      /\ \E l \in Active : worker' = [worker EXCEPT ![i] = l]
      /\ net' \in [Server -> [Server -> Seq(Msg)]]
      /\ slot' \in [Server -> [Server -> Msg \union {Nil}]]
      /\ budget' \in [Events -> Nat]
  BY <1>0, <1>2, <1>3, EndIterationStep
<1>5. PICK m \in Raft : Same(r, m) /\ raft' = [raft EXCEPT ![i] = m]
  BY <1>4, Zenon
<1>6. PICK l \in Active : worker' = [worker EXCEPT ![i] = l]
  BY <1>4, Zenon
<1>7. raft' \in [Server -> Raft] /\ raft'[i] = m
  BY <1>0, <1>5
<1>8. /\ worker' \in [Server -> Location] /\ worker'[i] \notin {"write", "written"}
      /\ dump' \in [Server -> Row \union {Nil}]
  BY <1>0, <1>3, <1>6 DEF RestType, Location, Active
<1>9. RestType'
  BY <1>0, <1>4, <1>8 DEF RestType, WorkerDumped, diskVars
<1>10. OnlyNode(i)
  BY <1>0, <1>3, <1>5, <1>6 DEF OnlyNode, RestType
<1>11. NodeOK(i)'
  BY <1>2, <1>5, <1>7, <1>8 DEF NodeOK, Same, Kept, Counted
<1>12. Grows(i)
  BY <1>0, <1>1, <1>2, <1>5, <1>7 DEF Grows, Same, KeptRow
<1>13. StepOK
  BY <1>7, <1>9, <1>10, <1>11, <1>12, LocalStep
<1> QED
  BY <1>2, <1>4, <1>5, <1>7, <1>10, <1>13, Zenon DEF Same

\* The queue gets a data row or the rotation of a checkpoint.
LEMMA QueueStep ==
    ASSUME TermInv, NEW i \in Server, NEW j \in Server, NEW id \in Server,
           WriteRow(i) \/ ApplyRow(i, j, id) \/ CheckpointBegin(i) \/ CheckpointCommit(i)
    PROVE  StepOK
<1>0. TypeOK /\ raft \in [Server -> Raft] /\ raft[i] \in Raft /\ RestType
  BY TypesOf DEF TermInv
<1>1. raft' = raft /\ worker' = worker /\ dump' = dump
  BY DEF WriteRow, ApplyRow, CheckpointBegin, CheckpointCommit, nodeVars
<1>2. RestType'
  <2>1. RowEntry(i) \in Entry /\ RowEntry(id) \in Entry /\ CheckpointEntry \in Entry
    BY DEF RowEntry, CheckpointEntry, Entry
  <2>2. wal[i] \in Seq(Entry)
    BY <1>0 DEF RestType
  <2>3. \A e \in Entry : [wal EXCEPT ![i] = Append(wal[i], e)] \in [Server -> Seq(Entry)]
    BY <1>0, <2>2, AppendProperties DEF RestType
  <2>4. CASE WriteRow(i)
    <3>1. wal' \in [Server -> Seq(Entry)]
      BY <2>1, <2>3, <2>4 DEF WriteRow
    <3> QED
      BY <1>0, <2>4, <3>1, Zenon DEF RestType, WriteRow, nodeVars, linkVars
  <2>5. CASE ApplyRow(i, j, id)
    <3>1. wal' \in [Server -> Seq(Entry)]
      BY <2>1, <2>3, <2>5 DEF ApplyRow
    <3> QED
      BY <1>0, <2>5, <3>1, Zenon DEF RestType, ApplyRow, nodeVars, linkVars
  <2>6. CASE CheckpointBegin(i)
    <3>1. wal' \in [Server -> Seq(Entry)]
      BY <2>1, <2>3, <2>6 DEF CheckpointBegin
    <3>2. raft_checkpoint_local(raft[i]) \in Row
      BY <1>0 DEF raft_checkpoint_local, Raft, Row
    <3>3. snap' \in [Server -> Row \union {Nil}]
      BY <1>0, <2>6, <3>2 DEF CheckpointBegin, RestType
    <3>4. budget' \in [Events -> Nat]
      BY <1>0, <2>6, SpendType DEF CheckpointBegin, Events
    <3> QED
      BY <1>0, <2>6, <3>1, <3>3, <3>4, Zenon DEF RestType, CheckpointBegin, nodeVars, linkVars
  <2>7. CASE CheckpointCommit(i)
    <3>1. snap[i] \in Row
      BY <1>0, <2>7 DEF CheckpointCommit, RestType
    <3>2. disk' \in [Server -> Row] /\ snap' \in [Server -> Row \union {Nil}]
      BY <1>0, <2>7, <3>1, Zenon DEF CheckpointCommit, RestType
    <3> QED
      BY <1>0, <2>7, <3>2, Zenon DEF RestType, CheckpointCommit, nodeVars, linkVars
  <2> QED
    BY <2>4, <2>5, <2>6, <2>7
<1>3. OnlyNode(i) /\ NodeOK(i)'
  BY <1>1 DEF OnlyNode, NodeOK, TermInv
<1>4. Grows(i)
  BY <1>0, <1>1 DEF Grows, Raft, Term
<1> QED
  BY <1>0, <1>1, <1>2, <1>3, <1>4, LocalStep

\* The types of what WalComplete computes.
LEMMA RecoverType ==
    ASSUME NEW e \in Entry
    PROVE  /\ \A d \in Row : RecoverRow(d, e) \in Row
           /\ \A v \in Vclock : CountRow(v, e) \in Vclock
<1>1. /\ e.kind = "raft" => e.term \in Term /\ e.vote \in ServerOrNil
      /\ e.kind = "row" => e.id \in Server
  BY DEF Entry
<1>2. ASSUME NEW d \in Row PROVE RecoverRow(d, e) \in Row
  BY <1>1 DEF RecoverRow, Row
<1>3. ASSUME NEW v \in Vclock PROVE CountRow(v, e) \in Vclock
  BY <1>1 DEF CountRow, Vclock
<1> QED
  BY <1>2, <1>3

\* WalComplete.
LEMMA CompleteStep ==
    ASSUME TermInv, NEW i \in Server, WalComplete(i)
    PROVE  StepOK
<1> DEFINE e == Head(wal[i])
<1>0. TypeOK /\ raft \in [Server -> Raft] /\ raft[i] \in Raft /\ RestType /\ NodeOK(i)
  BY TypesOf DEF TermInv
<1>1. e \in Entry /\ Tail(wal[i]) \in Seq(Entry)
  <2>1. wal[i] \in Seq(Entry) /\ wal[i] # <<>>
    BY <1>0 DEF RestType, WalComplete
  <2> QED
    BY <2>1, HeadTailProperties
<1>2. /\ raft' = raft /\ dump' = dump
      /\ wal' = [wal EXCEPT ![i] = Tail(wal[i])]
      /\ vclock' = [vclock EXCEPT ![i] = CountRow(vclock[i], e)]
      /\ disk' = [disk EXCEPT ![i] = RecoverRow(disk[i], e)]
      /\ snap' = [snap EXCEPT ![i] = IF snap[i] = Nil \/ IsRotationQueued(wal[i])
                                     THEN snap[i] ELSE RecoverRow(snap[i], e)]
      /\ worker' = [worker EXCEPT ![i] = IF e.kind = "raft" /\ worker[i] = "write"
                                         THEN "written" ELSE worker[i]]
  BY DEF WalComplete
<1> HIDE DEF e
<1>3. /\ disk[i] \in Row /\ vclock[i] \in Vclock /\ snap[i] \in Row \union {Nil}
      /\ worker[i] \in Location
  BY <1>0 DEF RestType
<1>4. wal' \in [Server -> Seq(Entry)] /\ vclock' \in [Server -> Vclock] /\ disk' \in [Server -> Row]
  BY <1>0, <1>1, <1>2, <1>3, RecoverType DEF RestType
<1>5. snap' \in [Server -> Row \union {Nil}]
  BY <1>0, <1>1, <1>2, <1>3, RecoverType DEF RestType
<1>6. worker' \in [Server -> Location]
  BY <1>0, <1>2, <1>3 DEF RestType, Location
<1>7. RestType'
  BY <1>0, <1>2, <1>4, <1>5, <1>6 DEF RestType, WalComplete, linkVars
<1>8. OnlyNode(i)
  BY <1>0, <1>2 DEF OnlyNode, RestType
<1>9. worker'[i] = worker[i] \/ worker[i] = "write"
  BY <1>0, <1>2 DEF RestType
<1>10. NodeOK(i)'
  BY <1>0, <1>2, <1>9 DEF NodeOK
<1>11. Grows(i)
  BY <1>0, <1>2 DEF Grows, Raft, Term
<1> QED
  BY <1>0, <1>2, <1>7, <1>8, <1>10, <1>11, LocalStep

\* Crash.
LEMMA CrashStep ==
    ASSUME TermInv, NEW i \in Server, Crash(i)
    PROVE  StepOK /\ OnlyNode(i) /\ raft'[i].vote = Nil /\ worker'[i] = "down"
<1> DEFINE n == raft_create(i, raft[i].election_quorum)
           b == [box[i] EXCEPT !.promotes = 0, !.fencing_paused = FALSE]
<1>0. TypeOK /\ raft \in [Server -> Raft] /\ raft[i] \in Raft /\ RestType /\ box[i] \in Box
  BY TypesOf DEF TermInv
<1>1. /\ n \in Raft /\ n.self = i /\ Counted(n) /\ n.term = 1 /\ n.volatile_term = 1
      /\ n.vote = Nil /\ n.volatile_vote = Nil
  BY <1>0, CreateType DEF Raft
<1>2. /\ raft' = [raft EXCEPT ![i] = n] /\ worker' = [worker EXCEPT ![i] = "down"]
      /\ dump' = [dump EXCEPT ![i] = Nil] /\ snap' = [snap EXCEPT ![i] = Nil]
  BY DEF Crash
<1> HIDE DEF n
<1>3. raft' \in [Server -> Raft] /\ raft'[i] = n
  BY <1>0, <1>1, <1>2
<1>4. /\ worker' \in [Server -> Location] /\ dump' \in [Server -> Row \union {Nil}]
      /\ snap' \in [Server -> Row \union {Nil}]
  BY <1>0, <1>2 DEF RestType, Location
<1>5. worker'[i] = "down"
  BY <1>0, <1>2 DEF RestType
<1>6. box' \in [Server -> Box]
  <2>1. b \in Box
    BY <1>0, Zenon DEF Box
  <2>2. box' = [box EXCEPT ![i] = b]
    BY <1>0, Zenon DEF Crash, RestType
  <2> QED
    BY <1>0, <2>1, <2>2 DEF RestType
<1>7. net' \in [Server -> [Server -> Seq(Msg)]]
  BY <1>0 DEF Crash, RestType
<1>8. /\ slot' \in [Server -> [Server -> Msg \union {Nil}]]
      /\ applier' \in [Server -> [Server -> {"off", "sync", "follow"}]]
  BY <1>0 DEF Crash, RestType
<1>9. relay' \in [Server -> SUBSET Server]
  BY <1>0 DEF Crash, RestType
<1>10. budget' \in [Events -> Nat]
  BY <1>0, SpendType DEF Crash, Events
<1>11. RestType'
  BY <1>0, <1>4, <1>6, <1>7, <1>8, <1>9, <1>10 DEF RestType, Crash
<1>12. OnlyNode(i)
  BY <1>0, <1>2 DEF OnlyNode, RestType
<1>13. NodeOK(i)'
  BY <1>1, <1>3, <1>5 DEF NodeOK, Kept
<1>14. Grows(i)
  BY <1>5 DEF Grows
<1> QED
  BY <1>1, <1>3, <1>5, <1>11, <1>12, <1>13, <1>14, LocalStep

\* Restart: what recovery has restored.
LEMMA RestartStep ==
    ASSUME TermInv, NEW i \in Server, Restart(i)
    PROVE  /\ StepOK /\ OnlyNode(i)
           /\ raft'[i].term = disk[i].term /\ raft'[i].vote = disk[i].vote
<1> DEFINE p == raft_cfg_instance_id(
                    raft_process_recovery(raft_create(i, raft[i].election_quorum), disk[i]))
           n == box_raft_cfg_election_mode(p, box[i].mode, raft[i].election_quorum = 1)
<1>0. /\ TypeOK /\ raft \in [Server -> Raft] /\ raft[i] \in Raft /\ RestType /\ box[i] \in Box
      /\ disk[i] \in Row
  BY TypesOf DEF TermInv
<1>1. raft[i].election_quorum \in Nat \ {0} /\ box[i].mode \in {"off", "voter", "manual", "candidate"}
  BY <1>0 DEF Raft, Box
<1>2. /\ p \in Raft /\ p.self = i /\ Counted(p) /\ p.term = disk[i].term
      /\ p.volatile_term = disk[i].term /\ p.vote = disk[i].vote /\ p.volatile_vote = disk[i].vote
  <2> DEFINE q == raft[i].election_quorum
             row == disk[i]
  <2>1. q \in Nat \ {0} /\ row \in Row
    BY <1>0, <1>1
  <2>2. p = raft_cfg_instance_id(raft_process_recovery(raft_create(i, q), row))
    OBVIOUS
  <2> HIDE DEF p, q, row
  <2>3. /\ p \in Raft /\ p.self = i /\ Counted(p) /\ p.term = row.term
        /\ p.volatile_term = row.term /\ p.vote = row.vote /\ p.volatile_vote = row.vote
    BY <2>1, <2>2, RecoveryRestores, Zenon
  <2> QED
    BY <2>3 DEF row
<1>3. SetRaft(i, n)
  BY DEF Restart
<1> HIDE DEF p
<1>4. Same(p, n)
  BY <1>1, <1>2, CfgElectionModeSame, Zenon
<1> HIDE DEF n
<1>5. n \in Raft /\ raft' = [raft EXCEPT ![i] = n]
  BY <1>3, <1>4 DEF SetRaft, Same
<1>6. raft' \in [Server -> Raft] /\ raft'[i] = n
  BY <1>0, <1>5
<1>7. worker' = [worker EXCEPT ![i] = "idle"] /\ wal' = [wal EXCEPT ![i] = <<>>] /\ dump' = dump
  BY DEF Restart
<1>8. worker' \in [Server -> Location] /\ worker'[i] = "idle" /\ wal' \in [Server -> Seq(Entry)]
  BY <1>0, <1>7 DEF RestType, Location
<1>9. RestType'
  BY <1>0, <1>8, Zenon DEF RestType, Restart, linkVars
<1>10. OnlyNode(i)
  BY <1>0, <1>5, <1>7 DEF OnlyNode, RestType
<1>11. NodeOK(i)'
  <2>1. disk[i].term >= disk[i].term
    BY <1>0 DEF Row, Term
  <2> QED
    BY <1>2, <1>4, <1>6, <1>8, <2>1 DEF NodeOK, Same, Kept, Counted
<1>12. Grows(i)
  BY DEF Grows, Restart, IsRunning
<1> QED
  BY <1>2, <1>4, <1>6, <1>9, <1>10, <1>11, <1>12, LocalStep DEF Same

-----------------------------------------------------------------------------
(* The theorems.                                                           *)

\* Record.
LEMMA RecordType ==
    ASSUME TypeOK, raft' \in [Server -> Raft], Record
    PROVE  /\ voted' \subseteq Server \X Term \X Server
           /\ elected' \subseteq Term \X Server
           /\ flushed' \in [Server -> Vclock]
<1>1. /\ voted \subseteq Server \X Term \X Server /\ elected \subseteq Term \X Server
      /\ flushed \in [Server -> Vclock] /\ vclock \in [Server -> Vclock]
  BY DEF TypeOK
<1>2. \A i \in Server : /\ raft'[i].term \in Term /\ raft'[i].volatile_term \in Term
                        /\ raft'[i].vote # Nil => raft'[i].vote \in Server
  BY DEF Raft, ServerOrNil
<1>3. voted' \subseteq Server \X Term \X Server
  <2>1. \A x \in voted' : x \in voted \/
            \E i \in Server : raft'[i].vote # Nil /\ x = <<i, raft'[i].term, raft'[i].vote>>
    BY DEF Record
  <2> QED
    BY <1>1, <1>2, <2>1
<1>4. elected' \subseteq Term \X Server
  <2>1. \A x \in elected' : x \in elected \/
            \E i \in Server : x = <<raft'[i].volatile_term, i>>
    BY DEF Record
  <2> QED
    BY <1>1, <1>2, <2>1
<1>5. flushed' \in [Server -> Vclock]
  BY <1>1 DEF Record
<1> QED
  BY <1>3, <1>4, <1>5

\* Every action.
LEMMA NextStep ==
    ASSUME TermInv, Next
    PROVE  StepOK /\ \E i \in Server : Quiet(i) \/ DiskStep(i)
<1>0. TypeOK
  BY DEF TermInv
<1>1. ASSUME NEW i \in Server, NodeStep(i)
      PROVE  StepOK /\ (Quiet(i) \/ DiskStep(i))
  <2>1. CASE WorkerBroadcasted(i) \/ WorkerQsync(i) \/ WorkerQsyncDone(i)
    BY <1>0, <2>1, WorkerGoesOn, HandledStep
  <2>2. CASE Timer(i) \/ Promote(i) \/ PromoteEnd(i) \/ TriggerElections(i)
    BY <1>0, <2>2, ElectionHandled, HandledStep
  <2>3. CASE CfgFencing(i) \/ CfgTimeout(i)
    BY <1>0, <2>3, CfgHandled, HandledStep, Zenon
  <2>4. CASE \E mode \in Modes : CfgElectionMode(i, mode)
    BY <1>0, <2>4, CfgHandled, HandledStep, Zenon
  <2>5. CASE \E quorum \in Quorums : CfgQuorum(i, quorum)
    BY <1>0, <2>5, CfgHandled, HandledStep, Zenon
  <2>6. CASE WriteRow(i) \/ CheckpointBegin(i) \/ CheckpointCommit(i)
    BY <2>6, QueueStep DEF DiskStep
  <2>7. CASE WorkerWrite(i) \/ WorkerDumped(i) \/ WalComplete(i) \/ Crash(i) \/ Restart(i)
    BY <2>7, WriteStep, DumpedStep, CompleteStep, CrashStep, RestartStep DEF DiskStep
  <2>8. CASE WorkerIterate(i)
    BY <2>8, IterateStep
  <2> QED
    BY <1>1, <2>1, <2>2, <2>3, <2>4, <2>5, <2>6, <2>7, <2>8 DEF NodeStep
<1>2. ASSUME NEW i \in Server, NEW j \in Peers(i), LinkStep(i, j)
      PROVE  StepOK /\ \E k \in Server : Quiet(k) \/ DiskStep(k)
  <2>0. j \in Server
    BY DEF Peers
  <2>1. CASE Deliver(i, j) \/ Heartbeat(i, j) \/ SignalAck(i, j) \/ ProcessAck(i, j)
    BY <2>1, MessageHandled, HandledStep
  <2>2. CASE Subscribe(i, j)
    BY <1>0, <2>0, <2>2, SubscribeHandled, HandledStep
  <2>3. CASE \E n \in 0..MaxInFlight : RelayStop(i, j, n)
    BY <1>0, <2>3, ConnectionHandled, HandledStep
  <2>4. CASE ApplierFollow(i, j) \/ ApplierStop(i, j)
    BY <1>0, <2>4, ConnectionHandled, HandledStep
  <2>5. CASE \E id \in Server : ApplyRow(i, j, id)
    BY <2>0, <2>5, QueueStep DEF DiskStep
  <2> QED
    BY <1>2, <2>1, <2>2, <2>3, <2>4, <2>5 DEF LinkStep
<1> QED
  BY <1>1, <1>2 DEF Next

\* The values of replication_synchro_quorum.
LEMMA QuorumType ==
    ASSUME NEW q \in Quorums
    PROVE  q \in Nat \ {0}
<1>1. Cardinality(Server) \in Nat
  BY ServerAssumption, FS_CardinalityType
<1>2. q \in 1..Cardinality(Server)
  OBVIOUS
<1> QED
  BY <1>1, <1>2

\* The initial state.
LEMMA InitTermInv == Init => TermInv
<1> SUFFICES ASSUME Init PROVE TermInv
  OBVIOUS
<1>1. PICK s \in Scenarios :
        /\ budget = s.budget
        /\ box = [i \in Server |-> [mode |-> s.modes[i], fencing |-> TRUE,
                                    fencing_paused |-> FALSE, promotes |-> 0]]
        /\ raft = [i \in Server |->
                    [box_raft_cfg_election_mode(raft_create(i, s.quorum), s.modes[i], TRUE)
                        EXCEPT !.is_broadcast_scheduled = FALSE]]
  BY Zenon DEF Init
<1>2. /\ \A i \in Server : s.modes[i] \in {"off", "voter", "manual", "candidate"}
      /\ s.budget \in [Events -> Nat]
  BY DEF Scenario
<1>3. s.quorum \in Nat \ {0}
  <2>1. s.quorum \in Quorums
    BY DEF Scenario
  <2> QED
    BY <2>1, QuorumType, Zenon
<1>4. ASSUME NEW i \in Server
      PROVE  /\ raft[i] \in Raft /\ raft[i].self = i /\ Counted(raft[i]) /\ Kept(raft[i])
  <2> DEFINE c == raft_create(i, s.quorum)
             m == box_raft_cfg_election_mode(c, s.modes[i], TRUE)
  <2>1. /\ c \in Raft /\ c.self = i /\ Counted(c) /\ c.term = 1 /\ c.volatile_term = 1
        /\ c.vote = Nil /\ c.volatile_vote = Nil
    BY <1>3, CreateType
  <2>2. raft[i] = [m EXCEPT !.is_broadcast_scheduled = FALSE]
    BY <1>1
  <2> HIDE DEF c
  <2>3. Same(c, m)
    BY <1>2, <2>1, CfgElectionModeSame, Zenon
  <2> HIDE DEF m
  <2>4. Same(m, raft[i])
    BY <2>2, <2>3, Zenon DEF Same, Raft
  <2>5. Same(c, raft[i])
    BY <2>1, <2>3, <2>4, SameTransitive, Zenon
  <2> QED
    <3>1. /\ raft[i] \in Raft /\ raft[i].self = i /\ raft[i].votes[i] = c.votes[i]
          /\ raft[i].term = 1 /\ raft[i].volatile_term = 1
          /\ raft[i].vote = Nil /\ raft[i].volatile_vote = Nil
      BY <2>1, <2>5, Zenon DEF Same
    <3>2. Counted(raft[i])
      BY <2>1, <3>1, Zenon DEF Counted
    <3>3. Kept(raft[i])
      BY <3>1 DEF Kept
    <3> QED
      BY <3>1, <3>2, <3>3
<1>5. raft \in [Server -> Raft]
  BY <1>1, <1>4, Zenon
<1>6. box \in [Server -> Box]
  BY <1>1, <1>2 DEF Box
<1>7. /\ worker \in [Server -> Location] /\ dump \in [Server -> Row \union {Nil}]
      /\ \A i \in Server : worker[i] = "idle"
  BY DEF Init, Location
<1>8. /\ wal \in [Server -> Seq(Entry)] /\ vclock \in [Server -> Vclock]
      /\ flushed \in [Server -> Vclock]
  BY DEF Init, Vclock
<1>9. disk \in [Server -> Row] /\ snap \in [Server -> Row \union {Nil}]
  BY DEF Init, Row, Term, ServerOrNil
<1>10. /\ net \in [Server -> [Server -> Seq(Msg)]]
       /\ slot \in [Server -> [Server -> Msg \union {Nil}]]
       /\ ack \in [Server -> [Server -> Nat]]
  BY DEF Init
<1>11. /\ applier \in [Server -> [Server -> {"off", "sync", "follow"}]]
       /\ relay \in [Server -> SUBSET Server]
       /\ budget \in [Events -> Nat]
  BY <1>1, <1>2 DEF Init, Peers
<1>12. voted = {} /\ elected = {}
  BY DEF Init
<1>13. TypeOK
  BY <1>5, <1>6, <1>7, <1>8, <1>9, <1>10, <1>11, <1>12 DEF TypeOK
<1> QED
  BY <1>4, <1>7, <1>13 DEF TermInv, NodeOK

\* The invariant is inductive.
LEMMA NextTermInv == TermInv /\ [Next]_vars => TermInv'
<1> SUFFICES ASSUME TermInv, [Next]_vars PROVE TermInv'
  OBVIOUS
<1>1. CASE Next
  <2>1. StepOK
    BY <1>1, NextStep
  <2>2. /\ voted' \subseteq Server \X Term \X Server /\ elected' \subseteq Term \X Server
        /\ flushed' \in [Server -> Vclock]
    BY <1>1, <2>1, RecordType DEF TermInv, Next, StepOK
  <2>3. TypeOK'
    BY <2>1, <2>2, Zenon DEF StepOK, TypeOK, RestType
  <2> QED
    BY <2>1, <2>3 DEF StepOK, TermInv
<1>2. CASE UNCHANGED vars
  BY <1>2, Zenon DEF vars, TermInv, NodeOK, TypeOK
<1> QED
  BY <1>1, <1>2

\* The inductive invariant.
LEMMA TermInvariant == Spec => []TermInv
<1> QED
  BY InitTermInv, NextTermInv, PTL DEF Spec

\* Every variable keeps its type, for every replica set and all bounds.
THEOREM TypeCorrect == Spec => []TypeOK
<1>1. TermInv => TypeOK
  BY DEF TermInv
<1> QED
  BY <1>1, TermInvariant, PTL

\* A vote that an instance has, or is writing, is counted among the votes of
\* the term, through revocations, crashes and recovery: the assertion of
\* raft_sm_schedule_new_vote.
THEOREM OwnVoteCorrect == Spec => []OwnVoteIsCounted
<1>1. TermInv => OwnVoteIsCounted
  BY DEF TermInv, NodeOK, Counted, OwnVoteIsCounted
<1> QED
  BY <1>1, TermInvariant, PTL

\* While an instance runs, its terms do not go back and a vote on disk is not
\* replaced within its term (raft_process_msg, raft_worker_handle_io).
THEOREM TermsCorrect == Spec => TermsOnlyGrow
<1>1. TermInv /\ [Next]_vars =>
        [\A i \in Server : IsRunning(i) /\ worker'[i] # "down" =>
            /\ raft'[i].volatile_term >= raft[i].volatile_term
            /\ raft'[i].term >= raft[i].term
            /\ raft'[i].term = raft[i].term /\ raft[i].vote # Nil =>
                    raft'[i].vote = raft[i].vote]_vars
  BY NextStep, Zenon DEF StepOK, Grows
<1> QED
  BY <1>1, TermInvariant, PTL DEF Spec, TermsOnlyGrow
=============================================================================
