-------------------------- MODULE BoxRaftVoteProofs -------------------------
(***************************************************************************)
(* An instance shows at most one vote in a term, for any replica set, any  *)
(* configuration and any number of crashes, as long as a checkpoint does   *)
(* not begin while the worker is writing a row.                            *)
(*                                                                         *)
(* The argument: a row that the worker writes is newer than every vote the *)
(* instance has shown, and what recovery would restore agrees with every   *)
(* such vote.  Crashes and recovery preserve this because the vote is      *)
(* shown only after its row is on disk, and in a checkpoint too.           *)
(***************************************************************************)
EXTENDS BoxRaftProofs

\* No checkpoint takes the Raft state while a Raft row is being written.
CheckpointsWait ==
    [][\A i \in Server : CheckpointBegin(i) => worker[i] \notin {"write", "written"}]_vars

\* The votes that instance i has ever shown are older than term t.
Fresh(i, t) == \A x \in voted : x[1] = i => x[2] < t

\* A row that does not contradict them.
Covers(i, row) ==
    \A x \in voted : x[1] = i => x[2] < row.term \/ (x[2] = row.term /\ x[3] = row.vote)

\* What recovery would restore from disk, or from a checkpoint in progress.
DiskOK(i, row) ==
    /\ Covers(i, row)
    /\ worker[i] = "written" =>
            row.term = dump[i].term /\ (dump[i].vote # Nil => row.vote = dump[i].vote)

\* The Raft rows in the WAL queue: at most one, which the worker waits for,
\* and which comes after the rotation of a checkpoint.
Pending(i) == {k \in DOMAIN wal[i] : wal[i][k].kind = "raft"}

QueueOK(i) ==
    \A k \in Pending(i) :
        /\ worker[i] \in {"write", "down"} /\ Fresh(i, wal[i][k].term)
        /\ worker[i] = "write" => wal[i][k] = RaftEntry(dump[i])
        /\ \A l \in Pending(i) : l = k
        /\ \A l \in DOMAIN wal[i] : wal[i][l].kind = "checkpoint" => l < k

VoteOK(i) ==
    /\ raft[i].vote # Nil => <<i, raft[i].term, raft[i].vote>> \in voted
    /\ worker[i] # "down" => Covers(i, raft[i])
    /\ worker[i] \in {"write", "written"} => Fresh(i, dump[i].term)
    /\ DiskOK(i, disk[i])
    /\ snap[i] # Nil => worker[i] # "down" /\ DiskOK(i, snap[i])
    /\ QueueOK(i)

\* The inductive invariant.
VoteInv == TermInv /\ VoteUniqueness /\ \A i \in Server : VoteOK(i)

-----------------------------------------------------------------------------
(* The votes that a step shows.                                            *)

\* The step leaves the disks of the other instances alone.
OnlyDisk(i) ==
    \A k \in Server \ {i} : wal'[k] = wal[k] /\ disk'[k] = disk[k] /\ snap'[k] = snap[k]

\* Only the instance that takes the step shows a vote.
LEMMA VotedGrows ==
    ASSUME VoteInv, NEW i \in Server, OnlyNode(i), Record
    PROVE  /\ voted \subseteq voted'
           /\ raft'[i].vote # Nil => <<i, raft'[i].term, raft'[i].vote>> \in voted'
           /\ \A x \in voted' : x \in voted \/
                (raft'[i].vote # Nil /\ x = <<i, raft'[i].term, raft'[i].vote>>)
<1>1. /\ voted \subseteq voted'
      /\ raft'[i].vote # Nil => <<i, raft'[i].term, raft'[i].vote>> \in voted'
      /\ \A x \in voted' : x \in voted \/
            \E k \in Server : raft'[k].vote # Nil /\ x = <<k, raft'[k].term, raft'[k].vote>>
  BY DEF Record
<1>2. \A k \in Server \ {i} : raft'[k] = raft[k]
  BY DEF OnlyNode
<1>3. \A k \in Server : raft[k].vote # Nil => <<k, raft[k].term, raft[k].vote>> \in voted
  BY DEF VoteInv, VoteOK
<1> QED
  BY <1>1, <1>2, <1>3

\* A step that keeps the visible term and vote of its instance shows nothing
\* new, and neither does a crash.
LEMMA VotedSame ==
    ASSUME VoteInv, NEW i \in Server, OnlyNode(i), Record,
           \/ raft'[i].vote = Nil
           \/ raft'[i].term = raft[i].term /\ raft'[i].vote = raft[i].vote
    PROVE  voted' = voted
<1>1. raft[i].vote # Nil => <<i, raft[i].term, raft[i].vote>> \in voted
  BY DEF VoteInv, VoteOK
<1>2. voted' \subseteq voted
  BY <1>1, VotedGrows, Zenon
<1> QED
  BY <1>2, VotedGrows, Zenon

\* It is enough to look at the instance that takes the step.
LEMMA LocalVote ==
    ASSUME VoteInv, NEW i \in Server, OnlyNode(i), OnlyDisk(i), Record,
           VoteOK(i)', voted' = voted \/ (raft'[i].vote # Nil => Covers(i, raft'[i]))
    PROVE  VoteUniqueness' /\ \A k \in Server : VoteOK(k)'
<1>1. VoteUniqueness /\ voted \subseteq Server \X Term \X Server
  BY DEF VoteInv, TermInv, TypeOK
<1> DEFINE new == <<i, raft'[i].term, raft'[i].vote>>
<1>2. new[1] = i /\ new[2] = raft'[i].term /\ new[3] = raft'[i].vote
  OBVIOUS
<1>3. voted \subseteq voted' /\ \A x \in voted' : x \in voted \/ (raft'[i].vote # Nil /\ x = new)
  BY VotedGrows, Zenon
<1> HIDE DEF new
<1>4. VoteUniqueness'
  <2>1. SUFFICES ASSUME NEW v \in voted', NEW w \in voted', v[1] = w[1], v[2] = w[2]
                 PROVE  v[3] = w[3]
    BY DEF VoteUniqueness
  <2>2. CASE voted' = voted \/ (v \in voted /\ w \in voted)
    BY <1>1, <2>1, <2>2 DEF VoteUniqueness
  <2>3. ASSUME voted' # voted, NEW x \in voted, raft'[i].vote # Nil,
               x[1] = i, x[2] = raft'[i].term
        PROVE  x[3] = raft'[i].vote
    BY <1>1, <2>3 DEF Covers, Term
  <2> QED
    BY <1>2, <1>3, <2>1, <2>2, <2>3
<1>5. ASSUME NEW k \in Server \ {i}
      PROVE  VoteOK(k)'
  <2>1. /\ raft'[k] = raft[k] /\ worker'[k] = worker[k] /\ dump'[k] = dump[k]
        /\ wal'[k] = wal[k] /\ disk'[k] = disk[k] /\ snap'[k] = snap[k]
    BY DEF OnlyNode, OnlyDisk
  <2>2. VoteOK(k) /\ voted \subseteq voted' /\ \A x \in voted' : x[1] = k => x \in voted
    BY <1>2, <1>3 DEF VoteInv
  <2>3. ASSUME NEW t, Fresh(k, t)
        PROVE  \A x \in voted' : x[1] = k => x[2] < t
    BY <2>2, <2>3 DEF Fresh
  <2>4. ASSUME NEW row, Covers(k, row)
        PROVE  \A x \in voted' : x[1] = k =>
                    x[2] < row.term \/ (x[2] = row.term /\ x[3] = row.vote)
    BY <2>2, <2>4 DEF Covers
  <2>5. QueueOK(k)'
    BY <2>1, <2>2, <2>3, Zenon DEF VoteOK, QueueOK, Pending, Fresh
  <2>6. DiskOK(k, disk[k])' /\ (snap'[k] # Nil => worker'[k] # "down" /\ DiskOK(k, snap[k])')
    <3>1. DiskOK(k, disk[k]) /\ (snap[k] # Nil => worker[k] # "down" /\ DiskOK(k, snap[k]))
      BY <2>2, Zenon DEF VoteOK
    <3> DEFINE Restored(row) ==
                 /\ \A x \in voted' : x[1] = k =>
                        x[2] < row.term \/ (x[2] = row.term /\ x[3] = row.vote)
                 /\ worker'[k] = "written" =>
                        row.term = dump'[k].term /\ (dump'[k].vote # Nil => row.vote = dump'[k].vote)
    <3>2. ASSUME NEW row, DiskOK(k, row)
          PROVE  Restored(row)
      BY <2>1, <2>4, <3>2, Zenon DEF DiskOK
    <3> HIDE DEF Restored
    <3>3. Restored(disk'[k]) /\ (snap'[k] # Nil => worker'[k] # "down" /\ Restored(snap'[k]))
      BY <2>1, <3>1, <3>2, Zenon
    <3> QED
      BY <3>3, Zenon DEF DiskOK, Covers, Restored
  <2>7. (worker'[k] # "down" => Covers(k, raft[k])')
    BY <2>1, <2>2, <2>4, Zenon DEF VoteOK, Covers
  <2>8. worker'[k] \in {"write", "written"} => Fresh(k, dump[k].term)'
    BY <2>1, <2>2, <2>3 DEF VoteOK, Fresh
  <2> QED
    BY <2>1, <2>2, <2>5, <2>6, <2>7, <2>8 DEF VoteOK
<1> QED
  BY <1>4, <1>5

-----------------------------------------------------------------------------
(* The steps.                                                              *)

\* What has to be shown of a step.
VoteStep == VoteUniqueness' /\ \A k \in Server : VoteOK(k)'

\* A step that does not touch the disk.
LEMMA QuietVote ==
    ASSUME VoteInv, NEW i \in Server, Quiet(i), Record
    PROVE  VoteStep
<1>0. VoteOK(i) /\ worker \in [Server -> Location]
  BY DEF VoteInv, TermInv, TypeOK
<1>1. voted' = voted
  BY VotedSame DEF Quiet
<1>2. OnlyNode(i) /\ OnlyDisk(i)
  BY DEF Quiet, OnlyDisk
<1>3. /\ raft'[i].term = raft[i].term /\ raft'[i].vote = raft[i].vote
      /\ dump'[i] = dump[i] /\ wal'[i] = wal[i] /\ disk'[i] = disk[i] /\ snap'[i] = snap[i]
      /\ worker'[i] = worker[i] \/ (worker[i] \in Active /\ worker'[i] \in Active)
  BY <1>0 DEF Quiet
<1>4. QueueOK(i)'
  BY <1>0, <1>1, <1>3 DEF VoteOK, QueueOK, Pending, Fresh, Active
<1>5. VoteOK(i)'
  BY <1>0, <1>1, <1>3, <1>4, Zenon DEF VoteOK, DiskOK, Covers, Fresh, Active
<1> QED
  BY <1>1, <1>2, <1>5, LocalVote DEF VoteStep

\* A queue with one entry more.
LEMMA AppendEntry ==
    ASSUME NEW q \in Seq(Entry), NEW e \in Entry
    PROVE  /\ \A k \in DOMAIN Append(q, e) : k \in DOMAIN q \/ k = Len(q) + 1
           /\ \A k \in DOMAIN q : Append(q, e)[k] = q[k] /\ k < Len(q) + 1
           /\ Append(q, e)[Len(q) + 1] = e /\ Len(q) + 1 \notin DOMAIN q
<1>1. Len(q) \in Nat /\ DOMAIN q = 1..Len(q)
  BY LenProperties
<1>2. /\ Append(q, e) \in Seq(Entry) /\ Len(Append(q, e)) = Len(q) + 1
      /\ \A k \in 1..Len(q) : Append(q, e)[k] = q[k]
      /\ Append(q, e)[Len(q) + 1] = e
  BY AppendProperties
<1>3. DOMAIN Append(q, e) = 1..(Len(q) + 1)
  BY <1>2, LenProperties
<1> QED
  BY <1>1, <1>2, <1>3

\* A queue without its first entry.
LEMMA TailEntry ==
    ASSUME NEW q \in Seq(Entry), q # <<>>
    PROVE  /\ Head(q) = q[1] /\ 1 \in DOMAIN q
           /\ DOMAIN q \subseteq Nat \ {0} /\ DOMAIN Tail(q) \subseteq Nat \ {0}
           /\ \A k \in DOMAIN Tail(q) : k + 1 \in DOMAIN q /\ Tail(q)[k] = q[k + 1]
<1>1. Len(q) \in Nat \ {0} /\ DOMAIN q = 1..Len(q)
  BY LenProperties, EmptySeq
<1>2. /\ Head(q) = q[1] /\ Tail(q) \in Seq(Entry) /\ Len(Tail(q)) = Len(q) - 1
      /\ \A k \in 1..(Len(q) - 1) : Tail(q)[k] = q[k + 1]
  BY <1>1, HeadTailProperties
<1>3. DOMAIN Tail(q) = 1..(Len(q) - 1)
  BY <1>2, LenProperties
<1> QED
  BY <1>1, <1>2, <1>3

\* The worker queues a row: it is newer than the votes that were shown.
LEMMA WriteVote ==
    ASSUME VoteInv, NEW i \in Server, WorkerWrite(i), Record
    PROVE  VoteStep
<1> DEFINE row == raft_dump_req(raft[i])
           e == RaftEntry(row)
<1>0. /\ VoteOK(i) /\ TypeOK /\ NodeOK(i) /\ raft[i] \in Raft /\ RestType
      /\ vclock[i] \in Vclock /\ voted \subseteq Server \X Term \X Server
  BY TypesOf, Zenon DEF VoteInv, TermInv, TypeOK
<1>1. /\ row \in Row /\ KeptRow(raft[i], row)
      /\ row.term = raft[i].term => raft[i].vote = Nil
  BY <1>0, DumpKept, CheckpointType DEF NodeOK, WorkerWrite
<1>2. /\ raft' = raft /\ dump' = [dump EXCEPT ![i] = row] /\ disk' = disk /\ snap' = snap
      /\ worker' = [worker EXCEPT ![i] = "write"] /\ worker[i] \in {"idle", "loop"}
      /\ wal' = [wal EXCEPT ![i] = Append(wal[i], e)]
  BY DEF WorkerWrite
<1>3. e \in Entry /\ e.kind = "raft" /\ e.term = row.term
  BY <1>1 DEF RaftEntry, Entry, Row
<1> HIDE DEF row
<1>4. OnlyNode(i) /\ OnlyDisk(i)
  BY <1>0, <1>2 DEF OnlyNode, OnlyDisk, RestType
<1>5. voted' = voted
  BY <1>2, <1>4, VotedSame
<1>6. Fresh(i, row.term)
  <2>1. Covers(i, raft[i])
    BY <1>0, <1>2 DEF VoteOK
  <2>2. ASSUME NEW x \in voted, x[1] = i
        PROVE  x[2] < row.term
    <3>1. x[2] \in Nat /\ x[3] \in Server /\ raft[i].term \in Nat /\ row.term \in Nat
      BY <1>0, <1>1 DEF Raft, Row, Term
    <3>2. x[2] < raft[i].term \/ (x[2] = raft[i].term /\ x[3] = raft[i].vote)
      BY <2>1, <2>2 DEF Covers
    <3>3. x[3] # Nil
      BY <3>1, ServerAssumption
    <3> QED
      BY <1>1, <3>1, <3>2, <3>3 DEF KeptRow
  <2> QED
    BY <2>2 DEF Fresh
<1>7. /\ worker'[i] = "write" /\ dump'[i] = row /\ wal'[i] = Append(wal[i], e)
      /\ wal[i] \in Seq(Entry)
  BY <1>0, <1>2 DEF RestType
<1> HIDE DEF e
<1>8. QueueOK(i)'
  <2>1. \A k \in DOMAIN wal[i] : wal[i][k].kind # "raft"
    BY <1>0, <1>2 DEF VoteOK, QueueOK, Pending
  <2>2. ASSUME NEW k \in Pending(i)'
        PROVE  k = Len(wal[i]) + 1 /\ wal'[i][k] = e
    BY <1>3, <1>7, <2>1, <2>2, AppendEntry DEF Pending
  <2>3. \A l \in DOMAIN wal'[i] : wal'[i][l].kind = "checkpoint" => l < Len(wal[i]) + 1
    BY <1>3, <1>7, AppendEntry
  <2>4. e = RaftEntry(row)
    BY DEF e
  <2> QED
    BY <1>3, <1>5, <1>6, <1>7, <2>2, <2>3, <2>4 DEF QueueOK, Fresh
<1>9. VoteOK(i)'
  BY <1>0, <1>2, <1>5, <1>6, <1>7, <1>8 DEF VoteOK, DiskOK, Covers, Fresh
<1> QED
  BY <1>4, <1>5, <1>9, LocalVote DEF VoteStep

\* raft_write has returned: the vote is shown, and recovery would restore it.
LEMMA DumpedVote ==
    ASSUME VoteInv, NEW i \in Server, WorkerDumped(i), Record
    PROVE  VoteStep
<1>0. /\ VoteOK(i) /\ TermInv /\ RestType /\ worker[i] = "written"
      /\ voted \subseteq Server \X Term \X Server /\ dump[i] \in Row
  BY TypesOf, Zenon DEF VoteInv, TermInv, TypeOK, NodeOK, WorkerDumped
<1>1. /\ OnlyNode(i) /\ raft'[i].term = dump[i].term /\ raft'[i].vote = dump[i].vote
      /\ \E l \in Active : worker' = [worker EXCEPT ![i] = l]
  BY <1>0, DumpedStep
<1>2. wal' = wal /\ disk' = disk /\ snap' = snap
  BY DEF WorkerDumped, diskVars
<1>3. OnlyDisk(i) /\ worker'[i] \in Active
  BY <1>0, <1>1, <1>2 DEF OnlyDisk, RestType
<1>4. Fresh(i, dump[i].term) /\ DiskOK(i, disk[i]) /\ Pending(i) = {}
  BY <1>0 DEF VoteOK, QueueOK
<1> DEFINE new == <<i, raft'[i].term, raft'[i].vote>>
<1>5. new[1] = i /\ new[2] = dump[i].term /\ new[3] = dump[i].vote
  BY <1>1
<1>6. /\ raft'[i].vote # Nil => new \in voted'
      /\ \A x \in voted' : x \in voted \/ (dump[i].vote # Nil /\ x = new)
  BY <1>1, VotedGrows
<1> HIDE DEF new
<1>7. ASSUME NEW row, DiskOK(i, row)
      PROVE  \A x \in voted' : x[1] = i =>
                x[2] < row.term \/ (x[2] = row.term /\ x[3] = row.vote)
  BY <1>0, <1>5, <1>6, <1>7 DEF DiskOK, Covers
<1>8. Covers(i, raft'[i]) /\ Covers(i, raft[i])'
  BY <1>1, <1>4, <1>5, <1>6 DEF Covers, Fresh
<1>9. Pending(i)' = {}
  BY <1>2, <1>4 DEF Pending
<1>10. DiskOK(i, disk[i])' /\ (snap'[i] # Nil => DiskOK(i, snap[i])')
  BY <1>0, <1>2, <1>3, <1>7 DEF VoteOK, DiskOK, Covers, Active
<1>11. VoteOK(i)'
  BY <1>3, <1>6, <1>8, <1>9, <1>10 DEF VoteOK, QueueOK, Active, new
<1> QED
  BY <1>1, <1>3, <1>8, <1>11, LocalVote DEF VoteStep

\* An entry of the queue is on disk.
LEMMA CompleteVote ==
    ASSUME VoteInv, NEW i \in Server, WalComplete(i), Record
    PROVE  VoteStep
<1> DEFINE e == Head(wal[i])
<1>0. /\ VoteOK(i) /\ TypeOK /\ NodeOK(i) /\ RestType /\ wal[i] \in Seq(Entry) /\ wal[i] # <<>>
      /\ worker[i] \in Location
  BY TypesOf, Zenon DEF VoteInv, TermInv, TypeOK, WalComplete
<1>1. /\ raft' = raft /\ dump' = dump
      /\ wal' = [wal EXCEPT ![i] = Tail(wal[i])]
      /\ disk' = [disk EXCEPT ![i] = RecoverRow(disk[i], e)]
      /\ snap' = [snap EXCEPT ![i] = IF snap[i] = Nil \/ IsRotationQueued(wal[i])
                                     THEN snap[i] ELSE RecoverRow(snap[i], e)]
      /\ worker' = [worker EXCEPT ![i] = IF e.kind = "raft" /\ worker[i] = "write"
                                         THEN "written" ELSE worker[i]]
  BY DEF WalComplete
<1>2. OnlyNode(i) /\ OnlyDisk(i)
  BY <1>0, <1>1 DEF OnlyNode, OnlyDisk, RestType
<1>3. voted' = voted
  BY <1>1, <1>2, VotedSame
<1>4. /\ e = wal[i][1] /\ 1 \in DOMAIN wal[i]
      /\ DOMAIN wal[i] \subseteq Nat \ {0} /\ DOMAIN Tail(wal[i]) \subseteq Nat \ {0}
      /\ \A k \in DOMAIN Tail(wal[i]) : k + 1 \in DOMAIN wal[i] /\ Tail(wal[i])[k] = wal[i][k + 1]
  BY <1>0, TailEntry
<1> HIDE DEF e
<1>5. /\ wal'[i] = Tail(wal[i]) /\ disk'[i] = RecoverRow(disk[i], e)
      /\ worker'[i] = IF e.kind = "raft" /\ worker[i] = "write" THEN "written" ELSE worker[i]
  BY <1>0, <1>1 DEF RestType
<1>6. snap'[i] = IF snap[i] = Nil THEN Nil ELSE RecoverRow(snap[i], e)
  <2>1. e.kind = "raft" => ~IsRotationQueued(wal[i])
    <3>1. SUFFICES ASSUME e.kind = "raft", NEW l \in DOMAIN wal[i],
                          wal[i][l].kind = "checkpoint"
                   PROVE  FALSE
      BY Zenon DEF IsRotationQueued
    <3>2. l < 1
      BY <1>0, <1>4, <3>1, Zenon DEF VoteOK, QueueOK, Pending
    <3> QED
      BY <1>4, <3>2
  <2>2. snap'[i] = IF snap[i] = Nil \/ IsRotationQueued(wal[i])
                   THEN snap[i] ELSE RecoverRow(snap[i], e)
    BY <1>0, <1>1 DEF RestType
  <2>3. e.kind # "raft" => RecoverRow(snap[i], e) = snap[i]
    BY DEF RecoverRow
  <2> QED
    BY <2>1, <2>2, <2>3
<1>7. /\ e.kind = "raft" => worker[i] \in {"write", "down"} /\ Fresh(i, e.term)
      /\ e.kind = "raft" /\ worker[i] = "write" => e = RaftEntry(dump[i])
  BY <1>0, <1>4 DEF VoteOK, QueueOK, Pending
<1>8. QueueOK(i)'
  <2>1. ASSUME NEW k \in Pending(i)'
        PROVE  k \in Nat \ {0} /\ k + 1 \in Pending(i) /\ wal'[i][k] = wal[i][k + 1]
    BY <1>4, <1>5, <2>1 DEF Pending
  <2>2. e.kind = "raft" => Pending(i)' = {}
    <3>1. SUFFICES ASSUME e.kind = "raft", NEW k \in Pending(i)' PROVE FALSE
      OBVIOUS
    <3>2. 1 \in Pending(i)
      BY <1>4, <3>1 DEF Pending
    <3>3. k + 1 = 1
      BY <1>0, <2>1, <3>1, <3>2 DEF VoteOK, QueueOK
    <3> QED
      BY <2>1, <3>1, <3>3
  <2>3. ASSUME e.kind # "raft", NEW k \in Pending(i)'
        PROVE  /\ worker'[i] \in {"write", "down"} /\ Fresh(i, wal[i][k].term)'
               /\ worker'[i] = "write" => wal'[i][k] = RaftEntry(dump'[i])
    BY <1>0, <1>1, <1>3, <1>5, <2>1, <2>3, Zenon DEF VoteOK, QueueOK, Fresh
  <2>4. ASSUME NEW k \in Pending(i)', NEW l \in Pending(i)'
        PROVE  l = k
    <3>1. k + 1 = l + 1 /\ k \in Nat /\ l \in Nat
      BY <1>0, <2>1, <2>4 DEF VoteOK, QueueOK
    <3> QED
      BY <3>1
  <2>5. ASSUME NEW k \in Pending(i)', NEW l \in DOMAIN wal'[i], wal'[i][l].kind = "checkpoint"
        PROVE  l < k
    <3>1. l \in Nat /\ l + 1 \in DOMAIN wal[i] /\ wal[i][l + 1].kind = "checkpoint"
      BY <1>4, <1>5, <2>5
    <3>2. l + 1 < k + 1 /\ k \in Nat
      BY <1>0, <2>1, <2>5, <3>1 DEF VoteOK, QueueOK
    <3> QED
      BY <3>1, <3>2
  <2> QED
    BY <2>2, <2>3, <2>4, <2>5 DEF QueueOK
<1> DEFINE Restored(d) ==
             /\ \A x \in voted' : x[1] = i => x[2] < d.term \/ (x[2] = d.term /\ x[3] = d.vote)
             /\ worker'[i] = "written" =>
                    d.term = dump'[i].term /\ (dump'[i].vote # Nil => d.vote = dump'[i].vote)
<1>9. ASSUME NEW row, DiskOK(i, row)
      PROVE  Restored(RecoverRow(row, e))
  <2>1. CASE e.kind = "raft"
    <3> DEFINE n == RecoverRow(row, e)
    <3>1. n.term = e.term /\ (e.vote # Nil => n.vote = e.vote)
      BY <2>1 DEF RecoverRow
    <3>2. worker'[i] = "written" => e.term = dump[i].term /\ e.vote = dump[i].vote
      <4>1. worker'[i] = "written" => worker[i] = "write"
        BY <1>5, <1>7, <2>1
      <4>2. worker'[i] = "written" => e = RaftEntry(dump[i])
        BY <1>7, <2>1, <4>1, Zenon
      <4> QED
        BY <4>2 DEF RaftEntry
    <3>3. \A x \in voted' : x[1] = i => x[2] < n.term
      BY <1>3, <1>7, <2>1, <3>1 DEF Fresh
    <3> HIDE DEF n
    <3>4. Restored(n)
      BY <1>1, <3>1, <3>2, <3>3
    <3> QED
      BY <3>4 DEF n
  <2>2. CASE e.kind # "raft"
    <3>1. RecoverRow(row, e) = row /\ worker'[i] = worker[i]
      BY <1>5, <2>2 DEF RecoverRow
    <3> QED
      BY <1>1, <1>3, <1>9, <3>1 DEF DiskOK, Covers
  <2> QED
    BY <2>1, <2>2
<1>10. DiskOK(i, disk[i])' /\ (snap'[i] # Nil => worker'[i] # "down" /\ DiskOK(i, snap[i])')
  <2>1. DiskOK(i, disk[i])'
    <3>1. disk'[i] = RecoverRow(disk[i], e)
      BY <1>5
    <3>2. DiskOK(i, disk[i])
      BY <1>0 DEF VoteOK
    <3>3. Restored(RecoverRow(disk[i], e))
      BY <1>9, <3>2
    <3> QED
      BY <3>1, <3>3 DEF DiskOK, Covers
  <2>2. ASSUME snap'[i] # Nil PROVE worker'[i] # "down" /\ DiskOK(i, snap[i])'
    <3>1. snap[i] # Nil /\ snap'[i] = RecoverRow(snap[i], e)
      BY <1>6, <2>2
    <3>2. worker[i] # "down" /\ DiskOK(i, snap[i])
      BY <1>0, <3>1 DEF VoteOK
    <3>3. Restored(RecoverRow(snap[i], e)) /\ worker'[i] # "down"
      BY <1>5, <1>9, <3>2
    <3> QED
      BY <3>1, <3>3 DEF DiskOK, Covers
  <2> QED
    BY <2>1, <2>2
<1> HIDE DEF Restored
<1>11. VoteOK(i)'
  <2>1. /\ raft'[i] = raft[i] /\ dump'[i] = dump[i]
        /\ worker'[i] # "down" => worker[i] # "down"
        /\ worker'[i] \in {"write", "written"} => worker[i] \in {"write", "written"}
    BY <1>1, <1>5
  <2> QED
    BY <1>0, <1>3, <1>8, <1>10, <2>1 DEF VoteOK, Covers, Fresh
<1> QED
  BY <1>2, <1>3, <1>11, LocalVote DEF VoteStep

\* The queue gets an entry that is not a Raft row.
LEMMA QueueAppend ==
    ASSUME VoteInv, NEW i \in Server, NEW e \in Entry, e.kind # "raft",
           e.kind = "checkpoint" => Pending(i) = {},
           wal' = [wal EXCEPT ![i] = Append(wal[i], e)],
           worker' = worker, dump' = dump, voted' = voted
    PROVE  QueueOK(i)'
<1>0. QueueOK(i) /\ wal[i] \in Seq(Entry) /\ wal'[i] = Append(wal[i], e)
  BY Zenon DEF VoteInv, VoteOK, TermInv, TypeOK
<1>1. /\ \A k \in DOMAIN wal'[i] : k \in DOMAIN wal[i] \/ k = Len(wal[i]) + 1
      /\ \A k \in DOMAIN wal[i] : wal'[i][k] = wal[i][k]
      /\ wal'[i][Len(wal[i]) + 1] = e
  BY <1>0, AppendEntry
<1>2. \A k \in Pending(i)' : k \in Pending(i) /\ wal'[i][k] = wal[i][k]
  BY <1>1 DEF Pending
<1>3. ASSUME NEW k \in Pending(i)', NEW l \in DOMAIN wal'[i], wal'[i][l].kind = "checkpoint"
      PROVE  l < k
  <2>1. l \in DOMAIN wal[i] /\ wal[i][l].kind = "checkpoint"
    BY <1>1, <1>2, <1>3
  <2> QED
    BY <1>0, <1>2, <1>3, <2>1 DEF QueueOK
<1> QED
  BY <1>0, <1>2, <1>3, Zenon DEF QueueOK, Fresh

\* The data rows and the checkpoint.
LEMMA QueueVote ==
    ASSUME VoteInv, NEW i \in Server, NEW j \in Server, NEW id \in Server, Record,
           \/ WriteRow(i) \/ ApplyRow(i, j, id) \/ CheckpointCommit(i)
           \/ CheckpointBegin(i) /\ worker[i] \notin {"write", "written"}
    PROVE  VoteStep
<1>0. /\ VoteOK(i) /\ TypeOK /\ RestType /\ raft[i] \in Raft
  BY TypesOf DEF VoteInv, TermInv
<1>1. raft' = raft /\ worker' = worker /\ dump' = dump
  BY DEF WriteRow, ApplyRow, CheckpointBegin, CheckpointCommit, nodeVars
<1>2. OnlyNode(i) /\ OnlyDisk(i)
  BY <1>0, <1>1, Zenon
     DEF OnlyNode, OnlyDisk, RestType, WriteRow, ApplyRow, CheckpointBegin, CheckpointCommit
<1>3. voted' = voted
  BY <1>1, <1>2, VotedSame
<1>4. CASE WriteRow(i) \/ ApplyRow(i, j, id)
  <2>1. disk' = disk /\ snap' = snap
    BY <1>4 DEF WriteRow, ApplyRow
  <2>2. \E k \in Server : wal' = [wal EXCEPT ![i] = Append(wal[i], RowEntry(k))]
    BY <1>4 DEF WriteRow, ApplyRow
  <2>3. \A k \in Server : RowEntry(k) \in Entry /\ RowEntry(k).kind = "row"
    BY DEF RowEntry, Entry
  <2>4. QueueOK(i)'
    BY <1>1, <1>3, <2>2, <2>3, QueueAppend, Zenon
  <2>5. VoteOK(i)'
    BY <1>0, <1>1, <1>3, <2>1, <2>4 DEF VoteOK, DiskOK, Covers, Fresh
  <2> QED
    BY <1>2, <1>3, <2>5, LocalVote DEF VoteStep
<1>5. CASE CheckpointBegin(i) /\ worker[i] \notin {"write", "written"}
  <2> DEFINE row == raft_checkpoint_local(raft[i])
  <2>1. disk' = disk /\ snap' = [snap EXCEPT ![i] = row] /\ worker[i] # "down"
    BY <1>5 DEF CheckpointBegin, Yielded
  <2>2. wal' = [wal EXCEPT ![i] = Append(wal[i], CheckpointEntry)]
    BY <1>5 DEF CheckpointBegin
  <2>3. row.term = raft[i].term /\ row.vote = raft[i].vote
    BY DEF raft_checkpoint_local
  <2> HIDE DEF row
  <2>4. CheckpointEntry \in Entry /\ CheckpointEntry.kind = "checkpoint"
    BY DEF CheckpointEntry, Entry
  <2>5. Pending(i) = {}
    BY <1>0, <1>5, <2>1 DEF VoteOK, QueueOK
  <2>6. QueueOK(i)'
    BY <1>1, <1>3, <2>2, <2>4, <2>5, QueueAppend, Zenon
  <2>7. snap'[i] = row
    BY <1>0, <2>1 DEF RestType
  <2>8. DiskOK(i, snap[i])'
    BY <1>0, <1>1, <1>3, <1>5, <2>1, <2>3, <2>7, Zenon DEF VoteOK, DiskOK, Covers
  <2>9. VoteOK(i)'
    BY <1>0, <1>1, <1>3, <2>1, <2>6, <2>8, Zenon DEF VoteOK, DiskOK, Covers, Fresh
  <2> QED
    BY <1>2, <1>3, <2>9, LocalVote DEF VoteStep
<1>6. CASE CheckpointCommit(i)
  <2>1. /\ disk' = [disk EXCEPT ![i] = snap[i]] /\ snap' = [snap EXCEPT ![i] = Nil]
        /\ wal' = wal /\ snap[i] # Nil
    BY <1>6 DEF CheckpointCommit
  <2>2. disk'[i] = snap[i] /\ snap'[i] = Nil
    BY <1>0, <2>1 DEF RestType
  <2>3. QueueOK(i)'
    BY <1>0, <1>1, <1>3, <2>1, ZenonT(60) DEF VoteOK, QueueOK, Pending, Fresh
  <2>4. DiskOK(i, disk[i])'
    BY <1>0, <1>1, <1>3, <2>1, <2>2, ZenonT(60) DEF VoteOK, DiskOK, Covers
  <2>5. VoteOK(i)'
    BY <1>0, <1>1, <1>3, <2>2, <2>3, <2>4, Zenon DEF VoteOK, Covers, Fresh
  <2> QED
    BY <1>2, <1>3, <2>5, LocalVote DEF VoteStep
<1> QED
  BY <1>4, <1>5, <1>6

\* Crash: the rows that are on their way to the disk are still newer than the
\* votes that were shown.
LEMMA CrashVote ==
    ASSUME VoteInv, NEW i \in Server, Crash(i), Record
    PROVE  VoteStep
<1>0. VoteOK(i) /\ TermInv /\ RestType
  BY TypesOf DEF VoteInv, TermInv
<1>1. OnlyNode(i) /\ raft'[i].vote = Nil /\ worker'[i] = "down"
  BY <1>0, CrashStep
<1>2. wal' = wal /\ disk' = disk /\ snap' = [snap EXCEPT ![i] = Nil]
  BY DEF Crash
<1>3. OnlyDisk(i) /\ snap'[i] = Nil
  BY <1>0, <1>2 DEF OnlyDisk, RestType
<1>4. voted' = voted
  BY <1>1, VotedSame
<1>5. QueueOK(i)'
  BY <1>0, <1>1, <1>2, <1>4, Zenon DEF VoteOK, QueueOK, Pending, Fresh
<1>6. VoteOK(i)'
  BY <1>0, <1>1, <1>2, <1>3, <1>4, <1>5, Zenon DEF VoteOK, DiskOK, Covers
<1> QED
  BY <1>1, <1>3, <1>4, <1>6, LocalVote, Zenon DEF VoteStep

\* Restart: the restored vote agrees with the votes that were shown.
LEMMA RestartVote ==
    ASSUME VoteInv, NEW i \in Server, Restart(i), Record
    PROVE  VoteStep
<1>0. VoteOK(i) /\ TermInv /\ RestType /\ worker[i] = "down"
  BY TypesOf DEF VoteInv, TermInv, Restart
<1>1. OnlyNode(i) /\ raft'[i].term = disk[i].term /\ raft'[i].vote = disk[i].vote
  BY <1>0, RestartStep
<1>2. /\ wal' = [wal EXCEPT ![i] = <<>>] /\ disk' = disk /\ snap' = snap
      /\ worker' = [worker EXCEPT ![i] = "idle"]
  BY DEF Restart
<1>3. OnlyDisk(i) /\ wal'[i] = <<>> /\ worker'[i] = "idle" /\ snap'[i] = Nil
  BY <1>0, <1>2 DEF OnlyDisk, RestType, VoteOK
<1> DEFINE new == <<i, raft'[i].term, raft'[i].vote>>
<1>4. new[1] = i /\ new[2] = disk[i].term /\ new[3] = disk[i].vote
  BY <1>1
<1>5. /\ raft'[i].vote # Nil => new \in voted'
      /\ \A x \in voted' : x \in voted \/ x = new
  BY VotedGrows, <1>1
<1> HIDE DEF new
<1>6. Covers(i, disk[i])
  BY <1>0 DEF VoteOK, DiskOK
<1>7. \A x \in voted' : x[1] = i =>
            x[2] < disk[i].term \/ (x[2] = disk[i].term /\ x[3] = disk[i].vote)
  BY <1>4, <1>5, <1>6 DEF Covers
<1>8. Covers(i, raft'[i]) /\ Covers(i, raft[i])' /\ Covers(i, disk[i])'
  BY <1>1, <1>2, <1>6, <1>7 DEF Covers
<1>9. Pending(i)' = {}
  BY <1>3 DEF Pending
<1>10. VoteOK(i)'
  BY <1>3, <1>5, <1>8, <1>9, Zenon DEF VoteOK, DiskOK, QueueOK, new
<1> QED
  BY <1>1, <1>3, <1>8, <1>10, LocalVote, Zenon DEF VoteStep

-----------------------------------------------------------------------------
(* The theorem.                                                            *)

\* The action that CheckpointsWait allows.
WaitStep ==
    \A i \in Server : CheckpointBegin(i) => worker[i] \notin {"write", "written"}

\* The initial state.
LEMMA InitVoteInv == Init => VoteInv
<1> SUFFICES ASSUME Init PROVE VoteInv
  OBVIOUS
<1>1. TermInv
  BY InitTermInv
<1>2. voted = {}
  BY DEF Init
<1>3. ASSUME NEW i \in Server PROVE VoteOK(i)
  <2>1. /\ worker[i] = "idle" /\ wal[i] = <<>> /\ snap[i] = Nil
    BY DEF Init
  <2>2. raft[i].vote = Nil
    <3>1. PICK s \in Scenarios :
            raft = [k \in Server |->
                        [box_raft_cfg_election_mode(raft_create(k, s.quorum), s.modes[k], TRUE)
                            EXCEPT !.is_broadcast_scheduled = FALSE]]
      BY Zenon DEF Init
    <3> DEFINE c == raft_create(i, s.quorum)
               m == box_raft_cfg_election_mode(c, s.modes[i], TRUE)
    <3>2. s.modes[i] \in {"off", "voter", "manual", "candidate"}
      BY BoxRaftAssumption DEF Scenario
    <3>3. c \in Raft /\ c.vote = Nil
      <4>1. s.quorum \in Quorums
        BY BoxRaftAssumption DEF Scenario
      <4>2. s.quorum \in Nat \ {0}
        BY <4>1, QuorumType, Zenon
      <4> QED
        BY <4>2, CreateType
    <3>4. raft[i] = [m EXCEPT !.is_broadcast_scheduled = FALSE]
      BY <3>1
    <3> HIDE DEF c
    <3>5. m \in Raft /\ m.vote = Nil
      BY <3>2, <3>3, CfgElectionModeSame, Zenon DEF Same
    <3> HIDE DEF m
    <3> QED
      BY <3>4, <3>5 DEF Raft
  <2> QED
    <3>1. Pending(i) = {}
      BY <2>1 DEF Pending
    <3>2. QueueOK(i)
      BY <3>1, Zenon DEF QueueOK
    <3>3. \A row : DiskOK(i, row)
      BY <1>2, <2>1, Zenon DEF DiskOK, Covers
    <3> QED
      BY <1>2, <2>1, <2>2, <3>2, <3>3, Zenon DEF VoteOK, Covers
<1> QED
  BY <1>1, <1>2, <1>3 DEF VoteInv, VoteUniqueness

\* The invariant is inductive for the steps in which checkpoints wait.
LEMMA NextVoteInv == VoteInv /\ [Next]_vars /\ [WaitStep]_vars => VoteInv'
<1> SUFFICES ASSUME VoteInv, [Next]_vars, [WaitStep]_vars PROVE VoteInv'
  OBVIOUS
<1>1. CASE Next
  <2>1. TermInv /\ TermInv' /\ Record
    BY <1>1, NextTermInv DEF VoteInv, Next
  <2>2. PICK i \in Server : Quiet(i) \/ DiskStep(i)
    BY <1>1, <2>1, NextStep
  <2>3. CASE Quiet(i)
    BY <2>1, <2>3, QuietVote DEF VoteInv, VoteStep
  <2>4. CASE CheckpointBegin(i)
    <3>1. ~UNCHANGED vars
      <4>1. budget \in [Events -> Nat] /\ "checkpoint" \in Events
        BY <2>1, Zenon DEF TermInv, TypeOK, Events
      <4>2. budget' = [budget EXCEPT !["checkpoint"] = @ - 1]
        BY <2>4, Zenon DEF CheckpointBegin, Spend
      <4>3. budget'["checkpoint"] # budget["checkpoint"]
        BY <4>1, <4>2
      <4> QED
        BY <4>3, Zenon DEF vars
    <3>2. worker[i] \notin {"write", "written"}
      BY <2>4, <3>1 DEF WaitStep
    <3> QED
      BY <2>1, <2>4, <3>2, QueueVote DEF VoteInv, VoteStep
  <2>5. CASE DiskStep(i) /\ ~CheckpointBegin(i)
    BY <2>1, <2>5, WriteVote, DumpedVote, CompleteVote, QueueVote, CrashVote, RestartVote
       DEF DiskStep, VoteInv, VoteStep
  <2> QED
    BY <2>2, <2>3, <2>4, <2>5
<1>2. CASE UNCHANGED vars
  <2>1. TermInv'
    BY <1>2, NextTermInv DEF VoteInv
  <2>2. /\ raft' = raft /\ worker' = worker /\ dump' = dump /\ wal' = wal
        /\ disk' = disk /\ snap' = snap /\ voted' = voted
    BY <1>2 DEF vars
  <2>3. VoteUniqueness'
    BY <2>2 DEF VoteInv, VoteUniqueness
  <2>4. ASSUME NEW i \in Server PROVE VoteOK(i)'
    <3>1. VoteOK(i)
      BY DEF VoteInv
    <3>2. QueueOK(i)'
      BY <2>2, <3>1 DEF VoteOK, QueueOK, Pending, Fresh
    <3> QED
      BY <2>2, <3>1, <3>2, Zenon DEF VoteOK, DiskOK, Covers, Fresh
  <2> QED
    BY <2>1, <2>3, <2>4 DEF VoteInv
<1> QED
  BY <1>1, <1>2

\* An instance shows at most one vote in a term, for every replica set and
\* through any crashes, if no checkpoint takes the Raft state while a Raft row
\* is being written (raft_worker_handle_io, raft_process_recovery).
THEOREM VotesCorrect == Spec /\ CheckpointsWait => []VoteUniqueness
<1>1. VoteInv => VoteUniqueness
  BY DEF VoteInv
<1>2. Spec /\ [][WaitStep]_vars => []VoteInv
  BY InitVoteInv, NextVoteInv, PTL DEF Spec
<1> QED
  BY <1>1, <1>2, PTL DEF CheckpointsWait, WaitStep
=============================================================================
