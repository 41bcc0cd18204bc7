--------------------------- MODULE JournalProofs ----------------------------
(***************************************************************************)
(* For any number of writes, any sizes of the queue and any failures of    *)
(* the WAL: no wakeup is lost in the journal queue, writes do not overtake *)
(* each other there, and a WAL watcher misses no write.                    *)
(*                                                                         *)
(* JournalInv is inductive for the queue: waiter_count counts the fibers   *)
(* in the list and those that are woken up, so that a fiber that does not  *)
(* wait finds both empty; the two lists together are the waiting fibers in *)
(* the order of their calls; and the messages in the pipes complete only   *)
(* entries that have left the queue.  WatcherInv adds that the last        *)
(* message of a watcher comes back to a log that has not grown.            *)
(***************************************************************************)
EXTENDS Journal, SequenceTheorems, TLAPS

Queue == [max_size : Int, size : Int, waiters : Seq(Entry), waiter_count : Int,
          ready : Seq(Entry)]

\* The counter of waiters counts the listed and the woken ones.
Counted(q) == q.waiter_count = Len(q.waiters) + Len(q.ready)

\* A fiber stays in the list with nobody on the way to wake it up only as long as
\* the queue is full.
Woken(q) == q.waiters # <<>> /\ q.ready = <<>> => q.size >= q.max_size

QueueInv == queue \in Queue /\ Counted(queue) /\ Woken(queue)

-----------------------------------------------------------------------------
(* Operations of the queue.                                                *)

\* The lists and their lengths when a fiber joins, moves or leaves, and when all
\* move.
LEMMA ListJoin ==
    ASSUME NEW s \in Seq(Entry), NEW t \in Seq(Entry), NEW e \in Entry
    PROVE  /\ Append(s, e) \in Seq(Entry)
           /\ (Len(s) + Len(t)) + 1 = Len(Append(s, e)) + Len(t)
  OBVIOUS

LEMMA ListMove ==
    ASSUME NEW s \in Seq(Entry), NEW t \in Seq(Entry), s # <<>>
    PROVE  /\ Tail(s) \in Seq(Entry) /\ Append(t, Head(s)) \in Seq(Entry)
           /\ Append(t, Head(s)) # <<>>
           /\ Len(s) + Len(t) = Len(Tail(s)) + Len(Append(t, Head(s)))
  OBVIOUS

LEMMA ListLeave ==
    ASSUME NEW s \in Seq(Entry), NEW t \in Seq(Entry), t # <<>>, NEW c, c = Len(s) + Len(t)
    PROVE  Tail(t) \in Seq(Entry) /\ c - 1 = Len(s) + Len(Tail(t))
  OBVIOUS

LEMMA ListConcat ==
    ASSUME NEW s \in Seq(Entry), NEW t \in Seq(Entry)
    PROVE  /\ t \o s \in Seq(Entry) /\ <<>> \in Seq(Entry)
           /\ Len(s) + Len(t) = Len(<<>>) + Len(t \o s)
           /\ Len(s) + Len(t) # 0 => t \o s # <<>>
           /\ Len(s) + Len(t) # 0 /\ t = <<>> => s # <<>>
  OBVIOUS

\* The fields of a queue.
LEMMA QueueFields ==
    ASSUME NEW q \in Queue
    PROVE  /\ q.max_size \in Int /\ q.size \in Int /\ q.waiter_count \in Int
           /\ q.waiters \in Seq(Entry) /\ q.ready \in Seq(Entry)
           /\ q.waiter_count + 1 \in Int /\ q.waiter_count - 1 \in Int
<1>1. /\ q.max_size \in Int /\ q.size \in Int /\ q.waiter_count \in Int
      /\ q.waiters \in Seq(Entry) /\ q.ready \in Seq(Entry)
  BY Zenon DEF Queue
<1>2. \A c \in Int : c + 1 \in Int /\ c - 1 \in Int
  OBVIOUS
<1> QED
  BY <1>1, <1>2, Zenon

\* journal_queue_wakeup keeps the counter and leaves no fiber behind.
LEMMA Wakeup ==
    ASSUME NEW q \in Queue, Counted(q)
    PROVE  /\ journal_queue_wakeup(q) \in Queue
           /\ Counted(journal_queue_wakeup(q))
           /\ Woken(journal_queue_wakeup(q))
<1>1. CASE q.waiters # <<>> /\ ~journal_queue_is_full(q)
  <2> DEFINE w == Tail(q.waiters)
             r == Append(q.ready, Head(q.waiters))
             n == journal_queue_wakeup(q)
  <2>1. /\ w \in Seq(Entry) /\ r \in Seq(Entry) /\ r # <<>>
        /\ Len(w) + Len(r) = Len(q.waiters) + Len(q.ready)
    BY <1>1, QueueFields, ListMove, Zenon
  <2>2. n = [q EXCEPT !.waiters = w, !.ready = r]
    BY <1>1, Zenon DEF journal_queue_wakeup
  <2> HIDE DEF w, r, n
  <2>3. /\ n \in Queue /\ n.waiters = w /\ n.ready = r /\ n.waiter_count = q.waiter_count
    BY <2>1, <2>2 DEF Queue
  <2> QED
    BY <2>1, <2>3, Zenon DEF Counted, Woken, n
<1>2. CASE ~(q.waiters # <<>> /\ ~journal_queue_is_full(q))
  BY <1>2, Zenon DEF journal_queue_wakeup, Woken, journal_queue_is_full
<1> QED
  BY <1>1, <1>2, Zenon

\* A fiber joins the list of a queue that is full or has other waiters.
LEMMA WaitInList ==
    ASSUME NEW q \in Queue, Counted(q), Woken(q), NEW e \in Entry,
           journal_queue_is_full(q) \/ journal_queue_has_waiters(q)
    PROVE  /\ journal_queue_wait(q, e) \in Queue
           /\ Counted(journal_queue_wait(q, e))
           /\ Woken(journal_queue_wait(q, e))
<1> DEFINE w == Append(q.waiters, e)
           c == q.waiter_count + 1
           n == journal_queue_wait(q, e)
<1>1. w \in Seq(Entry) /\ c \in Int /\ c = Len(w) + Len(q.ready)
  <2>1. q.waiters \in Seq(Entry) /\ q.ready \in Seq(Entry) /\ c \in Int
    BY QueueFields, Zenon
  <2>2. q.waiter_count = Len(q.waiters) + Len(q.ready)
    BY Zenon DEF Counted
  <2>3. w \in Seq(Entry) /\ (Len(q.waiters) + Len(q.ready)) + 1 = Len(w) + Len(q.ready)
    BY <2>1, ListJoin, Zenon
  <2> QED
    BY <2>1, <2>2, <2>3, Zenon
<1>2. n = [q EXCEPT !.waiters = w, !.waiter_count = c]
  BY Zenon DEF journal_queue_wait
<1> HIDE DEF w, c, n
<1>4. /\ n \in Queue /\ n.waiters = w /\ n.ready = q.ready /\ n.waiter_count = c
      /\ n.size = q.size /\ n.max_size = q.max_size
  BY <1>1, <1>2 DEF Queue
<1>5. q.ready = <<>> => q.size >= q.max_size
  <2>1. journal_queue_has_waiters(q) /\ q.ready = <<>> => q.waiters # <<>>
    BY QueueFields, ListConcat, Zenon DEF Counted, journal_queue_has_waiters
  <2> QED
    BY <2>1, Zenon DEF Woken, journal_queue_is_full
<1> QED
  BY <1>1, <1>4, <1>5, Zenon DEF Counted, Woken, n

\* journal_queue_flush wakes all fibers up before the caller joins the list.
LEMMA FlushList ==
    ASSUME NEW q \in Queue, Counted(q), NEW e \in Entry, journal_queue_has_waiters(q)
    PROVE  /\ journal_queue_flush(q, e) \in Queue
           /\ Counted(journal_queue_flush(q, e))
           /\ Woken(journal_queue_flush(q, e))
<1> DEFINE r == q.ready \o q.waiters
           w == <<>>
           p == [q EXCEPT !.ready = r, !.waiters = w]
<1>1. /\ r \in Seq(Entry) /\ w \in Seq(Entry)
      /\ Len(w) + Len(r) = Len(q.waiters) + Len(q.ready)
  BY QueueFields, ListConcat, Zenon
<1>2. journal_queue_flush(q, e) = journal_queue_wait(p, e)
  BY Zenon DEF journal_queue_flush
<1>3. w = <<>>
  OBVIOUS
<1> HIDE DEF r, w
<1>4. /\ p \in Queue /\ p.ready = r /\ p.waiters = w /\ p.waiter_count = q.waiter_count
  BY <1>1 DEF Queue
<1> HIDE DEF p
<1>5. Counted(p) /\ Woken(p) /\ journal_queue_has_waiters(p)
  BY <1>1, <1>3, <1>4, Zenon DEF Counted, Woken, journal_queue_has_waiters
<1> QED
  BY <1>2, <1>4, <1>5, WaitInList, Zenon

\* The first ready fiber runs and wakes the next one up.
LEMMA ResumeFirst ==
    ASSUME NEW q \in Queue, Counted(q), q.ready # <<>>
    PROVE  /\ journal_queue_resume(q) \in Queue
           /\ Counted(journal_queue_resume(q))
           /\ Woken(journal_queue_resume(q))
<1> DEFINE r == Tail(q.ready)
           c == q.waiter_count - 1
           p == [q EXCEPT !.ready = r, !.waiter_count = c]
<1>1. r \in Seq(Entry) /\ c \in Int /\ c = Len(q.waiters) + Len(r)
  BY QueueFields, ListLeave, Zenon DEF Counted
<1>2. journal_queue_resume(q) = journal_queue_wakeup(p)
  BY Zenon DEF journal_queue_resume
<1> HIDE DEF r, c
<1>4. /\ p \in Queue /\ p.ready = r /\ p.waiters = q.waiters /\ p.waiter_count = c
  BY <1>1 DEF Queue
<1> HIDE DEF p
<1>5. Counted(p)
  BY <1>1, <1>4, Zenon DEF Counted
<1> QED
  BY <1>2, <1>4, <1>5, Wakeup, Zenon

\* Adding to the size never leaves a fiber behind.
LEMMA AppendSize ==
    ASSUME NEW q \in Queue, Counted(q), Woken(q)
    PROVE  /\ journal_queue_on_append(q) \in Queue
           /\ Counted(journal_queue_on_append(q))
           /\ Woken(journal_queue_on_append(q))
<1> DEFINE n == journal_queue_on_append(q)
<1>1. q.size \in Int /\ q.max_size \in Int
  BY Zenon DEF Queue
<1>2. /\ n \in Queue /\ n.size = q.size + 1 /\ n.max_size = q.max_size
      /\ n.waiters = q.waiters /\ n.ready = q.ready /\ n.waiter_count = q.waiter_count
  BY <1>1 DEF Queue, journal_queue_on_append
<1>3. q.size >= q.max_size => n.size >= n.max_size
  BY <1>1, <1>2
<1> QED
  BY <1>2, <1>3, Zenon DEF Counted, Woken

\* Completing entries wakes a fiber up, see tx_schedule_queue.
LEMMA ScheduleQueue ==
    ASSUME NEW q \in Queue, Counted(q), NEW n \in Int
    PROVE  /\ tx_schedule_queue(q, n) \in Queue
           /\ Counted(tx_schedule_queue(q, n))
           /\ Woken(tx_schedule_queue(q, n))
<1> DEFINE p == journal_queue_on_complete(q, n)
<1>1. q.size \in Int
  BY Zenon DEF Queue
<1>2. /\ p \in Queue /\ p.waiters = q.waiters /\ p.ready = q.ready
      /\ p.waiter_count = q.waiter_count
  BY <1>1 DEF Queue, journal_queue_on_complete
<1>3. Counted(p)
  BY <1>2, Zenon DEF Counted
<1>4. tx_schedule_queue(q, n) = journal_queue_wakeup(p)
  BY Zenon DEF tx_schedule_queue
<1> HIDE DEF p
<1> QED
  BY <1>2, <1>3, <1>4, Wakeup, Zenon

-----------------------------------------------------------------------------
(* The waiting fibers, in the order in which they will run.                *)

Line(q) == q.ready \o q.waiters

\* The line when a fiber moves from one list to the other, joins, or leaves.
LEMMA LineMove ==
    ASSUME NEW s \in Seq(Entry), NEW t \in Seq(Entry), s # <<>>
    PROVE  Append(t, Head(s)) \o Tail(s) = t \o s
<1> DEFINE a == Append(t, Head(s)) \o Tail(s)
           b == t \o s
<1>1. a \in Seq(Entry) /\ b \in Seq(Entry) /\ Len(a) = Len(b)
  OBVIOUS
<1>2. \A k \in 1..Len(a) : a[k] = b[k]
  OBVIOUS
<1> HIDE DEF a, b
<1>3. a = b
  BY <1>1, <1>2, SeqEqual, Zenon
<1> QED
  BY <1>3, Zenon DEF a, b

LEMMA LineJoin ==
    ASSUME NEW s \in Seq(Entry), NEW t \in Seq(Entry), NEW e \in Entry
    PROVE  t \o Append(s, e) = Append(t \o s, e)
<1> DEFINE a == t \o Append(s, e)
           b == Append(t \o s, e)
<1>1. a \in Seq(Entry) /\ b \in Seq(Entry) /\ Len(a) = Len(b)
  OBVIOUS
<1>2. \A k \in 1..Len(a) : a[k] = b[k]
  OBVIOUS
<1> HIDE DEF a, b
<1>3. a = b
  BY <1>1, <1>2, SeqEqual, Zenon
<1> QED
  BY <1>3, Zenon DEF a, b

LEMMA LineLeave ==
    ASSUME NEW s \in Seq(Entry), NEW t \in Seq(Entry), t # <<>>
    PROVE  /\ Tail(t) \o s = Tail(t \o s) /\ Head(t) = Head(t \o s)
           /\ t \o s # <<>> /\ Tail(t) \in Seq(Entry) /\ Head(t) \in Entry
<1> DEFINE a == Tail(t) \o s
           b == Tail(t \o s)
<1>1. /\ a \in Seq(Entry) /\ b \in Seq(Entry) /\ Len(a) = Len(b)
      /\ Head(t) = Head(t \o s) /\ t \o s # <<>>
      /\ Tail(t) \in Seq(Entry) /\ Head(t) \in Entry
  OBVIOUS
<1>2. \A k \in 1..Len(a) : a[k] = b[k]
  OBVIOUS
<1> HIDE DEF a, b
<1>3. a = b
  BY <1>1, <1>2, SeqEqual, Zenon
<1> QED
  BY <1>1, <1>3, Zenon DEF a, b

\* A wakeup does not change the line.
LEMMA WakeupLine ==
    ASSUME NEW q \in Queue
    PROVE  Line(journal_queue_wakeup(q)) = Line(q)
<1>1. CASE q.waiters # <<>> /\ ~journal_queue_is_full(q)
  <2> DEFINE w == Tail(q.waiters)
             r == Append(q.ready, Head(q.waiters))
             n == journal_queue_wakeup(q)
  <2>1. w \in Seq(Entry) /\ r \in Seq(Entry)
    BY <1>1, QueueFields, ListMove, Zenon
  <2>2. n = [q EXCEPT !.waiters = w, !.ready = r]
    BY <1>1, Zenon DEF journal_queue_wakeup
  <2>3. r \o w = q.ready \o q.waiters
    BY <1>1, QueueFields, LineMove, Zenon
  <2> HIDE DEF w, r, n
  <2>4. n.waiters = w /\ n.ready = r
    BY <2>1, <2>2 DEF Queue
  <2> QED
    BY <2>3, <2>4, Zenon DEF Line, n
<1>2. CASE ~(q.waiters # <<>> /\ ~journal_queue_is_full(q))
  BY <1>2, Zenon DEF journal_queue_wakeup
<1> QED
  BY <1>1, <1>2, Zenon

\* A fiber that waits goes to the end of the line.
LEMMA WaitLine ==
    ASSUME NEW q \in Queue, NEW e \in Entry
    PROVE  Line(journal_queue_wait(q, e)) = Append(Line(q), e)
<1> DEFINE w == Append(q.waiters, e)
           n == journal_queue_wait(q, e)
<1>1. q.ready \o w = Append(q.ready \o q.waiters, e)
  BY QueueFields, LineJoin, Zenon
<1>2. n = [q EXCEPT !.waiters = w, !.waiter_count = q.waiter_count + 1]
  BY Zenon DEF journal_queue_wait
<1> HIDE DEF w, n
<1>3. n.waiters = w /\ n.ready = q.ready
  BY <1>2 DEF Queue
<1> QED
  BY <1>1, <1>3, Zenon DEF Line, n

\* Also one that flushes the queue.
LEMMA FlushLine ==
    ASSUME NEW q \in Queue, NEW e \in Entry
    PROVE  Line(journal_queue_flush(q, e)) = Append(Line(q), e)
<1> DEFINE r == q.ready \o q.waiters
           p == [q EXCEPT !.ready = r, !.waiters = <<>>]
<1>1. r \in Seq(Entry) /\ <<>> \in Seq(Entry)
  BY QueueFields, ListConcat, Zenon
<1>2. journal_queue_flush(q, e) = journal_queue_wait(p, e)
  BY Zenon DEF journal_queue_flush
<1>3. r \o <<>> = r
  BY <1>1, ConcatEmptySeq, Zenon
<1> HIDE DEF r
<1>4. p \in Queue /\ p.ready = r /\ p.waiters = <<>>
  BY <1>1 DEF Queue
<1> HIDE DEF p
<1>5. Line(p) = Line(q)
  BY <1>3, <1>4, Zenon DEF Line, r
<1> QED
  BY <1>2, <1>4, <1>5, WaitLine, Zenon

\* The fiber that runs is the first of the line.
LEMMA ResumeLine ==
    ASSUME NEW q \in Queue, q.ready # <<>>
    PROVE  /\ Line(journal_queue_resume(q)) = Tail(Line(q))
           /\ Line(q) # <<>> /\ Head(q.ready) = Head(Line(q))
<1> DEFINE r == Tail(q.ready)
           c == q.waiter_count - 1
           p == [q EXCEPT !.ready = r, !.waiter_count = c]
<1>1. /\ r \in Seq(Entry) /\ r \o q.waiters = Tail(Line(q)) /\ c \in Int
      /\ Line(q) # <<>> /\ Head(q.ready) = Head(Line(q))
  BY QueueFields, LineLeave, Zenon DEF Line
<1>2. journal_queue_resume(q) = journal_queue_wakeup(p)
  BY Zenon DEF journal_queue_resume
<1> HIDE DEF r, c
<1>3. /\ p \in Queue /\ p.ready = r /\ p.waiters = q.waiters
  BY <1>1 DEF Queue
<1> HIDE DEF p
<1>4. Line(p) = Tail(Line(q))
  BY <1>1, <1>3, Zenon DEF Line
<1> QED
  BY <1>1, <1>2, <1>3, <1>4, WakeupLine, Zenon

\* The size of the queue is not part of the line.
LEMMA AppendLine ==
    ASSUME NEW q \in Queue
    PROVE  Line(journal_queue_on_append(q)) = Line(q)
<1> DEFINE n == journal_queue_on_append(q)
<1>1. n.waiters = q.waiters /\ n.ready = q.ready
  BY DEF Queue, journal_queue_on_append
<1> QED
  BY <1>1, Zenon DEF Line

LEMMA ScheduleLine ==
    ASSUME NEW q \in Queue, NEW k \in Int
    PROVE  Line(tx_schedule_queue(q, k)) = Line(q)
<1> DEFINE p == journal_queue_on_complete(q, k)
<1>1. q.size \in Int
  BY Zenon DEF Queue
<1>2. p \in Queue /\ p.waiters = q.waiters /\ p.ready = q.ready
  BY <1>1 DEF Queue, journal_queue_on_complete
<1>3. tx_schedule_queue(q, k) = journal_queue_wakeup(p)
  BY Zenon DEF tx_schedule_queue
<1> HIDE DEF p
<1> QED
  BY <1>2, <1>3, WakeupLine, Zenon DEF Line

-----------------------------------------------------------------------------
(* The order of the writes.                                                *)

\* The line is the waiting fibers in the order of their calls, those that have
\* not called yet come after all others, and nobody overtakes a waiting fiber.
Ordered(line, f) ==
    /\ \A k \in 1..Len(line) : f[line[k]] = "waiting"
    /\ \A e \in Entry : f[e] = "waiting" => \E k \in 1..Len(line) : line[k] = e
    /\ \A j, k \in 1..Len(line) : j < k => line[j] < line[k]
    /\ \A d, e \in Entry : d < e /\ f[d] = "new" => f[e] = "new"
    /\ \A d, e \in Entry : d < e /\ f[d] = "waiting" => f[e] \in {"new", "waiting"}

\* Entries that have been handed to the WAL, or refused.
Sent(f) == {e \in Entry : f[e] \notin {"new", "waiting"}}

\* Fibers that have left the queue do not matter.
LEMMA OrderedKeep ==
    ASSUME NEW line \in Seq(Entry), NEW f, NEW g, Ordered(line, f),
           \A e \in Entry : e \in Sent(f) => e \in Sent(g),
           \A e \in Entry : e \notin Sent(f) => g[e] = f[e]
    PROVE  Ordered(line, g)
<1>1. \A e \in Entry : f[e] \in {"new", "waiting"} => g[e] = f[e]
  BY DEF Sent
<1>2. \A e \in Entry : f[e] \notin {"new", "waiting"} => g[e] \notin {"new", "waiting"}
  BY DEF Sent
<1>3. \A k \in 1..Len(line) : line[k] \in Entry
  OBVIOUS
<1>4. \A k \in 1..Len(line) : g[line[k]] = "waiting"
  BY <1>1, <1>3 DEF Ordered
<1>5. \A e \in Entry : g[e] = "waiting" => \E k \in 1..Len(line) : line[k] = e
  BY <1>1, <1>2 DEF Ordered
<1>6. \A d, e \in Entry : d < e /\ g[d] = "new" => g[e] = "new"
  BY <1>1, <1>2 DEF Ordered
<1>7. \A d, e \in Entry : d < e /\ g[d] = "waiting" => g[e] \in {"new", "waiting"}
  BY <1>1, <1>2 DEF Ordered
<1> QED
  BY <1>4, <1>5, <1>6, <1>7 DEF Ordered

\* The first fiber that has not called yet calls and waits.
LEMMA OrderedJoin ==
    ASSUME NEW line \in Seq(Entry), NEW f \in [Entry -> Location], Ordered(line, f),
           NEW e \in Entry, f[e] = "new", \A d \in 1..(e - 1) : f[d] # "new"
    PROVE  Ordered(Append(line, e), [f EXCEPT ![e] = "waiting"])
<1> DEFINE g == [f EXCEPT ![e] = "waiting"]
           new == Append(line, e)
<1>0. Entry \subseteq Int
  BY JournalAssumption DEF Entry
<1>1. /\ g[e] = "waiting" /\ \A d \in Entry : d # e => g[d] = f[d]
      /\ \A d \in Entry : d < e => f[d] # "new"
  BY JournalAssumption DEF Entry
<1>2. /\ Len(new) = Len(line) + 1 /\ Len(line) \in Nat
      /\ \A k \in 1..Len(line) : new[k] = line[k] /\ line[k] \in Entry
      /\ new[Len(line) + 1] = e
  OBVIOUS
<1> HIDE DEF g, new
<1>3. \A k \in 1..Len(line) : line[k] # e /\ line[k] < e
  <2> SUFFICES ASSUME NEW k \in 1..Len(line) PROVE line[k] # e /\ line[k] < e
    OBVIOUS
  <2>1. f[line[k]] = "waiting" /\ line[k] \in Entry
    BY <1>2 DEF Ordered
  <2>2. ~(e < line[k])
    BY <2>1 DEF Ordered
  <2> QED
    BY <2>1, <2>2, <1>0
<1>4. \A k \in 1..Len(new) : g[new[k]] = "waiting"
  BY <1>1, <1>2, <1>3 DEF Ordered
<1>5. \A d \in Entry : g[d] = "waiting" => \E k \in 1..Len(new) : new[k] = d
  <2> SUFFICES ASSUME NEW d \in Entry, g[d] = "waiting"
               PROVE  \E k \in 1..Len(new) : new[k] = d
    OBVIOUS
  <2>1. CASE d = e
    BY <2>1, <1>2
  <2>2. CASE d # e
    <3>1. PICK k \in 1..Len(line) : line[k] = d
      BY <2>2, <1>1 DEF Ordered
    <3> QED
      BY <3>1, <1>2
  <2> QED
    BY <2>1, <2>2
<1>6. \A j, k \in 1..Len(new) : j < k => new[j] < new[k]
  <2> SUFFICES ASSUME NEW j \in 1..Len(new), NEW k \in 1..Len(new), j < k
               PROVE  new[j] < new[k]
    OBVIOUS
  <2>1. j \in 1..Len(line)
    BY <1>2
  <2>2. CASE k \in 1..Len(line)
    BY <2>1, <2>2, <1>2 DEF Ordered
  <2>3. CASE k = Len(line) + 1
    BY <2>1, <2>3, <1>2, <1>3
  <2> QED
    BY <2>2, <2>3, <1>2
<1>7. \A c, d \in Entry : c < d /\ g[c] = "new" => g[d] = "new"
  <2> SUFFICES ASSUME NEW c \in Entry, NEW d \in Entry, c < d, g[c] = "new"
               PROVE  g[d] = "new"
    OBVIOUS
  <2>1. c # e /\ f[c] = "new"
    BY <1>1
  <2>2. d # e
    BY <2>1, <1>1
  <2> QED
    BY <2>1, <2>2, <1>1 DEF Ordered
<1>8. \A c, d \in Entry : c < d /\ g[c] = "waiting" => g[d] \in {"new", "waiting"}
  <2> SUFFICES ASSUME NEW c \in Entry, NEW d \in Entry, c < d, g[c] = "waiting", d # e
               PROVE  g[d] \in {"new", "waiting"}
    BY <1>1
  <2>1. f[c] \in {"new", "waiting"}
    BY <1>1
  <2> QED
    BY <2>1, <1>1 DEF Ordered
<1> QED
  BY <1>4, <1>5, <1>6, <1>7, <1>8 DEF Ordered, g, new

\* The first fiber that has not called yet calls and finds nobody waiting.
LEMMA OrderedEnter ==
    ASSUME NEW line, line = <<>>, NEW f \in [Entry -> Location], Ordered(line, f),
           NEW e \in Entry, f[e] = "new", \A d \in 1..(e - 1) : f[d] # "new",
           NEW to \in Location \ {"new", "waiting"}
    PROVE  Ordered(line, [f EXCEPT ![e] = to])
<1> DEFINE g == [f EXCEPT ![e] = to]
<1>1. /\ g[e] = to /\ \A d \in Entry : d # e => g[d] = f[d]
      /\ \A d \in Entry : d < e => f[d] # "new"
  BY JournalAssumption DEF Entry
<1>2. 1..Len(line) = {}
  OBVIOUS
<1> HIDE DEF g
<1>3. \A d \in Entry : g[d] # "waiting"
  BY <1>1, <1>2 DEF Ordered
<1>4. \A c, d \in Entry : c < d /\ g[c] = "new" => g[d] = "new"
  <2> SUFFICES ASSUME NEW c \in Entry, NEW d \in Entry, c < d, g[c] = "new"
               PROVE  g[d] = "new"
    OBVIOUS
  <2>1. c # e /\ f[c] = "new"
    BY <1>1
  <2>2. d # e
    BY <2>1, <1>1
  <2> QED
    BY <2>1, <2>2, <1>1 DEF Ordered
<1> QED
  BY <1>2, <1>3, <1>4 DEF Ordered, g

\* The first fiber of the line leaves it.
LEMMA OrderedLeave ==
    ASSUME NEW line \in Seq(Entry), line # <<>>, NEW f \in [Entry -> Location],
           Ordered(line, f), NEW to \in Location \ {"new", "waiting"}
    PROVE  Ordered(Tail(line), [f EXCEPT ![Head(line)] = to])
<1> DEFINE e == Head(line)
           g == [f EXCEPT ![e] = to]
           new == Tail(line)
<1>1. /\ Len(line) \in Nat \ {0} /\ line[1] = e /\ e \in Entry
      /\ Len(new) = Len(line) - 1
      /\ \A k \in 1..Len(new) : new[k] = line[k + 1]
      /\ \A k \in 1..Len(line) : line[k] \in Entry
  OBVIOUS
<1>2. g[e] = to /\ \A d \in Entry : d # e => g[d] = f[d]
  BY <1>1
<1> HIDE DEF g, new, e
<1>0. Entry \subseteq Int
  BY JournalAssumption DEF Entry
<1>3. \A k \in 2..Len(line) : e < line[k] /\ line[k] # e
  BY <1>0, <1>1 DEF Ordered
<1>4. \A k \in 1..Len(new) : k + 1 \in 2..Len(line) /\ k + 1 \in 1..Len(line)
  BY <1>1
<1>5. \A k \in 1..Len(new) : g[new[k]] = "waiting"
  <2> SUFFICES ASSUME NEW k \in 1..Len(new) PROVE g[new[k]] = "waiting"
    OBVIOUS
  <2>1. new[k] = line[k + 1] /\ line[k + 1] \in Entry /\ line[k + 1] # e
    BY <1>1, <1>3, <1>4
  <2>2. f[line[k + 1]] = "waiting"
    BY <1>4 DEF Ordered
  <2> QED
    BY <2>1, <2>2, <1>2
<1>6. \A d \in Entry : g[d] = "waiting" => \E k \in 1..Len(new) : new[k] = d
  <2> SUFFICES ASSUME NEW d \in Entry, g[d] = "waiting"
               PROVE  \E k \in 1..Len(new) : new[k] = d
    OBVIOUS
  <2>1. d # e /\ f[d] = "waiting"
    BY <1>2
  <2>2. PICK k \in 1..Len(line) : line[k] = d
    BY <2>1 DEF Ordered
  <2>3. k # 1
    BY <2>1, <2>2, <1>1
  <2>4. k - 1 \in 1..Len(new) /\ (k - 1) + 1 = k
    BY <2>3, <1>1
  <2>5. new[k - 1] = d
    BY <2>2, <2>4, <1>1
  <2> QED
    BY <2>4, <2>5
<1>7. \A j, k \in 1..Len(new) : j < k => new[j] < new[k]
  <2> SUFFICES ASSUME NEW j \in 1..Len(new), NEW k \in 1..Len(new), j < k
               PROVE  new[j] < new[k]
    OBVIOUS
  <2>1. new[j] = line[j + 1] /\ new[k] = line[k + 1] /\ j + 1 < k + 1
    BY <1>1
  <2>2. line[j + 1] < line[k + 1]
    BY <2>1, <1>4 DEF Ordered
  <2> QED
    BY <2>1, <2>2
<1>8. \A c, d \in Entry : c < d /\ g[c] = "new" => g[d] = "new"
  <2> SUFFICES ASSUME NEW c \in Entry, NEW d \in Entry, c < d, g[c] = "new"
               PROVE  g[d] = "new"
    OBVIOUS
  <2>1. c # e /\ f[c] = "new"
    BY <1>2
  <2>2. f[e] = "waiting"
    BY <1>1 DEF Ordered
  <2>3. f[d] = "new"
    BY <2>1 DEF Ordered
  <2> QED
    BY <2>2, <2>3, <1>2
<1>9. \A c, d \in Entry : c < d /\ g[c] = "waiting" => g[d] \in {"new", "waiting"}
  <2> SUFFICES ASSUME NEW c \in Entry, NEW d \in Entry, c < d, g[c] = "waiting"
               PROVE  g[d] \in {"new", "waiting"}
    OBVIOUS
  <2>1. c # e /\ f[c] = "waiting"
    BY <1>2
  <2>2. PICK k \in 1..Len(line) : line[k] = c
    BY <2>1 DEF Ordered
  <2>3. e < c
    BY <2>1, <2>2, <1>1, <1>3
  <2>4. d # e
    BY <2>3, <1>0, <1>1
  <2> QED
    BY <2>1, <2>4, <1>2 DEF Ordered
<1> QED
  BY <1>5, <1>6, <1>7, <1>8, <1>9 DEF Ordered, g, new, e

-----------------------------------------------------------------------------
(* The entries in the pipes have left the queue.                           *)

\* Messages whose entries have left the queue.
Messages(f) == [type : MsgType, commit : Seq(Sent(f)), rollback : Seq(Sent(f)),
                vclock : Int, wal_size : Int, ok : BOOLEAN]

WalType == [vclock : Int, is_in_rollback : BOOLEAN, checkpoint_vclock : Int,
            checkpoint_wal_size : Int, checkpoint_triggered : BOOLEAN]

GcType == [phase : {"idle", "begin", "engine", "commit"}, pending : BOOLEAN,
           view : SUBSET Entry, waiting : SUBSET Entry, vclock : Int, wal_size : Int]

TxType(f) == [rollback : Seq(Sent(f)), last_entry : 0..MaxEntries, vclock : Int]

OrderInv == fiber \in [Entry -> Location] /\ Ordered(Line(queue), fiber)

PipeInv ==
    /\ input \in Seq(Messages(fiber)) /\ wal_pipe \in Seq(Messages(fiber))
    /\ tx_pipe \in Seq(Messages(fiber))
    /\ tx \in TxType(fiber) /\ wal \in WalType /\ gc \in GcType

\* The inductive invariant of the queue.
JournalInv == QueueInv /\ OrderInv /\ PipeInv

\* A fiber that leaves the queue does not come back.
LEMMA SentGrows ==
    ASSUME NEW f, NEW g, Sent(f) \subseteq Sent(g)
    PROVE  /\ Seq(Sent(f)) \subseteq Seq(Sent(g))
           /\ Seq(Messages(f)) \subseteq Seq(Messages(g))
           /\ TxType(f) \subseteq TxType(g)
<1>1. Seq(Sent(f)) \subseteq Seq(Sent(g))
  BY SeqMonotonic, Zenon
<1> DEFINE s == Seq(Sent(f))
           t == Seq(Sent(g))
<1>2. Messages(f) = [type : MsgType, commit : s, rollback : s,
                     vclock : Int, wal_size : Int, ok : BOOLEAN]
  BY Zenon DEF Messages
<1>3. Messages(g) = [type : MsgType, commit : t, rollback : t,
                     vclock : Int, wal_size : Int, ok : BOOLEAN]
  BY Zenon DEF Messages
<1>4. /\ TxType(f) = [rollback : s, last_entry : 0..MaxEntries, vclock : Int]
      /\ TxType(g) = [rollback : t, last_entry : 0..MaxEntries, vclock : Int]
  BY Zenon DEF TxType
<1>5. s \subseteq t
  BY <1>1
<1> HIDE DEF s, t
<1>6. Messages(f) \subseteq Messages(g)
  BY <1>2, <1>3, <1>5
<1>7. TxType(f) \subseteq TxType(g)
  BY <1>4, <1>5
<1> QED
  BY <1>1, <1>6, <1>7, SeqMonotonic, Zenon

\* A message whose entries are in s.
LEMMA MsgRecord ==
    ASSUME NEW s, NEW type \in MsgType, NEW c \in s, NEW r \in s, NEW vclock \in Int,
           NEW wal_size \in Int, NEW ok \in BOOLEAN
    PROVE  [type |-> type, commit |-> c, rollback |-> r, vclock |-> vclock,
            wal_size |-> wal_size, ok |-> ok]
            \in [type : MsgType, commit : s, rollback : s, vclock : Int, wal_size : Int,
                 ok : BOOLEAN]
  OBVIOUS

LEMMA MsgFields ==
    ASSUME NEW s, NEW c \in s, NEW vclock \in Int, NEW wal_size \in Int, NEW ok \in BOOLEAN,
           NEW m \in [type : MsgType, commit : s, rollback : s, vclock : Int,
                      wal_size : Int, ok : BOOLEAN]
    PROVE  /\ [m EXCEPT !.commit = c]
                \in [type : MsgType, commit : s, rollback : s, vclock : Int,
                     wal_size : Int, ok : BOOLEAN]
           /\ [m EXCEPT !.vclock = vclock, !.wal_size = wal_size]
                \in [type : MsgType, commit : s, rollback : s, vclock : Int,
                     wal_size : Int, ok : BOOLEAN]
           /\ [m EXCEPT !.ok = ok, !.vclock = vclock, !.wal_size = wal_size]
                \in [type : MsgType, commit : s, rollback : s, vclock : Int,
                     wal_size : Int, ok : BOOLEAN]
  OBVIOUS

LEMMA ExceptFirst ==
    ASSUME NEW S, NEW p \in Seq(S), p # <<>>, NEW m \in S
    PROVE  [p EXCEPT ![1] = m] \in Seq(S)
<1>1. 1 \in 1..Len(p)
  OBVIOUS
<1> QED
  BY <1>1, ExceptSeq, Zenon

\* The messages that tx and WAL put into the pipes.
LEMMA NewMsgType ==
    ASSUME NEW f, NEW type \in MsgType, NEW vclock \in Int, NEW wal_size \in Int,
           NEW ok \in BOOLEAN
    PROVE  /\ NewMsg(type) \in Messages(f)
           /\ [NewMsg(type) EXCEPT !.vclock = vclock, !.wal_size = wal_size] \in Messages(f)
           /\ [NewMsg(type) EXCEPT !.ok = ok, !.vclock = vclock, !.wal_size = wal_size]
                \in Messages(f)
<1>1. <<>> \in Seq(Sent(f)) /\ 0 \in Int /\ TRUE \in BOOLEAN
  OBVIOUS
<1>2. NewMsg(type) \in Messages(f)
  BY <1>1, MsgRecord, Zenon DEF Messages, NewMsg
<1> QED
  BY <1>1, <1>2, MsgFields, Zenon DEF Messages

\* wal_write_async puts an entry into a batch.
LEMMA BatchType ==
    ASSUME NEW f, NEW e \in Sent(f), NEW p \in Seq(Messages(f))
    PROVE  /\ p # <<>> => [p EXCEPT ![1] = [p[1] EXCEPT !.commit = Append(p[1].commit, e)]]
                            \in Seq(Messages(f))
           /\ Append(p, [NewMsg("batch") EXCEPT !.commit = <<e>>]) \in Seq(Messages(f))
<1>1. <<e>> \in Seq(Sent(f)) /\ 0 \in Int /\ TRUE \in BOOLEAN
  OBVIOUS
<1>2. "batch" \in MsgType
  BY Zenon DEF MsgType
<1>3. NewMsg("batch") \in Messages(f)
  BY <1>1, <1>2, NewMsgType, Zenon
<1>4. [NewMsg("batch") EXCEPT !.commit = <<e>>] \in Messages(f)
  BY <1>1, <1>3, MsgFields, Zenon DEF Messages
<1>5. Append(p, [NewMsg("batch") EXCEPT !.commit = <<e>>]) \in Seq(Messages(f))
  BY <1>4, AppendProperties, Zenon
<1>6. ASSUME p # <<>>
      PROVE  [p EXCEPT ![1] = [p[1] EXCEPT !.commit = Append(p[1].commit, e)]]
                \in Seq(Messages(f))
  <2>1. p[1] \in Messages(f)
    BY <1>6
  <2> DEFINE s == Seq(Sent(f))
             c == Append(p[1].commit, e)
             m == [p[1] EXCEPT !.commit = c]
  <2>2. p[1].commit \in s
    BY <2>1, Zenon DEF Messages
  <2>3. c \in s
    BY <2>2, AppendProperties, Zenon
  <2>4. m \in Messages(f)
    BY <1>1, <2>1, <2>3, MsgFields, Zenon DEF Messages
  <2> HIDE DEF m
  <2>5. [p EXCEPT ![1] = m] \in Seq(Messages(f))
    BY <1>6, <2>4, ExceptFirst, Zenon
  <2> QED
    BY <2>5, Zenon DEF m
<1> QED
  BY <1>5, <1>6, Zenon

\* A write that ends in wal_write_async, with the queue in state q.
LEMMA WriteStep ==
    ASSUME JournalInv, NEW q \in Queue, Counted(q), Woken(q), NEW e \in Entry,
           wal_write_async(q, e), UNCHANGED <<wal_pipe, tx_pipe, wal, gc>>
    PROVE  /\ QueueInv' /\ PipeInv' /\ Line(queue') = Line(q)
           /\ fiber' \in [Entry -> Location]
           /\ \E to \in Location \ {"new", "waiting"} : fiber' = [fiber EXCEPT ![e] = to]
<1>1. queue' = journal_queue_on_append(q)
  BY Zenon DEF wal_write_async
<1>2. QueueInv' /\ Line(queue') = Line(q)
  BY <1>1, AppendSize, AppendLine, Zenon DEF QueueInv
<1>3. PICK to \in {"sent", "refused"} : fiber' = [fiber EXCEPT ![e] = to]
  BY Zenon DEF wal_write_async
<1>4. to \in Location \ {"new", "waiting"}
  BY <1>3 DEF Location
<1>5. fiber \in [Entry -> Location]
  BY Zenon DEF JournalInv, OrderInv
<1>6. fiber' \in [Entry -> Location]
  BY <1>3, <1>4, <1>5
<1>7. e \in Sent(fiber') /\ Sent(fiber) \subseteq Sent(fiber')
  BY <1>3, <1>4, <1>5 DEF Sent
<1>8. /\ input \in Seq(Messages(fiber')) /\ wal_pipe \in Seq(Messages(fiber'))
      /\ tx_pipe \in Seq(Messages(fiber')) /\ tx \in TxType(fiber')
  BY <1>7, SentGrows, Zenon DEF JournalInv, PipeInv
<1>9. input' \in Seq(Messages(fiber'))
  <2> DEFINE joined == [input EXCEPT ![1] = [input[1] EXCEPT !.commit = Append(input[1].commit, e)]]
             added == Append(input, [NewMsg("batch") EXCEPT !.commit = <<e>>])
  <2>1. (input # <<>> => joined \in Seq(Messages(fiber'))) /\ added \in Seq(Messages(fiber'))
    BY <1>7, <1>8, BatchType
  <2>2. input' = input \/ (input # <<>> /\ input' = joined) \/ input' = added
    BY DEF wal_write_async
  <2> QED
    BY <2>1, <2>2, <1>8, Zenon
<1>10. tx' \in TxType(fiber')
  <2>1. tx' = tx \/ tx' = [tx EXCEPT !.last_entry = e]
    BY Zenon DEF wal_write_async
  <2>2. e \in 0..MaxEntries
    BY JournalAssumption DEF Entry
  <2> QED
    BY <1>8, <2>1, <2>2 DEF TxType
<1>11. PipeInv'
  BY <1>8, <1>9, <1>10, Zenon DEF JournalInv, PipeInv
<1> QED
  BY <1>2, <1>3, <1>4, <1>6, <1>11, Zenon

\* A write that waits, with the queue in state q.
LEMMA WaitStep ==
    ASSUME JournalInv, NEW q \in Queue, Counted(q), Woken(q), NEW e \in Entry,
           IsNext(e), Wait(q, e), Line(q) = Append(Line(queue), e),
           UNCHANGED <<wal_pipe, tx_pipe, wal, gc>>
    PROVE  JournalInv'
<1>1. queue' = q /\ fiber' = [fiber EXCEPT ![e] = "waiting"] /\ input' = input /\ tx' = tx
  BY Zenon DEF Wait
<1>2. QueueInv'
  BY <1>1, Zenon DEF QueueInv
<1>3. fiber \in [Entry -> Location] /\ Ordered(Line(queue), fiber)
  BY Zenon DEF JournalInv, OrderInv
<1>4. fiber' \in [Entry -> Location] /\ Sent(fiber) \subseteq Sent(fiber')
  BY <1>1, <1>3 DEF Sent, Location, IsNext
<1>5. Line(queue) \in Seq(Entry)
  BY QueueFields, ListConcat, Zenon DEF JournalInv, QueueInv, Line
<1>6. fiber[e] = "new" /\ \A d \in 1..(e - 1) : fiber[d] # "new"
  BY Zenon DEF IsNext
<1>7. Ordered(Line(queue'), fiber')
  BY <1>1, <1>3, <1>5, <1>6, OrderedJoin, Zenon
<1>8. PipeInv'
  BY <1>1, <1>4, SentGrows, Zenon DEF JournalInv, PipeInv
<1> QED
  BY <1>2, <1>4, <1>7, <1>8, Zenon DEF JournalInv, OrderInv

\* A fiber that finds nobody in the line, and is the first to call.
LEMMA EnterStep ==
    ASSUME JournalInv, NEW e \in Entry, IsNext(e), ~journal_queue_has_waiters(queue),
           wal_write_async(queue, e), UNCHANGED <<wal_pipe, tx_pipe, wal, gc>>
    PROVE  JournalInv'
<1>1. queue \in Queue /\ Counted(queue) /\ Woken(queue)
  BY Zenon DEF JournalInv, QueueInv
<1>2. /\ QueueInv' /\ PipeInv' /\ Line(queue') = Line(queue)
      /\ fiber' \in [Entry -> Location]
      /\ \E to \in Location \ {"new", "waiting"} : fiber' = [fiber EXCEPT ![e] = to]
  BY <1>1, WriteStep, Zenon
<1>3. Line(queue) = <<>>
  <2>1. \A s, t \in Seq(Entry) : Len(s) + Len(t) = 0 => t \o s = <<>>
    BY EmptySeq
  <2>2. queue.waiters \in Seq(Entry) /\ queue.ready \in Seq(Entry)
    BY <1>1, QueueFields, Zenon
  <2>3. Len(queue.waiters) + Len(queue.ready) = 0
    BY <1>1, Zenon DEF Counted, journal_queue_has_waiters
  <2> QED
    BY <2>1, <2>2, <2>3, Zenon DEF Line
<1>4. fiber[e] = "new" /\ \A d \in 1..(e - 1) : fiber[d] # "new"
  BY Zenon DEF IsNext
<1>5. fiber \in [Entry -> Location] /\ Ordered(Line(queue), fiber)
  BY Zenon DEF JournalInv, OrderInv
<1>6. Ordered(Line(queue), fiber')
  <2>1. PICK to \in Location \ {"new", "waiting"} : fiber' = [fiber EXCEPT ![e] = to]
    BY <1>2, Zenon
  <2>2. Ordered(Line(queue), [fiber EXCEPT ![e] = to])
    BY <1>3, <1>4, <1>5, OrderedEnter
  <2> QED
    BY <2>1, <2>2, Zenon
<1> QED
  BY <1>2, <1>6, Zenon DEF JournalInv, OrderInv

LEMMA TryAsyncStep ==
    ASSUME JournalInv, NEW e \in Entry, journal_write_try_async(e)
    PROVE  JournalInv'
<1>1. queue \in Queue /\ Counted(queue) /\ Woken(queue)
  BY Zenon DEF JournalInv, QueueInv
<1>2. IsNext(e) /\ UNCHANGED <<wal_pipe, tx_pipe, wal, gc>>
  BY Zenon DEF journal_write_try_async
<1>3. CASE ~journal_queue_is_full(queue) /\ ~journal_queue_has_waiters(queue)
  <2>1. wal_write_async(queue, e)
    BY <1>3, Zenon DEF journal_write_try_async
  <2> QED
    BY <2>1, <1>2, <1>3, EnterStep, Zenon
<1>4. CASE journal_queue_is_full(queue) \/ journal_queue_has_waiters(queue)
  <2> DEFINE q == journal_queue_wait(queue, e)
  <2>1. Wait(q, e)
    BY <1>4, Zenon DEF journal_write_try_async
  <2>2. q \in Queue /\ Counted(q) /\ Woken(q)
    BY <1>1, <1>4, WaitInList, Zenon
  <2>3. Line(q) = Append(Line(queue), e)
    BY <1>1, WaitLine, Zenon
  <2> HIDE DEF q
  <2> QED
    BY <1>2, <2>1, <2>2, <2>3, WaitStep, Zenon
<1> QED
  BY <1>3, <1>4, Zenon

LEMMA WriteSyncStep ==
    ASSUME JournalInv, NEW e \in Entry, journal_write(e)
    PROVE  JournalInv'
<1>1. queue \in Queue /\ Counted(queue) /\ Woken(queue)
  BY Zenon DEF JournalInv, QueueInv
<1>2. IsNext(e) /\ UNCHANGED <<wal_pipe, tx_pipe, wal, gc>>
  BY Zenon DEF journal_write
<1>3. CASE ~journal_queue_has_waiters(queue)
  <2>1. wal_write_async(queue, e)
    BY <1>3, Zenon DEF journal_write
  <2> QED
    BY <2>1, <1>2, <1>3, EnterStep, Zenon
<1>4. CASE journal_queue_has_waiters(queue)
  <2> DEFINE q == journal_queue_flush(queue, e)
  <2>1. Wait(q, e)
    BY <1>4, Zenon DEF journal_write
  <2>2. q \in Queue /\ Counted(q) /\ Woken(q)
    BY <1>1, <1>4, FlushList, Zenon
  <2>3. Line(q) = Append(Line(queue), e)
    BY <1>1, FlushLine, Zenon
  <2> HIDE DEF q
  <2> QED
    BY <1>2, <2>1, <2>2, <2>3, WaitStep, Zenon
<1> QED
  BY <1>3, <1>4, Zenon

LEMMA ResumeStep ==
    ASSUME JournalInv, Resume
    PROVE  JournalInv'
<1>1. queue \in Queue /\ Counted(queue) /\ Woken(queue) /\ queue.ready # <<>>
  BY Zenon DEF JournalInv, QueueInv, Resume
<1> DEFINE q == journal_queue_resume(queue)
           e == Head(queue.ready)
<1>2. q \in Queue /\ Counted(q) /\ Woken(q)
  BY <1>1, ResumeFirst, Zenon
<1>3. Line(q) = Tail(Line(queue)) /\ Line(queue) # <<>> /\ e = Head(Line(queue))
  BY <1>1, ResumeLine, Zenon
<1>4. Line(queue) \in Seq(Entry) /\ e \in Entry
  BY <1>1, QueueFields, ListConcat, LineLeave, Zenon DEF Line
<1>5. wal_write_async(q, e) /\ UNCHANGED <<wal_pipe, tx_pipe, wal, gc>>
  BY Zenon DEF Resume
<1> HIDE DEF q, e
<1>6. /\ QueueInv' /\ PipeInv' /\ Line(queue') = Line(q)
      /\ fiber' \in [Entry -> Location]
      /\ \E to \in Location \ {"new", "waiting"} : fiber' = [fiber EXCEPT ![e] = to]
  BY <1>2, <1>4, <1>5, WriteStep, Zenon
<1>7. fiber \in [Entry -> Location] /\ Ordered(Line(queue), fiber)
  BY Zenon DEF JournalInv, OrderInv
<1>8. Ordered(Line(queue'), fiber')
  <2>1. PICK to \in Location \ {"new", "waiting"} : fiber' = [fiber EXCEPT ![e] = to]
    BY <1>6, Zenon
  <2>2. Ordered(Tail(Line(queue)), [fiber EXCEPT ![Head(Line(queue))] = to])
    BY <1>3, <1>4, <1>7, OrderedLeave, Zenon
  <2> QED
    BY <1>3, <1>6, <2>1, <2>2, Zenon
<1> QED
  BY <1>6, <1>8, Zenon DEF JournalInv, OrderInv

LEMMA SetMaxSizeStep ==
    ASSUME JournalInv, NEW size \in Int, journal_queue_set_max_size(size)
    PROVE  JournalInv'
<1> DEFINE q == [queue EXCEPT !.max_size = size]
<1>1. queue \in Queue /\ Counted(queue)
  BY Zenon DEF JournalInv, QueueInv
<1>2. /\ q \in Queue /\ q.waiters = queue.waiters /\ q.ready = queue.ready
      /\ q.waiter_count = queue.waiter_count
  BY <1>1 DEF Queue
<1>3. queue' = journal_queue_wakeup(q)
  BY Zenon DEF journal_queue_set_max_size
<1> HIDE DEF q
<1>4. Counted(q) /\ Line(q) = Line(queue)
  BY <1>1, <1>2, Zenon DEF Counted, Line
<1>5. QueueInv' /\ Line(queue') = Line(queue)
  BY <1>2, <1>3, <1>4, Wakeup, WakeupLine, Zenon DEF QueueInv
<1> QED
  BY <1>5, Zenon DEF journal_queue_set_max_size, JournalInv, OrderInv, PipeInv

\* The other steps leave the queue and the fibers alone, but for tx_complete_batch.
LEMMA Steady ==
    ASSUME JournalInv, UNCHANGED <<queue, fiber>>, PipeInv'
    PROVE  JournalInv'
  BY Zenon DEF JournalInv, QueueInv, OrderInv

LEMMA FlushStep ==
    ASSUME JournalInv, TxFlush
    PROVE  JournalInv'
<1>1. /\ input \in Seq(Messages(fiber)) /\ wal_pipe \in Seq(Messages(fiber))
  BY Zenon DEF JournalInv, PipeInv
<1>2. <<>> \in Seq(Messages(fiber)) /\ wal_pipe \o input \in Seq(Messages(fiber))
  BY <1>1, ConcatProperties, EmptySeq, Zenon
<1>3. PipeInv'
  BY <1>2, Zenon DEF TxFlush, JournalInv, PipeInv
<1> QED
  BY <1>3, Steady, Zenon DEF TxFlush

\* What an answer of the WAL thread carries.
LEMMA ReplyType ==
    ASSUME NEW f, NEW m \in Messages(f), wal \in WalType, NEW n \in 0..Len(m.commit)
    PROVE  WalReply(m, n) \in Messages(f)
<1> DEFINE s == Seq(Sent(f))
           c == SubSeq(m.commit, 1, n)
           r == SubSeq(m.commit, n + 1, Len(m.commit))
           v == wal.vclock + n
<1>1. m.commit \in s
  BY Zenon DEF Messages
<1>2. \A t \in s : \A k \in 0..Len(t) : /\ SubSeq(t, 1, k) \in s
                                       /\ SubSeq(t, k + 1, Len(t)) \in s /\ k \in Int
  OBVIOUS
<1>3. c \in s /\ r \in s /\ n \in Int
  BY <1>1, <1>2, Zenon
<1>4. wal.vclock \in Int
  BY Zenon DEF WalType
<1>5. v \in Int
  BY <1>3, <1>4
<1>6. WalReply(m, n) = [m EXCEPT !.vclock = v, !.commit = c, !.rollback = r]
  BY Zenon DEF WalReply
<1>7. m \in [type : MsgType, commit : s, rollback : s, vclock : Int, wal_size : Int,
             ok : BOOLEAN]
  BY Zenon DEF Messages
<1> HIDE DEF s, c, r, v
<1>8. [m EXCEPT !.vclock = v, !.commit = c, !.rollback = r]
        \in [type : MsgType, commit : s, rollback : s, vclock : Int, wal_size : Int,
             ok : BOOLEAN]
  BY <1>3, <1>5, <1>7
<1> QED
  BY <1>6, <1>8, Zenon DEF Messages, s

\* A message leaves a pipe.
LEMMA Taken ==
    ASSUME NEW S, NEW p \in Seq(S), p # <<>>
    PROVE  Head(p) \in S /\ Tail(p) \in Seq(S)
  BY HeadTailProperties, Zenon

\* A step of the WAL thread that takes a message and sends answers.
LEMMA WalStep ==
    ASSUME JournalInv, wal_pipe # <<>>, wal_pipe' = Tail(wal_pipe),
           tx_pipe' \in Seq(Messages(fiber)), wal' \in WalType,
           UNCHANGED <<queue, fiber, input, tx, gc>>
    PROVE  JournalInv'
<1>1. Tail(wal_pipe) \in Seq(Messages(fiber))
  BY Taken, Zenon DEF JournalInv, PipeInv
<1>2. PipeInv'
  BY <1>1, Zenon DEF JournalInv, PipeInv
<1> QED
  BY <1>2, Steady, Zenon

LEMMA WriteToDiskStep ==
    ASSUME JournalInv, wal_write_to_disk
    PROVE  JournalInv'
<1>1. /\ wal_pipe # <<>> /\ wal_pipe' = Tail(wal_pipe)
      /\ UNCHANGED <<queue, fiber, input, tx, gc>>
  BY Zenon DEF wal_write_to_disk
<1>2. /\ tx_pipe \in Seq(Messages(fiber)) /\ wal_pipe \in Seq(Messages(fiber))
      /\ wal \in WalType
  BY Zenon DEF JournalInv, PipeInv
<1> DEFINE batch == Head(wal_pipe)
<1>3. batch \in Messages(fiber)
  BY <1>1, <1>2, Taken, Zenon
<1> DEFINE size(n) == wal.checkpoint_wal_size + n
           notify(n) == /\ n = Len(batch.commit) /\ ~wal.checkpoint_triggered
                        /\ size(n) > budget.threshold
<1>4. PICK n \in 0..Len(batch.commit) :
        /\ wal' = [wal EXCEPT !.vclock = @ + n, !.checkpoint_wal_size = size(n),
                              !.checkpoint_triggered = @ \/ notify(n),
                              !.is_in_rollback = @ \/ ~(n = Len(batch.commit))]
        /\ tx_pipe' = tx_pipe \o (IF notify(n) THEN <<NewMsg("notify")>> ELSE <<>>)
                              \o <<WalReply(batch, n)>>
  BY Zenon DEF wal_write_to_disk
<1>5. wal' \in WalType
  <2>1. n \in Int
    BY <1>4
  <2>2. wal.vclock + n \in Int /\ size(n) \in Int
    BY <1>2, <2>1 DEF WalType
  <2> DEFINE v == wal.vclock + n
             w == size(n)
             t == wal.checkpoint_triggered \/ notify(n)
             r == wal.is_in_rollback \/ ~(n = Len(batch.commit))
  <2>3. wal' = [wal EXCEPT !.vclock = v, !.checkpoint_wal_size = w,
                           !.checkpoint_triggered = t, !.is_in_rollback = r]
    BY <1>4, Zenon
  <2>4. v \in Int /\ w \in Int /\ t \in BOOLEAN /\ r \in BOOLEAN
    BY <2>2, Zenon
  <2> HIDE DEF v, w, t, r
  <2> QED
    BY <1>2, <2>3, <2>4 DEF WalType
<1>6. tx_pipe' \in Seq(Messages(fiber))
  <2>1. WalReply(batch, n) \in Messages(fiber)
    BY <1>2, <1>3, <1>4, ReplyType, Zenon
  <2>2. NewMsg("notify") \in Messages(fiber)
    <3>1. "notify" \in MsgType /\ 0 \in Int /\ TRUE \in BOOLEAN
      BY DEF MsgType
    <3> QED
      BY <3>1, NewMsgType, Zenon
  <2> DEFINE m == WalReply(batch, n)
             k == NewMsg("notify")
             extra == IF notify(n) THEN <<k>> ELSE <<>>
  <2>3. \A S : \A x \in S : <<x>> \in Seq(S) /\ <<>> \in Seq(S)
    OBVIOUS
  <2>4. <<m>> \in Seq(Messages(fiber)) /\ extra \in Seq(Messages(fiber))
    BY <2>1, <2>2, <2>3, Zenon
  <2>5. tx_pipe' = tx_pipe \o extra \o <<m>>
    BY <1>4, Zenon
  <2> HIDE DEF m, extra
  <2>6. tx_pipe \o extra \in Seq(Messages(fiber))
    BY <1>2, <2>4, ConcatProperties, Zenon
  <2> QED
    BY <2>4, <2>5, <2>6, ConcatProperties, Zenon
<1> QED
  BY <1>1, <1>5, <1>6, WalStep, Zenon

LEMMA CompleteRollbackStep ==
    ASSUME JournalInv, wal_complete_rollback
    PROVE  JournalInv'
<1>1. wal' \in WalType
  BY DEF JournalInv, PipeInv, WalType, wal_complete_rollback
<1> QED
  BY <1>1, WalStep, Zenon DEF wal_complete_rollback, JournalInv, PipeInv

LEMMA WalAnswerStep ==
    ASSUME JournalInv, NEW type \in MsgType, NEW ok \in BOOLEAN, WalAnswer(type, ok)
    PROVE  JournalInv'
<1> DEFINE m == [NewMsg(type) EXCEPT !.ok = ok, !.vclock = wal.vclock,
                                     !.wal_size = wal.checkpoint_wal_size]
<1>1. wal \in WalType /\ tx_pipe \in Seq(Messages(fiber))
  BY Zenon DEF JournalInv, PipeInv
<1>2. wal.vclock \in Int /\ wal.checkpoint_wal_size \in Int
  BY <1>1, Zenon DEF WalType
<1>3. m \in Messages(fiber)
  BY <1>2, NewMsgType, Zenon
<1>4. tx_pipe' = Append(tx_pipe, m)
  BY Zenon DEF WalAnswer
<1> HIDE DEF m
<1>5. tx_pipe' \in Seq(Messages(fiber))
  BY <1>1, <1>3, <1>4, AppendProperties, Zenon
<1> QED
  BY <1>1, <1>5, WalStep, Zenon DEF WalAnswer, txVars

LEMMA CommitCheckpointStep ==
    ASSUME JournalInv, wal_commit_checkpoint_f
    PROVE  JournalInv'
<1> DEFINE m == Head(wal_pipe)
           w == wal.checkpoint_wal_size - m.wal_size
<1>1. /\ wal_pipe # <<>> /\ wal_pipe' = Tail(wal_pipe) /\ tx_pipe' = Append(tx_pipe, m)
      /\ wal' = [wal EXCEPT !.checkpoint_vclock = m.vclock, !.checkpoint_wal_size = w,
                            !.checkpoint_triggered = FALSE]
      /\ UNCHANGED <<queue, fiber, input, tx, gc>>
  BY Zenon DEF wal_commit_checkpoint_f, WalCommitCheckpoint, txVars
<1>2. /\ wal \in WalType /\ tx_pipe \in Seq(Messages(fiber))
      /\ wal_pipe \in Seq(Messages(fiber))
  BY Zenon DEF JournalInv, PipeInv
<1>3. m \in Messages(fiber)
  BY <1>1, <1>2, Taken, Zenon
<1>4. m.vclock \in Int /\ m.wal_size \in Int /\ wal.checkpoint_wal_size \in Int
  BY <1>2, <1>3, Zenon DEF Messages, WalType
<1>5. w \in Int
  BY <1>4
<1> HIDE DEF m, w
<1>6. wal' \in WalType
  BY <1>1, <1>2, <1>4, <1>5 DEF WalType
<1>7. tx_pipe' \in Seq(Messages(fiber))
  BY <1>1, <1>2, <1>3, AppendProperties, Zenon
<1> QED
  BY <1>1, <1>6, <1>7, WalStep, Zenon

\* Only entries that have left the queue are completed.
LEMMA CompleteBatchStep ==
    ASSUME JournalInv, tx_complete_batch
    PROVE  JournalInv'
<1> DEFINE batch == Head(tx_pipe)
           rollback == tx.rollback \o batch.rollback
           is_over == batch.rollback # <<>> /\ IsRollbackComplete(rollback)
           rolled == IF is_over THEN rollback ELSE <<>>
           q == IF is_over THEN tx_schedule_queue(queue, Len(rollback)) ELSE queue
           left == IF is_over THEN <<>> ELSE rollback
<1>1. /\ tx_pipe # <<>> /\ tx_pipe' = Tail(tx_pipe)
      /\ tx' = [tx EXCEPT !.rollback = left, !.vclock = batch.vclock]
      /\ input' = IF is_over THEN Append(input, NewMsg("rollback")) ELSE input
      /\ queue' = tx_schedule_queue(q, Len(batch.commit))
      /\ fiber' = [e \in Entry |->
            CASE Contains(batch.commit, e) -> "committed"
              [] Contains(rolled, e) -> "failed"
              [] OTHER -> fiber[e]]
      /\ UNCHANGED <<wal_pipe, wal, gc>>
  BY Zenon DEF tx_complete_batch
<1>2. /\ input \in Seq(Messages(fiber)) /\ wal_pipe \in Seq(Messages(fiber))
      /\ tx_pipe \in Seq(Messages(fiber)) /\ tx \in TxType(fiber) /\ wal \in WalType
      /\ gc \in GcType /\ queue \in Queue /\ Counted(queue) /\ Woken(queue)
      /\ fiber \in [Entry -> Location] /\ Ordered(Line(queue), fiber)
  BY Zenon DEF JournalInv, PipeInv, QueueInv, OrderInv
<1>3. batch \in Messages(fiber) /\ Tail(tx_pipe) \in Seq(Messages(fiber))
  BY <1>1, <1>2, Taken, Zenon
<1>4. /\ batch.commit \in Seq(Sent(fiber)) /\ batch.rollback \in Seq(Sent(fiber))
      /\ batch.vclock \in Int /\ tx.rollback \in Seq(Sent(fiber))
  BY <1>2, <1>3, Zenon DEF Messages, TxType
<1>5. /\ rollback \in Seq(Sent(fiber)) /\ <<>> \in Seq(Sent(fiber))
  BY <1>4, ConcatProperties, EmptySeq, Zenon
<1>6. rolled \in Seq(Sent(fiber)) /\ left \in Seq(Sent(fiber))
  BY <1>5, Zenon
<1>7. Len(batch.commit) \in Int /\ Len(rollback) \in Int
  <2>1. \A s \in Seq(Sent(fiber)) : Len(s) \in Int
    OBVIOUS
  <2> QED
    BY <1>4, <1>5, <2>1, Zenon
<1>8. q \in Queue /\ Counted(q) /\ Line(q) = Line(queue)
  BY <1>2, <1>7, ScheduleQueue, ScheduleLine, Zenon
<1> DEFINE done == batch.commit
<1> HIDE DEF q, rolled, left, is_over, rollback, batch, done
<1>9. QueueInv' /\ Line(queue') = Line(queue)
  BY <1>1, <1>7, <1>8, ScheduleQueue, ScheduleLine, Zenon DEF QueueInv
<1>10. /\ \A e \in Entry : Contains(done, e) => e \in Sent(fiber)
       /\ \A e \in Entry : Contains(rolled, e) => e \in Sent(fiber)
  BY <1>4, <1>6, ElementOfSeq, Zenon DEF Contains, done
<1>11. \A e \in Entry : \/ fiber'[e] = fiber[e]
                        \/ e \in Sent(fiber) /\ fiber'[e] \in {"committed", "failed"}
  BY <1>1, <1>10 DEF done
<1>12. fiber' \in [Entry -> Location]
  <2>1. \A e \in Entry : fiber'[e] \in Location
    BY <1>2, <1>11 DEF Location
  <2> DEFINE to(e) == CASE Contains(batch.commit, e) -> "committed"
                        [] Contains(rolled, e) -> "failed"
                        [] OTHER -> fiber[e]
  <2>2. fiber' = [e \in Entry |-> to(e)]
    BY <1>1, Zenon
  <2> HIDE DEF to
  <2>3. \A e \in Entry : to(e) \in Location
    BY <2>1, <2>2
  <2> QED
    BY <2>2, <2>3
<1>13. /\ \A e \in Entry : e \in Sent(fiber) => e \in Sent(fiber')
       /\ \A e \in Entry : e \notin Sent(fiber) => fiber'[e] = fiber[e]
  BY <1>11 DEF Sent
<1>14. Line(queue) \in Seq(Entry)
  BY <1>2, QueueFields, ListConcat, Zenon DEF Line
<1>15. OrderInv'
  BY <1>2, <1>9, <1>12, <1>13, <1>14, OrderedKeep, Zenon DEF OrderInv
<1>16. Sent(fiber) \subseteq Sent(fiber')
  BY <1>13, Zenon DEF Sent
<1>17. NewMsg("rollback") \in Messages(fiber)
  <2>1. "rollback" \in MsgType /\ 0 \in Int /\ TRUE \in BOOLEAN
    BY DEF MsgType
  <2> QED
    BY <2>1, NewMsgType, Zenon
<1>18. input' \in Seq(Messages(fiber))
  BY <1>1, <1>2, <1>17, AppendProperties, Zenon
<1>19. tx' \in TxType(fiber)
  <2> DEFINE s == Seq(Sent(fiber))
  <2>1. tx \in [rollback : s, last_entry : 0..MaxEntries, vclock : Int]
    BY <1>2, Zenon DEF TxType
  <2>2. left \in s
    BY <1>6
  <2> HIDE DEF s
  <2>3. tx' \in [rollback : s, last_entry : 0..MaxEntries, vclock : Int]
    BY <1>1, <1>4, <2>1, <2>2
  <2> QED
    BY <2>3, Zenon DEF TxType, s
<1>20. PipeInv'
  <2>1. /\ wal_pipe' = wal_pipe /\ wal' = wal /\ gc' = gc
        /\ tx_pipe' \in Seq(Messages(fiber))
    BY <1>1, <1>3, Zenon
  <2>2. /\ Seq(Messages(fiber)) \subseteq Seq(Messages(fiber'))
        /\ TxType(fiber) \subseteq TxType(fiber')
    BY <1>16, SentGrows, Zenon
  <2>3. /\ input' \in Seq(Messages(fiber')) /\ wal_pipe' \in Seq(Messages(fiber'))
        /\ tx_pipe' \in Seq(Messages(fiber')) /\ tx' \in TxType(fiber')
    BY <1>2, <1>18, <1>19, <2>1, <2>2, Zenon
  <2> QED
    BY <1>2, <2>1, <2>3, Zenon DEF PipeInv
<1> QED
  BY <1>9, <1>15, <1>20, Zenon DEF JournalInv

\* A step of tx that takes an answer and does nothing to the queue.
LEMMA TakeStep ==
    ASSUME JournalInv, tx_pipe # <<>>, tx_pipe' = Tail(tx_pipe), gc' \in GcType,
           UNCHANGED <<queue, fiber, input, wal_pipe, tx, wal>>
    PROVE  JournalInv'
<1>1. Tail(tx_pipe) \in Seq(Messages(fiber))
  BY Taken, Zenon DEF JournalInv, PipeInv
<1>2. PipeInv'
  BY <1>1, Zenon DEF JournalInv, PipeInv
<1> QED
  BY <1>2, Steady, Zenon

LEMMA AnswersStep ==
    ASSUME JournalInv,
           \/ tx_notify_checkpoint \/ wal_sync_done
           \/ wal_begin_checkpoint_done \/ wal_commit_checkpoint_done
    PROVE  JournalInv'
<1>1. gc \in GcType /\ tx_pipe \in Seq(Messages(fiber))
  BY Zenon DEF JournalInv, PipeInv
<1>2. CASE tx_notify_checkpoint
  <2>1. gc' \in GcType
    BY <1>1, <1>2 DEF GcType, tx_notify_checkpoint
  <2> QED
    BY <1>2, <2>1, TakeStep, Zenon DEF tx_notify_checkpoint, txVars
<1>3. CASE wal_sync_done
  BY <1>1, <1>3, TakeStep, Zenon DEF wal_sync_done, txVars
<1>4. CASE wal_begin_checkpoint_done
  <2> DEFINE m == Head(tx_pipe)
  <2>1. tx_pipe # <<>>
    BY <1>4, Zenon DEF wal_begin_checkpoint_done
  <2>2. m \in Messages(fiber)
    BY <1>1, <2>1, Taken, Zenon
  <2>3. m.vclock \in Int /\ m.wal_size \in Int
    BY <2>2, Zenon DEF Messages
  <2>4. \/ gc' = [gc EXCEPT !.phase = "engine", !.vclock = m.vclock, !.wal_size = m.wal_size]
        \/ gc' = [gc EXCEPT !.phase = "idle"]
    BY <1>4, Zenon DEF wal_begin_checkpoint_done
  <2> HIDE DEF m
  <2>5. gc' \in GcType
    BY <1>1, <2>3, <2>4 DEF GcType
  <2> QED
    BY <1>4, <2>5, TakeStep, Zenon DEF wal_begin_checkpoint_done, txVars
<1>5. CASE wal_commit_checkpoint_done
  <2>1. gc' \in GcType
    BY <1>1, <1>5 DEF GcType, wal_commit_checkpoint_done
  <2> QED
    BY <1>5, <2>1, TakeStep, Zenon DEF wal_commit_checkpoint_done, txVars
<1> QED
  BY <1>2, <1>3, <1>4, <1>5, Zenon

\* A call to the WAL thread.
LEMMA CallStep ==
    ASSUME JournalInv, NEW m \in Messages(fiber), Call(m), gc' \in GcType
    PROVE  JournalInv'
<1>1. input' \in Seq(Messages(fiber))
  BY AppendProperties, Zenon DEF JournalInv, PipeInv, Call
<1>2. PipeInv'
  BY <1>1, Zenon DEF JournalInv, PipeInv, Call
<1> QED
  BY <1>2, Steady, Zenon DEF Call

LEMMA NoCallStep ==
    ASSUME JournalInv, NoCall, gc' \in GcType
    PROVE  JournalInv'
<1>1. PipeInv'
  BY Zenon DEF JournalInv, PipeInv, NoCall, txVars
<1> QED
  BY <1>1, Steady, Zenon DEF NoCall, txVars

LEMMA CallsStep ==
    ASSUME JournalInv, wal_sync \/ gc_do_checkpoint \/ wal_commit_checkpoint
    PROVE  JournalInv'
<1>1. gc \in GcType
  BY Zenon DEF JournalInv, PipeInv
<1>2. /\ {"sync", "begin", "commit"} \subseteq MsgType
      /\ 0 \in Int /\ TRUE \in BOOLEAN /\ gc.vclock \in Int /\ gc.wal_size \in Int
  BY <1>1 DEF MsgType, GcType
<1>3. /\ NewMsg("sync") \in Messages(fiber) /\ NewMsg("begin") \in Messages(fiber)
      /\ [NewMsg("commit") EXCEPT !.vclock = gc.vclock, !.wal_size = gc.wal_size]
            \in Messages(fiber)
  BY <1>2, NewMsgType, Zenon
<1>4. CASE wal_sync
  <2>1. NoCall \/ Call(NewMsg("sync"))
    BY <1>4, Zenon DEF wal_sync
  <2>2. gc' \in GcType
    BY <1>1, <1>4, Zenon DEF wal_sync
  <2> QED
    BY <1>3, <2>1, <2>2, CallStep, NoCallStep, Zenon
<1>5. CASE gc_do_checkpoint
  <2>1. NoCall \/ Call(NewMsg("begin"))
    BY <1>5, Zenon DEF gc_do_checkpoint
  <2> DEFINE v == {e \in Entry : fiber[e] \in {"waiting", "sent", "committed"}}
             w == {e \in Entry : fiber[e] = "waiting"}
  <2>2. \/ gc' = [gc EXCEPT !.pending = FALSE]
        \/ gc' = [gc EXCEPT !.phase = "begin", !.pending = FALSE, !.view = v, !.waiting = w]
    BY <1>5, Zenon DEF gc_do_checkpoint
  <2>3. v \in SUBSET Entry /\ w \in SUBSET Entry
    OBVIOUS
  <2> HIDE DEF v, w
  <2>4. gc' \in GcType
    BY <1>1, <2>2, <2>3 DEF GcType
  <2> QED
    BY <1>3, <2>1, <2>4, CallStep, NoCallStep, Zenon
<1>6. CASE wal_commit_checkpoint
  <2>1. \/ NoCall
        \/ Call([NewMsg("commit") EXCEPT !.vclock = gc.vclock, !.wal_size = gc.wal_size])
    BY <1>6, Zenon DEF wal_commit_checkpoint
  <2>2. gc' \in GcType
    BY <1>1, <1>6 DEF GcType, wal_commit_checkpoint
  <2> QED
    BY <1>3, <2>1, <2>2, CallStep, NoCallStep, Zenon
<1> QED
  BY <1>4, <1>5, <1>6, Zenon

-----------------------------------------------------------------------------
(* The theorems.                                                           *)

LEMMA JournalInit == Init => JournalInv
<1> SUFFICES ASSUME Init PROVE JournalInv
  OBVIOUS
<1>1. PICK s \in Scenarios :
        queue = [max_size |-> s.max_size, size |-> 0, waiters |-> <<>>,
                 waiter_count |-> 0, ready |-> <<>>]
  BY Zenon DEF Init
<1>2. s.max_size \in Int
  BY <1>1, JournalAssumption DEF Scenario
<1> DEFINE max == s.max_size
           none == <<>>
<1>3. none \in Seq(Entry) /\ Len(none) = 0 /\ none \o none = none
  BY ConcatEmptySeq
<1>4. queue = [max_size |-> max, size |-> 0, waiters |-> none,
               waiter_count |-> 0, ready |-> none]
  BY <1>1, Zenon
<1> HIDE DEF max, none
<1>5. /\ queue \in Queue /\ queue.waiters = none /\ queue.ready = none
      /\ queue.waiter_count = 0
  BY <1>2, <1>3, <1>4 DEF Queue, max
<1>6. Counted(queue)
  BY <1>3, <1>5 DEF Counted
<1>7. QueueInv
  BY <1>5, <1>6, Zenon DEF QueueInv, Woken, none
<1>8. Line(queue) = <<>>
  BY <1>3, <1>5, Zenon DEF Line, none
<1>9. fiber \in [Entry -> Location] /\ \A e \in Entry : fiber[e] = "new"
  BY DEF Init, Location
<1>10. OrderInv
  <2>1. 1..Len(<<>>) = {}
    OBVIOUS
  <2> QED
    BY <1>8, <1>9, <2>1 DEF OrderInv, Ordered
<1>11. PipeInv
  <2> DEFINE t == Seq(Sent(fiber))
  <2>1. <<>> \in Seq(Messages(fiber)) /\ <<>> \in t
    OBVIOUS
  <2>2. /\ input = <<>> /\ wal_pipe = <<>> /\ tx_pipe = <<>>
        /\ tx = [rollback |-> <<>>, last_entry |-> 0, vclock |-> 0]
    BY Zenon DEF Init
  <2>3. 0 \in 0..MaxEntries /\ 0 \in Int
    BY JournalAssumption
  <2>4. \A S : \A r \in S : \A l \in 0..MaxEntries : \A v \in Int :
            [rollback |-> r, last_entry |-> l, vclock |-> v]
                \in [rollback : S, last_entry : 0..MaxEntries, vclock : Int]
    OBVIOUS
  <2>5. tx \in TxType(fiber)
    BY <2>1, <2>2, <2>3, <2>4, Zenon DEF TxType
  <2>6. wal \in WalType /\ gc \in GcType
    BY DEF Init, WalType, GcType
  <2> QED
    BY <2>1, <2>2, <2>5, <2>6, Zenon DEF PipeInv
<1> QED
  BY <1>7, <1>10, <1>11, Zenon DEF JournalInv

LEMMA JournalNext == JournalInv /\ [Next]_vars => JournalInv'
<1> SUFFICES ASSUME JournalInv, [Next]_vars PROVE JournalInv'
  OBVIOUS
<1>1. ASSUME NEW e \in Entry, journal_write(e) \/ journal_write_try_async(e)
      PROVE  JournalInv'
  BY <1>1, WriteSyncStep, TryAsyncStep, Zenon
<1>2. ASSUME NEW size \in 1..Cardinality(Entry), journal_queue_set_max_size(size)
      PROVE  JournalInv'
  <2>1. size \in Int
    BY <1>2
  <2> QED
    BY <1>2, <2>1, SetMaxSizeStep, Zenon
<1>3. CASE Resume
  BY <1>3, ResumeStep, Zenon
<1>4. CASE TxFlush
  BY <1>4, FlushStep, Zenon
<1>5. CASE wal_write_to_disk
  BY <1>5, WriteToDiskStep, Zenon
<1>6. CASE wal_complete_rollback
  BY <1>6, CompleteRollbackStep, Zenon
<1>7. CASE wal_sync_f \/ wal_begin_checkpoint_f
  <2>1. "sync" \in MsgType /\ "begin" \in MsgType
    BY DEF MsgType
  <2>2. (~wal.is_in_rollback) \in BOOLEAN
    BY Zenon
  <2> QED
    BY <1>7, <2>1, <2>2, WalAnswerStep, Zenon DEF wal_sync_f, wal_begin_checkpoint_f
<1>8. CASE wal_commit_checkpoint_f
  BY <1>8, CommitCheckpointStep, Zenon
<1>9. CASE wal_watcher_notify_perform \/ wal_watcher_notify_complete
  <2>1. UNCHANGED <<queue, fiber, input, wal_pipe, tx_pipe, tx, wal, gc>>
    BY <1>9, Zenon DEF wal_watcher_notify_perform, wal_watcher_notify_complete, txVars
  <2>2. PipeInv'
    BY <2>1, Zenon DEF JournalInv, PipeInv
  <2> QED
    BY <2>1, <2>2, Steady, Zenon
<1>10. CASE tx_complete_batch
  BY <1>10, CompleteBatchStep, Zenon
<1>11. CASE \/ tx_notify_checkpoint \/ wal_sync_done
            \/ wal_begin_checkpoint_done \/ wal_commit_checkpoint_done
  BY <1>11, AnswersStep, Zenon
<1>12. CASE wal_sync \/ gc_do_checkpoint \/ wal_commit_checkpoint
  BY <1>12, CallsStep, Zenon
<1>13. CASE UNCHANGED vars
  <2>1. PipeInv'
    BY <1>13, Zenon DEF vars, JournalInv, PipeInv
  <2> QED
    BY <1>13, <2>1, Steady, Zenon DEF vars
<1> QED
  BY <1>1, <1>2, <1>3, <1>4, <1>5, <1>6, <1>7, <1>8, <1>9, <1>10, <1>11, <1>12, <1>13, Zenon
  DEF Next

\* journal_queue_wakeup, journal_queue_wait and journal_queue_flush lose no wakeup: a
\* fiber stays in the list with nobody on the way to wake it up only while the
\* queue is full.
THEOREM JournalNoLostWakeup == Spec => []NoLostWakeup
<1>1. JournalInv => NoLostWakeup
  BY Zenon DEF JournalInv, QueueInv, Woken, NoLostWakeup, journal_queue_is_full
<1> QED
  BY <1>1, JournalInit, JournalNext, PTL DEF Spec

\* journal_write and journal_write_try_async keep the order of the calls: a write
\* does not go to the WAL before one that was called earlier and still waits.
THEOREM JournalNoOvertaking == Spec => []NoOvertaking
<1>1. JournalInv => NoOvertaking
  BY Zenon DEF JournalInv, OrderInv, Ordered, NoOvertaking
<1> QED
  BY <1>1, JournalInit, JournalNext, PTL DEF Spec

\* A watcher that no message will reach any more has read all there is.
WatcherInv ==
    /\ watcher \in [route : {"none", "watcher", "wal"}, pending : BOOLEAN, seen : Int]
    /\ log \in Seq(Entry)
    /\ watcher.route = "none" \/ (watcher.route = "wal" /\ ~watcher.pending)
        => watcher.seen = Len(log)

LEMMA WatcherNext == JournalInv /\ WatcherInv /\ [Next]_vars => WatcherInv'
<1> SUFFICES ASSUME JournalInv, WatcherInv, [Next]_vars PROVE WatcherInv'
  OBVIOUS
<1>1. CASE wal_write_to_disk
  <2>1. /\ wal_pipe # <<>> /\ watcher' = wal_watcher_notify(watcher)
        /\ \E n \in 0..Len(Head(wal_pipe).commit) :
             log' = log \o SubSeq(Head(wal_pipe).commit, 1, n)
    BY <1>1, Zenon DEF wal_write_to_disk
  <2>2. Head(wal_pipe) \in Messages(fiber)
    BY <2>1, Taken, Zenon DEF JournalInv, PipeInv
  <2>3. Head(wal_pipe).commit \in Seq(Sent(fiber))
    BY <2>2, Zenon DEF Messages
  <2>4. Sent(fiber) \subseteq Entry
    BY DEF Sent
  <2>5. Head(wal_pipe).commit \in Seq(Entry)
    BY <2>3, <2>4, SeqMonotonic, Zenon
  <2>6. \A s, t \in Seq(Entry) : \A n \in 0..Len(t) : s \o SubSeq(t, 1, n) \in Seq(Entry)
    OBVIOUS
  <2>7. log' \in Seq(Entry)
    BY <2>1, <2>5, <2>6, Zenon DEF WatcherInv
  <2>8. /\ watcher' \in [route : {"none", "watcher", "wal"}, pending : BOOLEAN, seen : Int]
        /\ watcher'.route = "watcher" \/ watcher'.pending
        /\ watcher'.route # "none"
    BY <2>1 DEF wal_watcher_notify, WatcherInv
  <2> QED
    BY <2>7, <2>8 DEF WatcherInv
<1>2. CASE wal_watcher_notify_perform
  <2>1. Len(log) \in Int /\ log' = log
    BY <1>2 DEF WatcherInv, wal_watcher_notify_perform
  <2> DEFINE n == Len(log)
  <2>2. watcher' = [watcher EXCEPT !.route = "wal", !.seen = n]
    BY <1>2, Zenon DEF wal_watcher_notify_perform
  <2> HIDE DEF n
  <2>3. /\ watcher' \in [route : {"none", "watcher", "wal"}, pending : BOOLEAN, seen : Int]
        /\ watcher'.seen = n
    BY <2>1, <2>2 DEF WatcherInv, n
  <2> QED
    BY <2>1, <2>3, Zenon DEF WatcherInv, n
<1>3. CASE wal_watcher_notify_complete
  <2>1. watcher.route = "wal" /\ log' = log
    BY <1>3, Zenon DEF wal_watcher_notify_complete
  <2>2. CASE watcher.pending
    <3>1. /\ watcher' \in [route : {"none", "watcher", "wal"}, pending : BOOLEAN, seen : Int]
          /\ watcher'.route = "watcher"
      BY <1>3, <2>2 DEF wal_watcher_notify_complete, wal_watcher_notify, WatcherInv
    <3> QED
      BY <2>1, <3>1 DEF WatcherInv
  <2>3. CASE ~watcher.pending
    <3>1. /\ watcher' \in [route : {"none", "watcher", "wal"}, pending : BOOLEAN, seen : Int]
          /\ watcher'.seen = watcher.seen
      BY <1>3, <2>3 DEF wal_watcher_notify_complete, WatcherInv
    <3> QED
      BY <2>1, <2>3, <3>1, Zenon DEF WatcherInv
  <2> QED
    BY <2>2, <2>3, Zenon
<1>4. ASSUME UNCHANGED <<watcher, log>> PROVE WatcherInv'
  BY <1>4, Zenon DEF WatcherInv
<1>5. ASSUME NEW e \in Entry, journal_write(e) \/ journal_write_try_async(e)
      PROVE  UNCHANGED <<watcher, log>>
  BY <1>5, Zenon DEF journal_write, journal_write_try_async
<1>6. ASSUME NEW size \in 1..Cardinality(Entry), journal_queue_set_max_size(size)
      PROVE  UNCHANGED <<watcher, log>>
  BY <1>6, Zenon DEF journal_queue_set_max_size
<1>7. CASE Resume \/ TxFlush \/ wal_complete_rollback \/ tx_complete_batch
  BY <1>4, <1>7, Zenon DEF Resume, TxFlush, wal_complete_rollback, tx_complete_batch
<1>8. CASE wal_sync_f \/ wal_begin_checkpoint_f \/ wal_commit_checkpoint_f
  BY <1>4, <1>8, Zenon DEF wal_sync_f, wal_begin_checkpoint_f, WalAnswer,
     wal_commit_checkpoint_f, WalCommitCheckpoint
<1>9. CASE \/ tx_notify_checkpoint \/ wal_sync_done
           \/ wal_begin_checkpoint_done \/ wal_commit_checkpoint_done
  BY <1>4, <1>9, Zenon DEF tx_notify_checkpoint, wal_sync_done, wal_begin_checkpoint_done,
     wal_commit_checkpoint_done
<1>10. CASE wal_sync \/ gc_do_checkpoint \/ wal_commit_checkpoint
  BY <1>4, <1>10, Zenon DEF wal_sync, gc_do_checkpoint, wal_commit_checkpoint, Call, NoCall
<1>11. CASE UNCHANGED vars
  BY <1>4, <1>11, Zenon DEF vars
<1> QED
  BY <1>1, <1>2, <1>3, <1>4, <1>5, <1>6, <1>7, <1>8, <1>9, <1>10, <1>11, Zenon DEF Next

\* wal_watcher_notify loses no event although it does not send a message that is
\* still en route: a watcher with no message en route has read the whole log.
THEOREM JournalWatcherIsUpToDate == Spec => []WatcherIsUpToDate
<1>1. Init => WatcherInv
  <2>1. \A S : <<>> \in Seq(S) /\ Len(<<>>) = 0
    OBVIOUS
  <2> QED
    BY <2>1 DEF Init, WatcherInv
<1>2. WatcherInv => WatcherIsUpToDate
  BY Zenon DEF WatcherInv, WatcherIsUpToDate
<1> QED
  BY <1>1, <1>2, JournalInit, JournalNext, WatcherNext, PTL DEF Spec
=============================================================================
