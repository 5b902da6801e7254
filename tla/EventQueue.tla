----------------------------- MODULE EventQueue -----------------------------
(***************************************************************************)
(* Appending events (safe_io.append_jsonl, StorageManager.write_event),    *)
(* reading them back (read_jsonl_tail) and the queue between them          *)
(* (SQLiteWriteQueue): producer threads put events on an unbounded FIFO, a *)
(* daemon thread commits them to SQLite in batches and exports committed   *)
(* batches to the legacy JSONL file.  The manager creates a queue when it  *)
(* is first needed; close, run at interpreter exit, abandons it, and an    *)
(* append that comes later creates the next one, whose thread may run      *)
(* beside the old one.                                                     *)
(*                                                                         *)
(* Events are numbered in the order they are put.  The payload, the kinds  *)
(* of record and the paths are left out: one JSONL file, events only.      *)
(***************************************************************************)
EXTENDS Integers, Sequences, FiniteSets

CONSTANTS
  Producer,      \* threads that append events
  MaxEvents,     \* bound: events appended
  Generations,   \* bound: queues created in one process
  BatchSize,     \* batch_size of the queue
  Attempts       \* attempts at writing a batch

ASSUME QueueAssumption ==
  /\ MaxEvents \in Nat
  /\ Generations \in Nat \ {0}
  /\ BatchSize \in Nat \ {0}
  /\ Attempts \in Nat \ {0}

Gen == 1 .. Generations
Event == 1 .. MaxEvents

VARIABLES
  current,     \* the manager's _queue: a generation, or 0 for None
  created,     \* queues created so far
  holding,     \* [Producer -> 0 .. Generations], the queue a producer fetched
  put,         \* events put so far
  items,       \* [Gen -> Seq(Event)], queue.Queue
  unfinished,  \* [Gen -> Nat], its unfinished_tasks
  stop,        \* [Gen -> BOOLEAN], the _stop event
  worker,      \* [Gen -> STRING], where the writer thread of a queue is
  batch,       \* [Gen -> Seq(Event)], what it has collected
  attempt,     \* [Gen -> Nat], failed attempts at writing the batch
  db,          \* Seq(Event), rows committed to SQLite
  jsonl,       \* Seq(Event), rows exported to the legacy file
  degraded,    \* IO_DEGRADED_MODE
  reader,      \* a thread in read_jsonl_tail
  closer,      \* the main thread in StorageManager.close
  dropped      \* history: events that were given up

producerVars == <<current, created, holding, put>>
workerVars   == <<batch, attempt, db, jsonl, dropped>>
queueVars    == <<items, unfinished, stop>>
vars == <<producerVars, workerVars, queueVars, worker, degraded, reader, closer>>

Elements(s) == {s[i] : i \in DOMAIN s}

WorkerState == {"none", "connect", "loop", "begin", "insert", "export",
                "give_up", "task_done", "drain", "dead"}

TypeOK ==
  /\ current \in 0 .. created /\ created \in 0 .. Generations
  /\ holding \in [Producer -> 0 .. created]
  /\ put \in 0 .. MaxEvents
  /\ items \in [Gen -> Seq(Event)] /\ batch \in [Gen -> Seq(Event)]
  /\ unfinished \in [Gen -> 0 .. MaxEvents]
  /\ stop \in [Gen -> BOOLEAN]
  /\ worker \in [Gen -> WorkerState]
  /\ attempt \in [Gen -> 0 .. Attempts]
  /\ db \in Seq(Event) /\ jsonl \in Seq(Event)
  /\ degraded \in BOOLEAN
  /\ reader \in [pc : {"idle", "flushing", "fresh"},
                 gen : 0 .. created, asked : SUBSET Event]
  /\ closer \in [pc : {"idle", "flushing", "joining", "closed"},
                 gen : 0 .. created]
  /\ dropped \in SUBSET Event

NotReading == [pc |-> "idle", gen |-> 0, asked |-> {}]

Init ==
  /\ current = 0 /\ created = 0 /\ put = 0
  /\ holding = [p \in Producer |-> 0]
  /\ items = [g \in Gen |-> <<>>] /\ batch = [g \in Gen |-> <<>>]
  /\ unfinished = [g \in Gen |-> 0] /\ attempt = [g \in Gen |-> 0]
  /\ stop = [g \in Gen |-> FALSE]
  /\ worker = [g \in Gen |-> "none"]
  /\ db = <<>> /\ jsonl = <<>> /\ degraded = FALSE
  /\ reader = NotReading
  /\ closer = [pc |-> "idle", gen |-> 0]
  /\ dropped = {}

-----------------------------------------------------------------------------
(* Producers: write_event under append_jsonl.                              *)

\* _ensure_queue, under its lock: the queue there is, or a new one with a
\* thread that has 5 seconds to start and is not waited for any longer.
EnsureQueue(p) ==
  /\ holding[p] = 0 /\ put < MaxEvents
  /\ \/ /\ current # 0
        /\ holding' = [holding EXCEPT ![p] = current]
        /\ UNCHANGED <<current, created, worker>>
     \/ /\ current = 0 /\ created < Generations
        /\ created' = created + 1
        /\ current' = created'
        /\ holding' = [holding EXCEPT ![p] = created']
        /\ worker' = [worker EXCEPT ![created'] = "connect"]
  /\ UNCHANGED <<put, workerVars, queueVars, degraded, reader, closer>>

\* put_event, after the lock was released.  The append has been accepted.
PutEvent(p) ==
  /\ holding[p] # 0 /\ put < MaxEvents
  /\ put' = put + 1
  /\ items' = [items EXCEPT ![holding[p]] = Append(@, put')]
  /\ unfinished' = [unfinished EXCEPT ![holding[p]] = @ + 1]
  /\ holding' = [holding EXCEPT ![p] = 0]
  /\ UNCHANGED <<current, created, workerVars, stop, worker, degraded,
                 reader, closer>>

\* Preparing the event or putting it raises: degraded mode.  write_event
\* answers FALSE and append_jsonl turns to the legacy file itself, so the
\* event is none of those the queue accepted.
PutRaises(p) ==
  /\ holding[p] # 0
  /\ degraded' = TRUE
  /\ holding' = [holding EXCEPT ![p] = 0]
  /\ UNCHANGED <<current, created, put, workerVars, queueVars, worker, reader,
                 closer>>

-----------------------------------------------------------------------------
(* The writer thread of queue g: _run, _collect_batch, _write_batch.       *)

At(g, state) == worker[g] = state
GoTo(g, state) == worker' = [worker EXCEPT ![g] = state]

\* Mutant: a failed connection is not reported.
ConnectQuietly(g) ==
  /\ At(g, "connect")
  /\ GoTo(g, "loop") \/ GoTo(g, "drain")
  /\ UNCHANGED <<producerVars, workerVars, queueVars, degraded, reader, closer>>

Connect(g) ==
  /\ At(g, "connect")
  /\ \/ GoTo(g, "loop") /\ UNCHANGED degraded
     \/ GoTo(g, "drain") /\ degraded' = TRUE
  /\ UNCHANGED <<producerVars, workerVars, queueVars, reader, closer>>

\* After a failed connection the queue is emptied once.  Nothing ever takes
\* from it again.
Drain(g) ==
  /\ At(g, "drain")
  /\ \/ /\ items[g] # <<>>
        /\ items' = [items EXCEPT ![g] = Tail(@)]
        /\ unfinished' = [unfinished EXCEPT ![g] = @ - 1]
        /\ dropped' = dropped \cup {Head(items[g])}
        /\ UNCHANGED worker
     \/ /\ items[g] = <<>>
        /\ GoTo(g, "dead")
        /\ UNCHANGED <<items, unfinished, dropped>>
  /\ UNCHANGED <<producerVars, batch, attempt, db, jsonl, stop, degraded, reader,
                 closer>>

\* A batch is a prefix of the queue: it ends at batch_size, at the deadline or
\* when the queue is found empty.
CollectBatch(g) ==
  /\ At(g, "loop")
  /\ \E n \in 1 .. Len(items[g]) :
       /\ n <= BatchSize
       /\ batch' = [batch EXCEPT ![g] = SubSeq(items[g], 1, n)]
       /\ items' = [items EXCEPT ![g] = SubSeq(@, n + 1, Len(@))]
  /\ GoTo(g, "begin")
  /\ UNCHANGED <<producerVars, attempt, db, jsonl, dropped, unfinished, stop, degraded,
                 reader, closer>>

\* The loop condition: stopped and empty.
Leave(g) ==
  /\ At(g, "loop")
  /\ stop[g] /\ items[g] = <<>>
  /\ GoTo(g, "dead")
  /\ UNCHANGED <<producerVars, workerVars, queueVars, degraded, reader, closer>>

\* BEGIN IMMEDIATE takes SQLite's write lock.
Begin(g) ==
  /\ At(g, "begin")
  /\ \A h \in Gen : worker[h] # "insert"
  /\ GoTo(g, "insert")
  /\ UNCHANGED <<producerVars, workerVars, queueVars, degraded, reader, closer>>

\* The rows are inserted and committed together.
Commit(g) ==
  /\ At(g, "insert")
  /\ db' = db \o batch[g]
  /\ GoTo(g, "export")
  /\ UNCHANGED <<producerVars, batch, attempt, jsonl, dropped, queueVars, degraded,
                 reader, closer>>

\* Mutant: the attempts are not counted.
LockedForever(g) ==
  /\ At(g, "begin") \/ At(g, "insert")
  /\ GoTo(g, "begin")
  /\ UNCHANGED <<producerVars, workerVars, queueVars, degraded, reader, closer>>

\* Another connection held the lock for 30 seconds, or the transaction found
\* the database locked.  It is rolled back; the fifth time the batch is given up.
Locked(g) ==
  /\ At(g, "begin") \/ At(g, "insert")
  /\ attempt' = [attempt EXCEPT ![g] = @ + 1]
  /\ GoTo(g, IF attempt'[g] < Attempts THEN "begin" ELSE "give_up")
  /\ UNCHANGED <<producerVars, batch, db, jsonl, dropped, queueVars, degraded,
                 reader, closer>>

\* Any other error is rolled back and not tried again.
WriteFails(g) ==
  /\ At(g, "begin") \/ At(g, "insert")
  /\ GoTo(g, "give_up")
  /\ UNCHANGED <<producerVars, workerVars, queueVars, degraded, reader, closer>>

\* Mutant: a batch that cannot be written goes to the end of the queue.
GiveUpRequeues(g) ==
  /\ At(g, "give_up")
  /\ degraded' = TRUE
  /\ items' = [items EXCEPT ![g] = @ \o batch[g]]
  /\ unfinished' = [unfinished EXCEPT ![g] = @ + Len(batch[g])]
  /\ GoTo(g, "task_done")
  /\ UNCHANGED <<producerVars, workerVars, stop, reader, closer>>

GiveUp(g) ==
  /\ At(g, "give_up")
  /\ degraded' = TRUE
  /\ dropped' = dropped \cup Elements(batch[g])
  /\ GoTo(g, "task_done")
  /\ UNCHANGED <<producerVars, batch, attempt, db, jsonl, queueVars, reader, closer>>

\* Mutant: a failed export lets the batch be written again.
ExportRetries(g) ==
  /\ At(g, "export")
  /\ \/ jsonl' = jsonl \o batch[g] /\ GoTo(g, "task_done")
     \/ UNCHANGED jsonl /\ GoTo(g, "begin")
  /\ UNCHANGED <<producerVars, batch, attempt, db, dropped, queueVars, degraded,
                 reader, closer>>

\* _write_legacy swallows its exceptions: the rows may be missing in the file.
Export(g) ==
  /\ At(g, "export")
  /\ \/ jsonl' = jsonl \o batch[g]
     \/ UNCHANGED jsonl
  /\ GoTo(g, "task_done")
  /\ UNCHANGED <<producerVars, batch, attempt, db, dropped, queueVars, degraded,
                 reader, closer>>

\* task_done for every item of the batch.
TaskDone(g) ==
  /\ At(g, "task_done")
  /\ unfinished' = [unfinished EXCEPT ![g] = @ - Len(batch[g])]
  /\ batch' = [batch EXCEPT ![g] = <<>>]
  /\ attempt' = [attempt EXCEPT ![g] = 0]
  /\ GoTo(g, "loop")
  /\ UNCHANGED <<producerVars, db, jsonl, dropped, items, stop, degraded,
                 reader, closer>>

Writer(g) ==
  \/ Connect(g) \/ Drain(g) \/ CollectBatch(g) \/ Leave(g) \/ Begin(g) \/ Commit(g)
  \/ Locked(g) \/ WriteFails(g) \/ GiveUp(g) \/ Export(g) \/ TaskDone(g)

-----------------------------------------------------------------------------
(* A reader: flush with its half-second timeout, then the table.           *)

\* manager.flush polls the queue there is and answers TRUE at once when there
\* is none.  asked remembers every event whose append had returned.
ReadTail ==
  /\ reader.pc # "flushing"
  /\ reader' = [pc |-> IF current = 0 THEN "fresh" ELSE "flushing",
                gen |-> current, asked |-> 1 .. put]
  /\ UNCHANGED <<producerVars, workerVars, queueVars, worker, degraded, closer>>

\* Mutant: a flush is over when the queue is empty.
NothingQueued(g) == items[g] = <<>>

\* flush polls unfinished_tasks until its time is up.
Flushed(g) == unfinished[g] = 0

ReaderReturns ==
  /\ reader.pc = "flushing"
  /\ reader' = IF Flushed(reader.gen) THEN [reader EXCEPT !.pc = "fresh"]
               ELSE NotReading
  /\ UNCHANGED <<producerVars, workerVars, queueVars, worker, degraded, closer>>

-----------------------------------------------------------------------------
(* close, run by atexit while daemon threads still run.                    *)

CloseStarts ==
  /\ closer.pc = "idle" /\ current # 0
  /\ closer' = [pc |-> "flushing", gen |-> current]
  /\ UNCHANGED <<producerVars, workerVars, queueVars, worker, degraded, reader>>

\* Flushed, or 2 seconds have passed.
SetStop ==
  /\ closer.pc = "flushing"
  /\ stop' = [stop EXCEPT ![closer.gen] = TRUE]
  /\ closer' = [closer EXCEPT !.pc = "joining"]
  /\ UNCHANGED <<producerVars, workerVars, items, unfinished, worker, degraded, reader>>

\* The thread has ended, or 2 seconds have passed.
ForgetQueue ==
  /\ closer.pc = "joining"
  /\ current' = 0
  /\ closer' = [closer EXCEPT !.pc = "closed"]
  /\ UNCHANGED <<created, holding, put, workerVars, queueVars, worker, degraded,
                 reader>>

Next ==
  \/ \E p \in Producer : EnsureQueue(p) \/ PutEvent(p) \/ PutRaises(p)
  \/ \E g \in Gen : Writer(g)
  \/ ReadTail \/ ReaderReturns
  \/ CloseStarts \/ SetStop \/ ForgetQueue

Fairness == \A g \in Gen : WF_vars(Writer(g))

Spec == Init /\ [][Next]_vars /\ Fairness

-----------------------------------------------------------------------------
(* Properties.                                                             *)

Stored == Elements(db)

Increasing(s) == \A i, j \in DOMAIN s : i < j => s[i] < s[j]

\* While one queue is all there is, the table and the legacy file hold the
\* events in the order their appends returned, whatever was retried.
StoredInOrder == created = 1 => Increasing(db) /\ Increasing(jsonl)

\* What waits in the queue that close has forgotten, or in its thread's batch.
Left == IF closer.pc = "closed"
        THEN Elements(items[closer.gen]) \cup Elements(batch[closer.gen]) ELSE {}

\* When flush answers TRUE, every event whose append had returned before it, on
\* whatever queue, is in the table (read_jsonl_tail and the dashboard read it
\* right after), unless storage says it is degraded.  The one exception is what
\* a forgotten queue still holds: flush polls the manager's queue and no other.
FlushedIsSettled ==
  reader.pc = "fresh" => reader.asked \ Left \subseteq Stored \/ degraded

Stranded == UNION {Elements(items[g]) : g \in {h \in Gen : worker[h] = "dead"}}

\* An accepted event that no thread will ever take from its queue is there
\* because storage was degraded or the process is closing it.
StrandedIsExplained == Stranded # {} => degraded \/ closer.pc # "idle"

\* The queue implements the store: what is accepted is stored at most once
\* or lost, and lost only in degraded mode.
Store == INSTANCE EventStore WITH
           accepted <- 1 .. put, lost <- dropped,
           rows <- [e \in Event |-> Cardinality({i \in DOMAIN db : db[i] = e})]
StoreSpec == Store!Spec

\* No accepted event waits for ever: again and again every event accepted so
\* far is stored, given up, or in the queue of a thread that has ended, and
\* none of the three is ever left.
EventuallySettled == []<>(1 .. put \subseteq Stored \cup dropped \cup Stranded)
=============================================================================
