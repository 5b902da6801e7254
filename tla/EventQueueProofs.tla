--------------------------- MODULE EventQueueProofs ---------------------------
(***************************************************************************)
(* Safety of the write queue for every number of producers, events,        *)
(* queues, attempts and every batch size: what is stored is in order,      *)
(* what flush reports is true, what is stranded has a reason, and the      *)
(* queue implements EventStore.                                            *)
(*                                                                         *)
(* The inductive invariant follows an event: it is in the queue of one     *)
(* generation, then in its batch, then in the table or given up, never in  *)
(* two of these at once while the batch is unsettled.                      *)
(***************************************************************************)
EXTENDS EventQueue, FiniteSetTheorems, TLAPS

\* A batch that is neither committed nor given up, and one not yet done.
Unsettled == {"begin", "insert", "give_up"}
Busy == Unsettled \cup {"export", "task_done"}

Waiting(g) == Elements(items[g]) \cup Elements(batch[g])

Before(S, T) == \A x \in S, y \in T : x < y

Distinct(s) == \A i, j \in DOMAIN s : s[i] = s[j] => i = j

\* As TypeOK, with the counter of unfinished items not yet bounded: the events
\* and where they are, the threads and what they do.
EventsTyped ==
  /\ put \in 0 .. MaxEvents
  /\ items \in [Gen -> Seq(Event)] /\ batch \in [Gen -> Seq(Event)]
  /\ unfinished \in [Gen -> Int]
  /\ db \in Seq(Event) /\ jsonl \in Seq(Event)
  /\ dropped \in SUBSET Event

ThreadsTyped ==
  /\ current \in 0 .. created /\ created \in 0 .. Generations
  /\ holding \in [Producer -> 0 .. created]
  /\ stop \in [Gen -> BOOLEAN]
  /\ worker \in [Gen -> WorkerState]
  /\ attempt \in [Gen -> 0 .. Attempts]
  /\ degraded \in BOOLEAN
  /\ reader \in [pc : {"idle", "flushing", "fresh"},
                 gen : 0 .. created, asked : SUBSET Event]
  /\ closer \in [pc : {"idle", "flushing", "joining", "closed"},
                 gen : 0 .. created]

Typed == EventsTyped /\ ThreadsTyped

\* Where the threads are.
Placed ==
  /\ \A g \in Gen : worker[g] = "none" <=> g > created
  /\ \A g \in Gen : worker[g] \in {"begin", "insert"} => attempt[g] < Attempts
  /\ \A g \in Gen : worker[g] \in {"none", "connect", "loop"} => attempt[g] = 0
  /\ reader.pc = "flushing" => reader.gen # 0
  /\ closer.pc # "idle" => closer.gen # 0
  /\ closer.pc \in {"flushing", "joining"} => current = closer.gen
  /\ \A g \in 1 .. created :
       g # current => closer.pc = "closed" /\ g = closer.gen

\* A queue nobody made is empty, a batch is collected only to be written.
Filled ==
  /\ \A g \in Gen : worker[g] = "none" => items[g] = <<>>
  /\ \A g \in Gen : batch[g] # <<>> <=> worker[g] \in Busy

\* Queues and batches are in the order of the puts.
Sorted ==
  \A g \in Gen :
    /\ Increasing(items[g]) /\ Increasing(batch[g])
    /\ Before(Elements(batch[g]), Elements(items[g]))

\* unfinished_tasks counts what waits.
Counted == \A g \in Gen : unfinished[g] = Len(items[g]) + Len(batch[g])

\* An accepted event is in one place.
Apart ==
  /\ \A g \in Gen : Waiting(g) \subseteq 1 .. put
  /\ Stored \cup dropped \subseteq 1 .. put
  /\ \A g, h \in Gen : g # h => Waiting(g) \cap Waiting(h) = {}
  /\ \A g \in Gen : Elements(items[g]) \cap (Stored \cup dropped) = {}
  /\ \A g \in Gen : worker[g] \in Unsettled
                      => Elements(batch[g]) \cap (Stored \cup dropped) = {}
  /\ Stored \cap dropped = {}
  /\ Distinct(db)

\* No accepted event is nowhere.
Kept == \A e \in 1 .. put : \/ e \in Stored \cup dropped
                            \/ \E g \in Gen : e \in Waiting(g)

\* What has left a batch is stored or was given up.
Settled ==
  /\ \A g \in Gen : worker[g] = "export" => Elements(batch[g]) \subseteq Stored
  /\ \A g \in Gen : worker[g] = "task_done"
                      => Elements(batch[g]) \subseteq Stored \cup dropped
  /\ Elements(jsonl) \subseteq Stored

\* Degraded mode and the close explain what is lost and what ends.
Explained ==
  /\ dropped # {} => degraded
  /\ \A g \in Gen : worker[g] = "drain" => degraded
  /\ \A g \in Gen : stop[g] => closer.pc # "idle"
  /\ \A g \in Gen : worker[g] = "dead" => degraded \/ closer.pc # "idle"

\* What a reader asked for waits in the queue it polls or in the one that was
\* forgotten, or is settled.
Answered ==
  /\ reader.pc = "flushing"
       => reader.asked \subseteq Waiting(reader.gen) \cup Left \cup Stored \cup dropped
  /\ reader.pc = "fresh" => reader.asked \subseteq Left \cup Stored \cup dropped

\* One queue after another number: rows come before what still waits.
InOrder ==
  created <= 1 =>
    /\ Increasing(db) /\ Increasing(jsonl)
    /\ \A g \in Gen :
         /\ Before(Stored, Elements(items[g]))
         /\ worker[g] \in Unsettled => Before(Stored, Elements(batch[g]))
         /\ worker[g] \in Unsettled \cup {"export"}
              => Before(Elements(jsonl), Elements(batch[g]))

IInv == /\ Typed /\ Placed /\ Filled /\ Sorted /\ Counted /\ Apart
        /\ Kept /\ Settled /\ Explained /\ Answered /\ InOrder

-----------------------------------------------------------------------------
(* Sequences: what the operations of a queue do to the elements and to    *)
(* their order.                                                            *)

\* Append adds one element.
LEMMA ElementsAppend ==
  ASSUME NEW S, NEW s \in Seq(S), NEW e \in S
  PROVE  Elements(Append(s, e)) = Elements(s) \cup {e}
<1>1. ASSUME NEW x \in Elements(Append(s, e)) PROVE x \in Elements(s) \cup {e}
  BY <1>1 DEF Elements
<1>2. Elements(s) \subseteq Elements(Append(s, e))
  <2>1. ASSUME NEW i \in DOMAIN s PROVE s[i] \in Elements(Append(s, e))
    <3>1. i \in DOMAIN Append(s, e) /\ Append(s, e)[i] = s[i]
      OBVIOUS
    <3> QED BY <3>1 DEF Elements
  <2> QED BY <2>1 DEF Elements
<1>3. e \in Elements(Append(s, e))
  <2>1. Len(s) + 1 \in DOMAIN Append(s, e) /\ Append(s, e)[Len(s) + 1] = e
    OBVIOUS
  <2> QED BY <2>1 DEF Elements
<1> QED BY <1>1, <1>2, <1>3

\* Concatenation joins the elements.
LEMMA ElementsConcat ==
  ASSUME NEW S, NEW s \in Seq(S), NEW t \in Seq(S)
  PROVE  Elements(s \o t) = Elements(s) \cup Elements(t)
<1>1. ASSUME NEW i \in DOMAIN (s \o t)
      PROVE  (s \o t)[i] \in Elements(s) \cup Elements(t)
  <2>1. CASE i <= Len(s)
    BY <2>1 DEF Elements
  <2>2. CASE i > Len(s)
    <3>1. i - Len(s) \in DOMAIN t /\ (s \o t)[i] = t[i - Len(s)]
      BY <2>2
    <3> QED BY <3>1 DEF Elements
  <2> QED BY <2>1, <2>2
<1>2. ASSUME NEW i \in DOMAIN s PROVE s[i] \in Elements(s \o t)
  <2>1. i \in DOMAIN (s \o t) /\ (s \o t)[i] = s[i]
    OBVIOUS
  <2> QED BY <2>1 DEF Elements
<1>3. ASSUME NEW i \in DOMAIN t PROVE t[i] \in Elements(s \o t)
  <2>1. i + Len(s) \in DOMAIN (s \o t) /\ (s \o t)[i + Len(s)] = t[i]
    OBVIOUS
  <2> QED BY <2>1 DEF Elements
<1> QED BY <1>1, <1>2, <1>3 DEF Elements

\* Two parts of an increasing sequence: elements, order within and between.
LEMMA Parts ==
  ASSUME NEW s \in Seq(Event), Increasing(s), NEW n \in 0 .. Len(s),
         NEW a \in Seq(Event), NEW b \in Seq(Event),
         Len(a) = n, Len(b) = Len(s) - n,
         \A i \in 1 .. n : a[i] = s[i],
         \A i \in 1 .. Len(s) - n : b[i] = s[n + i]
  PROVE  /\ Elements(s) = Elements(a) \cup Elements(b)
         /\ Increasing(a) /\ Increasing(b)
         /\ Before(Elements(a), Elements(b))
<1>1. DOMAIN a = 1 .. n /\ DOMAIN b = 1 .. Len(s) - n /\ DOMAIN s = 1 .. Len(s)
  OBVIOUS
<1>2. \A i \in DOMAIN b : n + i \in DOMAIN s /\ b[i] = s[n + i]
  BY <1>1
<1>3. \A i \in DOMAIN a : i \in DOMAIN s /\ a[i] = s[i]
  BY <1>1
<1>4. \A i \in DOMAIN s : i \in DOMAIN a \/ (i - n \in DOMAIN b /\ b[i - n] = s[i])
  <2> TAKE i \in DOMAIN s
  <2>1. CASE i <= n
    BY <2>1, <1>1
  <2>2. CASE i > n
    <3>1. i - n \in DOMAIN b /\ n + (i - n) = i
      BY <2>2, <1>1
    <3> QED BY <3>1, <1>2
  <2> QED BY <2>1, <2>2
<1>5. Elements(s) = Elements(a) \cup Elements(b)
  BY <1>2, <1>3, <1>4 DEF Elements
<1>6. Increasing(a)
  BY <1>3 DEF Increasing
<1>7. ASSUME NEW i \in DOMAIN b, NEW j \in DOMAIN b, i < j
      PROVE  b[i] < b[j]
  <2>1. n + i \in DOMAIN s /\ n + j \in DOMAIN s /\ n + i < n + j
    BY <1>7, <1>1
  <2>2. s[n + i] < s[n + j]
    BY <2>1 DEF Increasing
  <2> QED BY <2>2, <1>2
<1>8. ASSUME NEW i \in DOMAIN a, NEW j \in DOMAIN b
      PROVE  a[i] < b[j]
  <2>1. i \in DOMAIN s /\ n + j \in DOMAIN s /\ i < n + j
    BY <1>1
  <2>2. s[i] < s[n + j]
    BY <2>1 DEF Increasing
  <2> QED BY <2>2, <1>2, <1>3
<1> QED BY <1>5, <1>6, <1>7, <1>8 DEF Increasing, Before, Elements

\* The first n items of a queue, and the rest of it.
LEMMA Cut ==
  ASSUME NEW s \in Seq(Event), NEW n \in 0 .. Len(s)
  PROVE  /\ SubSeq(s, 1, n) \in Seq(Event) /\ Len(SubSeq(s, 1, n)) = n
         /\ \A i \in 1 .. n : SubSeq(s, 1, n)[i] = s[i]
         /\ SubSeq(s, n + 1, Len(s)) \in Seq(Event)
         /\ Len(SubSeq(s, n + 1, Len(s))) = Len(s) - n
         /\ \A i \in 1 .. Len(s) - n : SubSeq(s, n + 1, Len(s))[i] = s[n + i]
<1>1. /\ SubSeq(s, 1, n) \in Seq(Event) /\ Len(SubSeq(s, 1, n)) = n
      /\ \A i \in 1 .. n : SubSeq(s, 1, n)[i] = s[i]
  OBVIOUS
<1>2. /\ SubSeq(s, n + 1, Len(s)) \in Seq(Event)
      /\ Len(SubSeq(s, n + 1, Len(s))) = Len(s) - n
  OBVIOUS
<1>3. ASSUME NEW i \in 1 .. Len(s) - n
      PROVE  SubSeq(s, n + 1, Len(s))[i] = s[n + i]
  OBVIOUS
<1> QED BY <1>1, <1>2, <1>3

LEMMA ConcatLength ==
  ASSUME NEW s \in Seq(Event), NEW t \in Seq(Event)
  PROVE  /\ t \o s \in Seq(Event) /\ Len(t \o s) = Len(s) + Len(t)
         /\ Len(t \o s) \in Nat
OBVIOUS

LEMMA LengthIsNat ==
  ASSUME NEW s \in Seq(Event)
  PROVE  Len(s) \in Nat
OBVIOUS

LEMMA BothEmpty ==
  ASSUME NEW s \in Seq(Event), NEW t \in Seq(Event), Len(s) + Len(t) = 0
  PROVE  s = <<>> /\ t = <<>>
OBVIOUS

LEMMA CutParts ==
  ASSUME NEW s \in Seq(Event), Increasing(s), NEW n \in 0 .. Len(s)
  PROVE  LET a == SubSeq(s, 1, n)
             b == SubSeq(s, n + 1, Len(s))
         IN  /\ Elements(s) = Elements(a) \cup Elements(b)
             /\ Increasing(a) /\ Increasing(b)
             /\ Before(Elements(a), Elements(b))
<1>1. PICK a, b : a = SubSeq(s, 1, n) /\ b = SubSeq(s, n + 1, Len(s))
  OBVIOUS
<1>2. a \in Seq(Event) /\ Len(a) = n /\ b \in Seq(Event) /\ Len(b) = Len(s) - n
  BY <1>1, Cut
<1>3. \A i \in 1 .. n : a[i] = s[i]
  BY <1>1, Cut
<1>4. \A i \in 1 .. Len(s) - n : b[i] = s[n + i]
  BY <1>1, Cut
<1>5. /\ Elements(s) = Elements(a) \cup Elements(b)
      /\ Increasing(a) /\ Increasing(b)
      /\ Before(Elements(a), Elements(b))
  BY <1>2, <1>3, <1>4, Parts
<1> QED BY <1>1, <1>5

\* The head of a queue comes before its tail.
LEMMA HeadAndTail ==
  ASSUME NEW s \in Seq(Event), s # <<>>, Increasing(s)
  PROVE  /\ Head(s) \in Event /\ Tail(s) \in Seq(Event)
         /\ Len(Tail(s)) = Len(s) - 1
         /\ Elements(s) = {Head(s)} \cup Elements(Tail(s))
         /\ Increasing(Tail(s))
         /\ Head(s) \notin Elements(Tail(s))
<1>1. Head(s) = s[1] /\ Head(s) \in Event /\ 1 \in DOMAIN s
  OBVIOUS
<1>2. /\ Tail(s) \in Seq(Event) /\ Len(Tail(s)) = Len(s) - 1
      /\ DOMAIN Tail(s) = 1 .. Len(s) - 1
  OBVIOUS
<1>3. \A i \in DOMAIN Tail(s) : i + 1 \in DOMAIN s /\ Tail(s)[i] = s[i + 1]
  OBVIOUS
<1>4. \A i \in DOMAIN s : i # 1 => i - 1 \in DOMAIN Tail(s) /\ Tail(s)[i - 1] = s[i]
  OBVIOUS
<1>5. ASSUME NEW i \in DOMAIN s PROVE s[i] \in {Head(s)} \cup Elements(Tail(s))
  BY <1>1, <1>4 DEF Elements
<1>6. ASSUME NEW i \in DOMAIN Tail(s) PROVE Tail(s)[i] \in Elements(s)
  BY <1>3 DEF Elements
<1>7. Elements(s) = {Head(s)} \cup Elements(Tail(s))
  BY <1>1, <1>5, <1>6 DEF Elements
<1>8. Increasing(Tail(s))
  <2> SUFFICES ASSUME NEW i \in DOMAIN Tail(s), NEW j \in DOMAIN Tail(s), i < j
               PROVE  Tail(s)[i] < Tail(s)[j]
    BY DEF Increasing
  <2>1. i + 1 \in DOMAIN s /\ j + 1 \in DOMAIN s /\ i + 1 < j + 1
    BY <1>2, <1>3
  <2>2. s[i + 1] < s[j + 1]
    BY <2>1 DEF Increasing
  <2> QED BY <2>2, <1>3
<1>9. ASSUME NEW i \in DOMAIN Tail(s) PROVE Tail(s)[i] # Head(s)
  <2>1. i + 1 \in DOMAIN s /\ 1 < i + 1 /\ Tail(s)[i] = s[i + 1]
    BY <1>2, <1>3
  <2>2. s[1] < s[i + 1]
    BY <1>1, <2>1 DEF Increasing
  <2>3. s[1] \in Nat /\ s[i + 1] \in Nat
    BY <1>1, <2>1, QueueAssumption DEF Event
  <2> QED BY <1>1, <2>1, <2>2, <2>3
<1> QED BY <1>1, <1>2, <1>7, <1>8, <1>9 DEF Elements

\* A larger element may follow an increasing sequence.
LEMMA IncreasingAppend ==
  ASSUME NEW s \in Seq(Event), NEW e \in Event, Increasing(s),
         \A x \in Elements(s) : x < e
  PROVE  Increasing(Append(s, e))
<1>1. \A i \in DOMAIN Append(s, e) :
        \/ i \in DOMAIN s /\ Append(s, e)[i] = s[i]
        \/ i = Len(s) + 1 /\ Append(s, e)[i] = e
  OBVIOUS
<1>2. \A i \in DOMAIN s : s[i] \in Elements(s) /\ i < Len(s) + 1
  BY DEF Elements
<1> SUFFICES ASSUME NEW i \in DOMAIN Append(s, e), NEW j \in DOMAIN Append(s, e), i < j
             PROVE  Append(s, e)[i] < Append(s, e)[j]
  BY DEF Increasing
<1>3. i \in DOMAIN s /\ Append(s, e)[i] = s[i]
  BY <1>1, <1>2
<1>4. CASE j \in DOMAIN s /\ Append(s, e)[j] = s[j]
  BY <1>3, <1>4 DEF Increasing
<1>5. CASE Append(s, e)[j] = e
  BY <1>2, <1>3, <1>5
<1> QED BY <1>1, <1>4, <1>5

\* Two increasing sequences, one before the other, make one.
LEMMA IncreasingConcat ==
  ASSUME NEW s \in Seq(Event), NEW t \in Seq(Event), Increasing(s), Increasing(t),
         Before(Elements(s), Elements(t))
  PROVE  Increasing(s \o t)
<1>1. DOMAIN (s \o t) = 1 .. Len(s) + Len(t)
  OBVIOUS
<1>2. \A i \in DOMAIN (s \o t) :
        \/ i \in DOMAIN s /\ (s \o t)[i] = s[i]
        \/ i - Len(s) \in DOMAIN t /\ i > Len(s) /\ (s \o t)[i] = t[i - Len(s)]
  OBVIOUS
<1> SUFFICES ASSUME NEW i \in DOMAIN (s \o t), NEW j \in DOMAIN (s \o t), i < j
             PROVE  (s \o t)[i] < (s \o t)[j]
  BY DEF Increasing
<1>3. CASE i \in DOMAIN s /\ (s \o t)[i] = s[i]
  <2>1. CASE j \in DOMAIN s /\ (s \o t)[j] = s[j]
    BY <1>3, <2>1 DEF Increasing
  <2>2. CASE j - Len(s) \in DOMAIN t /\ (s \o t)[j] = t[j - Len(s)]
    <3>1. s[i] \in Elements(s) /\ t[j - Len(s)] \in Elements(t)
      BY <1>3, <2>2 DEF Elements
    <3> QED BY <1>3, <2>2, <3>1 DEF Before
  <2> QED BY <1>2, <2>1, <2>2
<1>4. CASE i - Len(s) \in DOMAIN t /\ i > Len(s) /\ (s \o t)[i] = t[i - Len(s)]
  <2>1. j > Len(s) /\ j \notin DOMAIN s
    BY <1>1, <1>4
  <2>2. j - Len(s) \in DOMAIN t /\ (s \o t)[j] = t[j - Len(s)]
    BY <1>2, <2>1
  <2>3. i - Len(s) < j - Len(s)
    BY <1>1
  <2> QED BY <1>4, <2>2, <2>3 DEF Increasing
<1> QED BY <1>2, <1>3, <1>4

\* An increasing sequence has no element twice.
LEMMA IncreasingDistinct ==
  ASSUME NEW s \in Seq(Event), Increasing(s)
  PROVE  Distinct(s)
<1> SUFFICES ASSUME NEW i \in DOMAIN s, NEW j \in DOMAIN s, i # j
             PROVE  s[i] # s[j]
  BY DEF Distinct
<1>1. s[i] \in Nat /\ s[j] \in Nat
  BY QueueAssumption DEF Event
<1>2. i < j \/ j < i
  OBVIOUS
<1> QED BY <1>1, <1>2 DEF Increasing

\* Two sequences without repetition and without a common element make one.
LEMMA DistinctConcat ==
  ASSUME NEW s \in Seq(Event), NEW t \in Seq(Event), Distinct(s), Distinct(t),
         Elements(s) \cap Elements(t) = {}
  PROVE  Distinct(s \o t)
<1>2. \A i \in DOMAIN (s \o t) :
        \/ i \in DOMAIN s /\ (s \o t)[i] = s[i]
        \/ i - Len(s) \in DOMAIN t /\ (s \o t)[i] = t[i - Len(s)]
  OBVIOUS
<1> SUFFICES ASSUME NEW i \in DOMAIN (s \o t), NEW j \in DOMAIN (s \o t),
                    (s \o t)[i] = (s \o t)[j]
             PROVE  i = j
  BY DEF Distinct
<1>3. ASSUME NEW k \in DOMAIN s, NEW l \in DOMAIN t PROVE s[k] # t[l]
  BY DEF Elements
<1>4. CASE i \in DOMAIN s /\ (s \o t)[i] = s[i]
  <2>1. j \in DOMAIN s /\ (s \o t)[j] = s[j]
    BY <1>2, <1>3, <1>4
  <2> QED BY <1>4, <2>1 DEF Distinct
<1>5. CASE i - Len(s) \in DOMAIN t /\ (s \o t)[i] = t[i - Len(s)]
  <2>1. j - Len(s) \in DOMAIN t /\ (s \o t)[j] = t[j - Len(s)]
    BY <1>2, <1>3, <1>5
  <2>2. i - Len(s) = j - Len(s)
    BY <1>5, <2>1 DEF Distinct
  <2> QED BY <2>2
<1> QED BY <1>2, <1>4, <1>5

\* Without repetition a sequence is no longer than its range allows.
LEMMA DistinctBounded ==
  ASSUME NEW s \in Seq(Event), Distinct(s), NEW n \in Nat, Elements(s) \subseteq 1 .. n
  PROVE  Len(s) <= n
<1>1. s \in [1 .. Len(s) -> 1 .. n]
  BY DEF Elements
<1>2. /\ IsFiniteSet(1 .. Len(s)) /\ IsFiniteSet(1 .. n)
      /\ Cardinality(1 .. Len(s)) = Len(s) /\ Cardinality(1 .. n) = n
  <2>1. \A k \in Nat : IsFiniteSet(1 .. k) /\ Cardinality(1 .. k) = k
    <3> TAKE k \in Nat
    <3>1. 1 \in Int /\ k \in Int
      OBVIOUS
    <3>2. /\ IsFiniteSet(1 .. k)
          /\ Cardinality(1 .. k) = IF 1 > k THEN 0 ELSE k - 1 + 1
      BY <3>1, FS_Interval, Zenon
    <3> QED BY <3>2
  <2> QED BY <2>1
<1>3. SUFFICES ASSUME n < Len(s) PROVE FALSE
  OBVIOUS
<1>4. \E x, y \in 1 .. Len(s) : x # y /\ s[x] = s[y]
  BY <1>1, <1>2, <1>3, FS_PigeonHole
<1> QED BY <1>4 DEF Distinct

-----------------------------------------------------------------------------
(* The steps of the queue.                                                 *)

\* Every step is one of the actions, or a stutter.
LEMMA StepCases ==
  ASSUME [Next]_vars
  PROVE  \/ \E p \in Producer : EnsureQueue(p) \/ PutEvent(p) \/ PutRaises(p)
         \/ \E g \in Gen : Connect(g) \/ Drain(g) \/ CollectBatch(g) \/ Leave(g)
         \/ \E g \in Gen : Begin(g) \/ Commit(g) \/ Locked(g) \/ WriteFails(g)
         \/ \E g \in Gen : GiveUp(g) \/ Export(g) \/ TaskDone(g)
         \/ ReadTail \/ ReaderReturns \/ CloseStarts \/ SetStop \/ ForgetQueue
         \/ UNCHANGED vars
BY DEF Next, Writer

\* The step of a thread that moves no event, by where the thread is.
Moves(g) ==
  \/ worker'[g] = worker[g]
  \/ worker[g] = "none" /\ worker'[g] = "connect"
  \/ worker[g] = "connect" /\ worker'[g] = "loop"
  \/ worker[g] = "connect" /\ worker'[g] = "drain" /\ degraded'
  \/ worker[g] = "loop" /\ worker'[g] = "dead" /\ stop[g]
  \/ worker[g] \in {"begin", "insert"} /\ worker'[g] \in Unsettled

Quiet ==
  /\ UNCHANGED <<put, items, unfinished, batch, db, jsonl, dropped>>
  /\ created <= created'
  /\ \A g \in Gen : Moves(g)

MovesAnEvent ==
  \/ \E p \in Producer : PutEvent(p)
  \/ \E g \in Gen : Drain(g) \/ CollectBatch(g) \/ Commit(g)
  \/ \E g \in Gen : GiveUp(g) \/ Export(g) \/ TaskDone(g)

\* All other steps are quiet.
LEMMA QuietSteps ==
  ASSUME Typed, Placed, [Next]_vars
  PROVE  MovesAnEvent \/ Quiet
<1> USE DEF Typed, ThreadsTyped, producerVars, workerVars, queueVars, At, GoTo
<1>1. ASSUME NEW p \in Producer, EnsureQueue(p) PROVE Quiet
  <2>1. CASE current # 0 /\ UNCHANGED worker
    BY <1>1, <2>1 DEF EnsureQueue, Quiet, Moves
  <2>2. CASE /\ current = 0 /\ created < Generations
             /\ worker' = [worker EXCEPT ![created + 1] = "connect"]
    <3>1. created + 1 \in Gen /\ worker[created + 1] = "none"
      BY <2>2, QueueAssumption DEF Gen, Placed
    <3> QED BY <1>1, <2>2, <3>1 DEF EnsureQueue, Quiet, Moves
  <2> QED BY <1>1, <2>1, <2>2 DEF EnsureQueue
<1>2. ASSUME NEW p \in Producer, PutRaises(p) PROVE Quiet
  BY <1>2 DEF PutRaises, Quiet, Moves
<1>3. ASSUME NEW g \in Gen, Connect(g) PROVE Quiet
  BY <1>3 DEF Connect, Quiet, Moves
<1>4. ASSUME NEW g \in Gen, Leave(g) PROVE Quiet
  BY <1>4 DEF Leave, Quiet, Moves
<1>5. ASSUME NEW g \in Gen, Begin(g) PROVE Quiet
  BY <1>5 DEF Begin, Quiet, Moves, Unsettled
<1>6. ASSUME NEW g \in Gen, Locked(g) PROVE Quiet
  BY <1>6 DEF Locked, Quiet, Moves, Unsettled
<1>7. ASSUME NEW g \in Gen, WriteFails(g) PROVE Quiet
  BY <1>7 DEF WriteFails, Quiet, Moves, Unsettled
<1>8. CASE ReadTail \/ ReaderReturns
  BY <1>8 DEF ReadTail, ReaderReturns, Quiet, Moves
<1>9. CASE CloseStarts \/ SetStop \/ ForgetQueue
  BY <1>9 DEF CloseStarts, SetStop, ForgetQueue, Quiet, Moves
<1>10. CASE UNCHANGED vars
  BY <1>10 DEF vars, Quiet, Moves
<1> QED BY <1>1, <1>2, <1>3, <1>4, <1>5, <1>6, <1>7, <1>8, <1>9, <1>10, StepCases
           DEF MovesAnEvent

\* The number of a queue that was made.
LEMMA Made ==
  ASSUME ThreadsTyped, NEW g \in 0 .. created, g # 0
  PROVE  g \in Gen
BY QueueAssumption DEF ThreadsTyped, Gen

LEMMA Makes ==
  ASSUME ThreadsTyped, created < Generations
  PROVE  created + 1 \in Gen /\ created + 1 # 0
BY QueueAssumption DEF ThreadsTyped, Gen

\* The types of the events are kept.
LEMMA EventsTypedNext ==
  ASSUME Typed, Placed, [Next]_vars
  PROVE  EventsTyped'
<1> USE DEF Typed, EventsTyped, producerVars, workerVars, queueVars
<1>1. ASSUME NEW p \in Producer, PutEvent(p) PROVE EventsTyped'
  <2>1. put' \in Event /\ put' \in 0 .. MaxEvents
    BY <1>1, QueueAssumption DEF PutEvent, Event
  <2>2. items' = [items EXCEPT ![holding[p]] = Append(@, put')]
    BY <1>1 DEF PutEvent
  <2>3. holding[p] \in Gen
    <3>1. holding[p] \in 0 .. created /\ holding[p] # 0
      BY <1>1 DEF PutEvent, ThreadsTyped
    <3> QED BY <3>1, Made
  <2>4. Append(items[holding[p]], put') \in Seq(Event)
    BY <2>1, <2>3
  <2>5. items' \in [Gen -> Seq(Event)]
    BY <2>2, <2>3, <2>4
  <2> QED BY <1>1, <2>1, <2>5 DEF PutEvent
<1>2. ASSUME NEW g \in Gen, Drain(g) PROVE EventsTyped'
  <2>1. CASE items[g] # <<>> /\ items' = [items EXCEPT ![g] = Tail(@)]
                             /\ dropped' = dropped \cup {Head(items[g])}
                             /\ unfinished' = [unfinished EXCEPT ![g] = @ - 1]
    <3>1. Head(items[g]) \in Event /\ Tail(items[g]) \in Seq(Event)
      BY <2>1
    <3> QED BY <1>2, <2>1, <3>1 DEF Drain
  <2> QED BY <1>2, <2>1 DEF Drain
<1>3. ASSUME NEW g \in Gen, CollectBatch(g) PROVE EventsTyped'
  <2>1. PICK n \in 1 .. Len(items[g]) :
          /\ batch' = [batch EXCEPT ![g] = SubSeq(items[g], 1, n)]
          /\ items' = [items EXCEPT ![g] = SubSeq(@, n + 1, Len(@))]
    BY <1>3 DEF CollectBatch
  <2>2. /\ SubSeq(items[g], 1, n) \in Seq(Event)
        /\ SubSeq(items[g], n + 1, Len(items[g])) \in Seq(Event)
    BY Cut
  <2>3. items' \in [Gen -> Seq(Event)] /\ batch' \in [Gen -> Seq(Event)]
    BY <2>1, <2>2
  <2> QED BY <1>3, <2>3 DEF CollectBatch
<1>4. ASSUME NEW g \in Gen, Commit(g) PROVE EventsTyped'
  BY <1>4 DEF Commit
<1>5. ASSUME NEW g \in Gen, GiveUp(g) PROVE EventsTyped'
  <2>1. Elements(batch[g]) \subseteq Event
    BY DEF Elements
  <2> QED BY <1>5, <2>1 DEF GiveUp
<1>6. ASSUME NEW g \in Gen, Export(g) PROVE EventsTyped'
  <2>1. jsonl \o batch[g] \in Seq(Event)
    OBVIOUS
  <2>2. jsonl' \in Seq(Event)
    BY <1>6, <2>1 DEF Export
  <2> QED BY <1>6, <2>2 DEF Export
<1>7. ASSUME NEW g \in Gen, TaskDone(g) PROVE EventsTyped'
  BY <1>7 DEF TaskDone
<1>8. CASE Quiet
  BY <1>8 DEF Quiet
<1> QED BY <1>1, <1>2, <1>3, <1>4, <1>5, <1>6, <1>7, <1>8, QuietSteps DEF MovesAnEvent

\* The types of the threads are kept.
LEMMA ThreadsTypedNext ==
  ASSUME Typed, Placed, [Next]_vars
  PROVE  ThreadsTyped'
<1> USE QueueAssumption
    DEF Typed, ThreadsTyped, producerVars, workerVars, queueVars, At, GoTo
<1>0. ASSUME NEW g \in Gen, NEW state \in WorkerState, GoTo(g, state)
      PROVE  worker' \in [Gen -> WorkerState]
  BY <1>0
<1>1. ASSUME NEW p \in Producer, EnsureQueue(p) PROVE ThreadsTyped'
  <2>1. CASE created' = created /\ UNCHANGED <<current, worker>>
                                /\ holding' = [holding EXCEPT ![p] = current]
    BY <1>1, <2>1 DEF EnsureQueue
  <2>2. CASE /\ current = 0 /\ created < Generations
             /\ created' = created + 1 /\ current' = created'
             /\ holding' = [holding EXCEPT ![p] = created']
             /\ worker' = [worker EXCEPT ![created'] = "connect"]
    <3>1. 0 .. created \subseteq 0 .. created'
      BY <2>2
    <3>2. reader' \in [pc : {"idle", "flushing", "fresh"},
                       gen : 0 .. created', asked : SUBSET Event]
      BY <1>1, <3>1 DEF EnsureQueue
    <3>3. closer' \in [pc : {"idle", "flushing", "joining", "closed"},
                       gen : 0 .. created']
      BY <1>1, <3>1 DEF EnsureQueue
    <3>4. holding' \in [Producer -> 0 .. created']
      BY <2>2, <3>1
    <3>5. worker' \in [Gen -> WorkerState]
      BY <2>2 DEF WorkerState
    <3> QED BY <1>1, <2>2, <3>2, <3>3, <3>4, <3>5 DEF EnsureQueue
  <2> QED BY <1>1, <2>1, <2>2 DEF EnsureQueue
<1>2. ASSUME NEW p \in Producer, PutEvent(p) PROVE ThreadsTyped'
  BY <1>2 DEF PutEvent
<1>3. ASSUME NEW p \in Producer, PutRaises(p) PROVE ThreadsTyped'
  BY <1>3 DEF PutRaises
<1>4. ASSUME NEW g \in Gen, Connect(g) \/ Drain(g) PROVE ThreadsTyped'
  <2>1. worker' \in [Gen -> WorkerState] /\ degraded' \in BOOLEAN
    BY <1>0, <1>4 DEF Connect, Drain, WorkerState
  <2>2. UNCHANGED <<current, created, holding, stop, attempt, reader, closer>>
    BY <1>4 DEF Connect, Drain
  <2> QED BY <2>1, <2>2
<1>5. ASSUME NEW g \in Gen, CollectBatch(g) \/ Leave(g) \/ Begin(g) \/ Commit(g)
      PROVE  ThreadsTyped'
  <2>1. worker' \in [Gen -> WorkerState]
    BY <1>0, <1>5 DEF CollectBatch, Leave, Begin, Commit, WorkerState
  <2>2. UNCHANGED <<current, created, holding, stop, attempt, degraded, reader, closer>>
    BY <1>5 DEF CollectBatch, Leave, Begin, Commit
  <2> QED BY <2>1, <2>2
<1>6. ASSUME NEW g \in Gen, Locked(g) PROVE ThreadsTyped'
  <2>1. attempt[g] < Attempts
    BY <1>6 DEF Locked, Placed
  <2>2. attempt' \in [Gen -> 0 .. Attempts]
    BY <1>6, <2>1 DEF Locked
  <2>3. worker' \in [Gen -> WorkerState]
    BY <1>0, <1>6 DEF Locked, WorkerState
  <2> QED BY <1>6, <2>2, <2>3 DEF Locked
<1>7. ASSUME NEW g \in Gen, WriteFails(g) \/ GiveUp(g) \/ Export(g)
      PROVE  ThreadsTyped'
  <2>1. worker' \in [Gen -> WorkerState] /\ degraded' \in BOOLEAN
    BY <1>0, <1>7 DEF WriteFails, GiveUp, Export, WorkerState
  <2>2. UNCHANGED <<current, created, holding, stop, attempt, reader, closer>>
    BY <1>7 DEF WriteFails, GiveUp, Export
  <2> QED BY <2>1, <2>2
<1>8. ASSUME NEW g \in Gen, TaskDone(g) PROVE ThreadsTyped'
  <2>1. worker' \in [Gen -> WorkerState]
    BY <1>0, <1>8 DEF TaskDone, WorkerState
  <2>2. attempt' \in [Gen -> 0 .. Attempts]
    BY <1>8 DEF TaskDone
  <2>3. UNCHANGED <<current, created, holding, stop, degraded, reader, closer>>
    BY <1>8 DEF TaskDone
  <2> QED BY <2>1, <2>2, <2>3
<1>9. CASE ReadTail
  <2>1. 1 .. put \in SUBSET Event
    BY QueueAssumption DEF EventsTyped, Event
  <2>2. reader' = [pc |-> IF current = 0 THEN "fresh" ELSE "flushing",
                   gen |-> current, asked |-> 1 .. put]
    BY <1>9 DEF ReadTail
  <2> QED BY <1>9, <2>1, <2>2 DEF ReadTail
<1>10. CASE ReaderReturns
  BY <1>10 DEF ReaderReturns, NotReading
<1>11. CASE CloseStarts
  BY <1>11 DEF CloseStarts
<1>12. CASE SetStop
  BY <1>12 DEF SetStop
<1>13. CASE ForgetQueue
  BY <1>13 DEF ForgetQueue
<1>14. CASE UNCHANGED vars
  BY <1>14 DEF vars
<1> QED BY <1>1, <1>2, <1>3, <1>4, <1>5, <1>6, <1>7, <1>8, <1>9, <1>10, <1>11, <1>12,
           <1>13, <1>14, StepCases

LEMMA TypedNext ==
  ASSUME Typed, Placed, [Next]_vars
  PROVE  Typed'
BY EventsTypedNext, ThreadsTypedNext DEF Typed

\* The threads stay where the invariant places them.
LEMMA PlacedNext ==
  ASSUME Typed, Placed, [Next]_vars
  PROVE  Placed'
<1>0. created < Generations => created + 1 \in Gen /\ created + 1 # 0
  BY Makes DEF Typed
<1> USE QueueAssumption
    DEF Typed, ThreadsTyped, Placed, producerVars, workerVars, queueVars, At, GoTo
<1>1. ASSUME NEW p \in Producer, EnsureQueue(p) PROVE Placed'
  <2>1. CASE created' = created /\ UNCHANGED <<current, worker>>
    BY <1>1, <2>1 DEF EnsureQueue
  <2>2. CASE /\ current = 0 /\ created < Generations
             /\ created' = created + 1 /\ current' = created'
             /\ worker' = [worker EXCEPT ![created'] = "connect"]
    <3>0. \A g \in 1 .. created' : g # created' => g \in 1 .. created
      BY <2>2
    <3>1. created' \in Gen /\ created' # 0
      BY <1>0, <2>2
    <3>2. worker[created'] = "none"
      BY <3>1, <2>2
    <3>3. UNCHANGED <<attempt, reader, closer>>
      BY <1>1 DEF EnsureQueue
    <3>4. \A g \in Gen : worker'[g] = IF g = created' THEN "connect" ELSE worker[g]
      BY <2>2, <3>1
    <3>5. \A g \in Gen : worker'[g] = "none" <=> g > created'
      BY <2>2, <3>2, <3>4 DEF Gen
    <3>6. attempt[created'] = 0
      BY <3>1, <3>2
    <3>7. closer.pc \notin {"flushing", "joining"}
      BY <2>2
    <3>8. \A g \in 1 .. created' :
            g # current' => closer'.pc = "closed" /\ g = closer'.gen
      BY <2>2, <3>0, <3>3
    <3> QED BY <3>3, <3>4, <3>5, <3>6, <3>7, <3>8
  <2> QED BY <1>1, <2>1, <2>2 DEF EnsureQueue
<1>2. ASSUME NEW p \in Producer, PutEvent(p) \/ PutRaises(p) PROVE Placed'
  BY <1>2 DEF PutEvent, PutRaises
<1>3. ASSUME NEW g \in Gen, Connect(g) PROVE Placed'
  BY <1>3 DEF Connect
<1>4. ASSUME NEW g \in Gen, Drain(g) PROVE Placed'
  BY <1>4 DEF Drain
<1>5. ASSUME NEW g \in Gen, CollectBatch(g) PROVE Placed'
  BY <1>5 DEF CollectBatch
<1>6. ASSUME NEW g \in Gen, Leave(g) \/ Begin(g) \/ Commit(g) PROVE Placed'
  BY <1>6 DEF Leave, Begin, Commit
<1>7. ASSUME NEW g \in Gen, Locked(g) PROVE Placed'
  BY <1>7 DEF Locked
<1>8. ASSUME NEW g \in Gen, WriteFails(g) \/ GiveUp(g) PROVE Placed'
  BY <1>8 DEF WriteFails, GiveUp
<1>9. ASSUME NEW g \in Gen, Export(g) PROVE Placed'
  BY <1>9 DEF Export
<1>10. ASSUME NEW g \in Gen, TaskDone(g) PROVE Placed'
  BY <1>10 DEF TaskDone
<1>11. CASE ReadTail
  BY <1>11 DEF ReadTail
<1>12. CASE ReaderReturns
  BY <1>12 DEF ReaderReturns, NotReading
<1>13. CASE CloseStarts \/ SetStop \/ ForgetQueue
  BY <1>13 DEF CloseStarts, SetStop, ForgetQueue
<1>14. CASE UNCHANGED vars
  BY <1>14 DEF vars
<1> QED BY <1>1, <1>2, <1>3, <1>4, <1>5, <1>6, <1>7, <1>8, <1>9, <1>10, <1>11, <1>12,
           <1>13, <1>14, StepCases

-----------------------------------------------------------------------------
(* What the steps that move events do to the places the events are in.     *)

\* A put adds the next event to a queue that was made.
LEMMA PutEffect ==
  ASSUME Typed, Placed, Counted, NEW p \in Producer, PutEvent(p)
  PROVE  \E h \in Gen :
           /\ worker[h] # "none"
           /\ put' = put + 1 /\ put' \in Event
           /\ items'[h] = Append(items[h], put')
           /\ Elements(items'[h]) = Elements(items[h]) \cup {put'}
           /\ Len(items'[h]) = Len(items[h]) + 1
           /\ unfinished'[h] = unfinished[h] + 1
           /\ \A g \in Gen \ {h} : items'[g] = items[g] /\ unfinished'[g] = unfinished[g]
           /\ UNCHANGED <<batch, db, jsonl, dropped, worker, created>>
<1> USE DEF Typed, ThreadsTyped, EventsTyped
<1> DEFINE h == holding[p]
<1>1. h \in 0 .. created /\ h # 0
  BY DEF PutEvent
<1>2. h \in Gen
  BY <1>1, Made
<1>3. worker[h] # "none"
  BY <1>1, <1>2 DEF Placed, Gen
<1>4. put' = put + 1 /\ put' \in Event
  BY QueueAssumption DEF PutEvent, Event
<1>5. items[h] \in Seq(Event)
  BY <1>2
<1>6. items'[h] = Append(items[h], put')
  BY <1>2 DEF PutEvent
<1>7. Elements(items'[h]) = Elements(items[h]) \cup {put'}
  BY <1>4, <1>5, <1>6, ElementsAppend
<1>8. Len(items'[h]) = Len(items[h]) + 1
  BY <1>4, <1>5, <1>6
<1>9. unfinished'[h] = unfinished[h] + 1
  BY <1>2 DEF PutEvent
<1>10. \A g \in Gen \ {h} : items'[g] = items[g] /\ unfinished'[g] = unfinished[g]
  BY <1>2 DEF PutEvent
<1>11. UNCHANGED <<batch, db, jsonl, dropped, worker, created>>
  BY DEF PutEvent, workerVars
<1> QED BY <1>2, <1>3, <1>4, <1>6, <1>7, <1>8, <1>9, <1>10, <1>11

\* Draining gives one event up after the other, and ends with an empty queue.
LEMMA DrainEffect ==
  ASSUME Typed, Sorted, NEW g \in Gen, Drain(g)
  PROVE  /\ UNCHANGED <<put, batch, db, jsonl, created>>
         /\ worker[g] = "drain"
         /\ \A h \in Gen \ {g} : /\ items'[h] = items[h] /\ worker'[h] = worker[h]
                                 /\ unfinished'[h] = unfinished[h]
         /\ \/ /\ UNCHANGED <<items, unfinished, dropped>>
               /\ items[g] = <<>> /\ worker'[g] = "dead"
            \/ /\ UNCHANGED worker
               /\ \E e \in Event :
                    /\ Elements(items[g]) = {e} \cup Elements(items'[g])
                    /\ e \notin Elements(items'[g])
                    /\ dropped' = dropped \cup {e}
               /\ Increasing(items'[g])
               /\ Len(items'[g]) = Len(items[g]) - 1
               /\ unfinished'[g] = unfinished[g] - 1
<1> USE DEF Typed, ThreadsTyped, EventsTyped
<1>1. /\ UNCHANGED <<put, batch, db, jsonl, created>> /\ worker[g] = "drain"
  BY DEF Drain, producerVars, At
<1>2. CASE /\ items[g] # <<>> /\ items' = [items EXCEPT ![g] = Tail(@)]
           /\ unfinished' = [unfinished EXCEPT ![g] = @ - 1]
           /\ dropped' = dropped \cup {Head(items[g])} /\ UNCHANGED worker
  <2>1. items'[g] = Tail(items[g])
    BY <1>2
  <2>2. items[g] \in Seq(Event) /\ Increasing(items[g])
    BY DEF Sorted
  <2>3. /\ Head(items[g]) \in Event
        /\ Elements(items[g]) = {Head(items[g])} \cup Elements(items'[g])
        /\ Head(items[g]) \notin Elements(items'[g])
        /\ Increasing(items'[g]) /\ Len(items'[g]) = Len(items[g]) - 1
    BY <1>2, <2>1, <2>2, HeadAndTail
  <2>4. unfinished'[g] = unfinished[g] - 1
    BY <1>2
  <2>5. \A h \in Gen \ {g} : /\ items'[h] = items[h] /\ worker'[h] = worker[h]
                             /\ unfinished'[h] = unfinished[h]
    BY <1>2
  <2> QED BY <1>1, <1>2, <2>3, <2>4, <2>5
<1>3. CASE items[g] = <<>> /\ GoTo(g, "dead") /\ UNCHANGED <<items, unfinished, dropped>>
  BY <1>1, <1>3 DEF GoTo
<1> QED BY <1>2, <1>3 DEF Drain

\* A batch takes the first items of the queue.
LEMMA CollectEffect ==
  ASSUME Typed, Filled, Sorted, NEW g \in Gen, CollectBatch(g)
  PROVE  /\ UNCHANGED <<put, unfinished, db, jsonl, dropped, created>>
         /\ worker[g] = "loop" /\ worker'[g] = "begin"
         /\ batch[g] = <<>> /\ batch'[g] # <<>>
         /\ Elements(items[g]) = Elements(batch'[g]) \cup Elements(items'[g])
         /\ Increasing(batch'[g]) /\ Increasing(items'[g])
         /\ Before(Elements(batch'[g]), Elements(items'[g]))
         /\ Len(items'[g]) + Len(batch'[g]) = Len(items[g])
         /\ \A h \in Gen \ {g} : /\ items'[h] = items[h] /\ batch'[h] = batch[h]
                                 /\ worker'[h] = worker[h]
<1> USE DEF Typed, ThreadsTyped, EventsTyped
<1>1. /\ UNCHANGED <<put, unfinished, db, jsonl, dropped, created>>
      /\ worker[g] = "loop" /\ worker' = [worker EXCEPT ![g] = "begin"]
  BY DEF CollectBatch, producerVars, At, GoTo
<1>2. batch[g] = <<>>
  BY <1>1 DEF Filled, Busy, Unsettled
<1>3. PICK n \in 1 .. Len(items[g]) :
        /\ batch' = [batch EXCEPT ![g] = SubSeq(items[g], 1, n)]
        /\ items' = [items EXCEPT ![g] = SubSeq(@, n + 1, Len(@))]
  BY DEF CollectBatch
<1>4. items[g] \in Seq(Event) /\ Increasing(items[g])
  BY DEF Sorted
<1>5. n \in 0 .. Len(items[g]) /\ n > 0
  BY <1>3, <1>4
<1>6. /\ batch'[g] = SubSeq(items[g], 1, n)
      /\ items'[g] = SubSeq(items[g], n + 1, Len(items[g]))
  BY <1>3
<1>7. /\ batch'[g] \in Seq(Event) /\ items'[g] \in Seq(Event)
      /\ Len(batch'[g]) = n /\ Len(items'[g]) = Len(items[g]) - n
      /\ \A i \in 1 .. n : batch'[g][i] = items[g][i]
      /\ \A i \in 1 .. Len(items[g]) - n : items'[g][i] = items[g][n + i]
  BY <1>4, <1>5, <1>6, Cut
<1>8. /\ Elements(items[g]) = Elements(batch'[g]) \cup Elements(items'[g])
      /\ Increasing(batch'[g]) /\ Increasing(items'[g])
      /\ Before(Elements(batch'[g]), Elements(items'[g]))
  BY <1>4, <1>5, <1>6, CutParts
<1>9. batch'[g] # <<>> /\ Len(items'[g]) + Len(batch'[g]) = Len(items[g])
  BY <1>4, <1>5, <1>7
<1>10. \A h \in Gen \ {g} : /\ items'[h] = items[h] /\ batch'[h] = batch[h]
                            /\ worker'[h] = worker[h]
  BY <1>1, <1>3
<1> QED BY <1>1, <1>2, <1>8, <1>9, <1>10

\* A commit adds the rows of the batch to the table.
LEMMA CommitEffect ==
  ASSUME Typed, NEW g \in Gen, Commit(g)
  PROVE  /\ UNCHANGED <<put, items, unfinished, batch, jsonl, dropped, created>>
         /\ worker[g] = "insert" /\ worker'[g] = "export"
         /\ \A h \in Gen \ {g} : worker'[h] = worker[h]
         /\ db' = db \o batch[g]
         /\ Elements(db') = Elements(db) \cup Elements(batch[g])
<1>1. db \in Seq(Event) /\ batch[g] \in Seq(Event) /\ worker \in [Gen -> WorkerState]
  BY DEF Typed, EventsTyped, ThreadsTyped
<1>2. Elements(db \o batch[g]) = Elements(db) \cup Elements(batch[g])
  BY <1>1, ElementsConcat
<1> QED BY <1>1, <1>2 DEF Commit, producerVars, queueVars, At, GoTo

\* Giving a batch up, exporting it and being done with it.
LEMMA OtherEffects ==
  ASSUME Typed, NEW g \in Gen, GiveUp(g) \/ Export(g) \/ TaskDone(g)
  PROVE  /\ UNCHANGED <<put, items, db, created>>
         /\ \A h \in Gen \ {g} : worker'[h] = worker[h]
         /\ \/ /\ worker[g] = "give_up" /\ worker'[g] = "task_done"
               /\ dropped' = dropped \cup Elements(batch[g]) /\ degraded' = TRUE
               /\ UNCHANGED <<batch, unfinished, jsonl>>
            \/ /\ worker[g] = "export" /\ worker'[g] = "task_done"
               /\ \/ UNCHANGED jsonl
                  \/ /\ jsonl' = jsonl \o batch[g]
                     /\ Elements(jsonl') = Elements(jsonl) \cup Elements(batch[g])
               /\ UNCHANGED <<batch, unfinished, dropped, degraded>>
            \/ /\ worker[g] = "task_done" /\ worker'[g] = "loop"
               /\ batch'[g] = <<>> /\ unfinished'[g] = unfinished[g] - Len(batch[g])
               /\ \A h \in Gen \ {g} :
                    batch'[h] = batch[h] /\ unfinished'[h] = unfinished[h]
               /\ UNCHANGED <<jsonl, dropped, degraded>>
<1> USE DEF producerVars, queueVars, At, GoTo
<1>1. /\ jsonl \in Seq(Event) /\ batch \in [Gen -> Seq(Event)]
      /\ batch[g] \in Seq(Event) /\ worker \in [Gen -> WorkerState]
      /\ unfinished \in [Gen -> Int]
  BY DEF Typed, EventsTyped, ThreadsTyped
<1>2. CASE GiveUp(g)
  BY <1>1, <1>2 DEF GiveUp
<1>3. CASE Export(g)
  <2>1. Elements(jsonl \o batch[g]) = Elements(jsonl) \cup Elements(batch[g])
    BY <1>1, ElementsConcat
  <2> QED BY <1>1, <1>3, <2>1 DEF Export
<1>4. CASE TaskDone(g)
  BY <1>1, <1>4 DEF TaskDone
<1> QED BY <1>2, <1>3, <1>4

-----------------------------------------------------------------------------
(* The parts of the invariant, one after the other.                        *)

LEMMA FilledNext ==
  ASSUME Typed, Placed, Filled, Sorted, Counted, [Next]_vars
  PROVE  Filled'
<1> USE DEF Filled, Busy, Unsettled
<1>1. ASSUME NEW p \in Producer, PutEvent(p) PROVE Filled'
  <2>1. PICK h \in Gen : /\ worker[h] # "none"
                         /\ \A g \in Gen \ {h} : items'[g] = items[g]
                         /\ UNCHANGED <<batch, worker>>
    BY <1>1, PutEffect
  <2> QED BY <2>1
<1>2. ASSUME NEW g \in Gen, Drain(g) PROVE Filled'
  <2>1. /\ UNCHANGED batch /\ worker[g] = "drain" /\ worker'[g] \in {"drain", "dead"}
        /\ \A h \in Gen \ {g} : items'[h] = items[h] /\ worker'[h] = worker[h]
    BY <1>2, DrainEffect
  <2> QED BY <2>1
<1>3. ASSUME NEW g \in Gen, CollectBatch(g) PROVE Filled'
  BY <1>3, CollectEffect
<1>4. ASSUME NEW g \in Gen, Commit(g) PROVE Filled'
  BY <1>4, CommitEffect
<1>5. ASSUME NEW g \in Gen, GiveUp(g) \/ Export(g) \/ TaskDone(g) PROVE Filled'
  BY <1>5, OtherEffects
<1>6. CASE Quiet
  BY <1>6 DEF Quiet, Moves
<1> QED BY <1>1, <1>2, <1>3, <1>4, <1>5, <1>6, QuietSteps DEF MovesAnEvent

LEMMA SortedNext ==
  ASSUME Typed, Placed, Filled, Sorted, Counted, Apart, [Next]_vars
  PROVE  Sorted'
<1>0. ASSUME NEW g \in Gen, UNCHANGED <<items[g], batch[g]>>
      PROVE  /\ Increasing(items[g])' /\ Increasing(batch[g])'
             /\ Before(Elements(batch[g]), Elements(items[g]))'
  BY <1>0 DEF Sorted, Increasing, Before, Elements
<1>1. ASSUME NEW p \in Producer, PutEvent(p) PROVE Sorted'
  <2>1. PICK h \in Gen :
          /\ put' = put + 1 /\ put' \in Event
          /\ items'[h] = Append(items[h], put')
          /\ Elements(items'[h]) = Elements(items[h]) \cup {put'}
          /\ \A g \in Gen \ {h} : items'[g] = items[g]
          /\ UNCHANGED batch
    BY <1>1, PutEffect
  <2>2. Waiting(h) \subseteq 1 .. put
    BY DEF Apart
  <2>3. items[h] \in Seq(Event) /\ Increasing(items[h])
    BY DEF Typed, EventsTyped, Sorted
  <2>4. Increasing(items'[h])
    <3>1. \A x \in Elements(items[h]) : x < put'
      BY <2>1, <2>2 DEF Waiting, EventsTyped, Typed
    <3> QED BY <2>1, <2>3, <3>1, IncreasingAppend
  <2>5. Before(Elements(batch'[h]), Elements(items'[h]))
    <3>1. \A x \in Elements(batch[h]) : x < put'
      BY <2>1, <2>2 DEF Waiting, EventsTyped, Typed
    <3> QED BY <2>1, <3>1 DEF Sorted, Before
  <2>6. Increasing(batch'[h])
    BY <2>1 DEF Sorted
  <2> QED BY <1>0, <2>1, <2>4, <2>5, <2>6 DEF Sorted
<1>2. ASSUME NEW g \in Gen, Drain(g) PROVE Sorted'
  <2>1. UNCHANGED batch /\ \A h \in Gen \ {g} : items'[h] = items[h]
    BY <1>2, DrainEffect
  <2>2. /\ Increasing(items'[g])
        /\ Elements(items'[g]) \subseteq Elements(items[g])
    BY <1>2, DrainEffect DEF Sorted
  <2>3. Increasing(batch'[g]) /\ Before(Elements(batch'[g]), Elements(items'[g]))
    BY <2>1, <2>2 DEF Sorted, Before
  <2> QED BY <1>0, <2>1, <2>2, <2>3 DEF Sorted
<1>3. ASSUME NEW g \in Gen, CollectBatch(g) PROVE Sorted'
  BY <1>0, <1>3, CollectEffect DEF Sorted
<1>4. ASSUME NEW g \in Gen, Commit(g) PROVE Sorted'
  BY <1>0, <1>4, CommitEffect DEF Sorted
<1>5. ASSUME NEW g \in Gen, GiveUp(g) \/ Export(g) \/ TaskDone(g) PROVE Sorted'
  <2>1. UNCHANGED items /\ \A h \in Gen \ {g} : batch'[h] = batch[h]
    BY <1>5, OtherEffects
  <2>2. batch'[g] = batch[g] \/ batch'[g] = <<>>
    BY <1>5, OtherEffects
  <2>3. CASE batch'[g] = <<>>
    <3>1. Increasing(batch'[g]) /\ Before(Elements(batch'[g]), Elements(items'[g]))
      BY <2>3 DEF Increasing, Before, Elements
    <3>2. Increasing(items'[g])
      BY <2>1 DEF Sorted
    <3> QED BY <1>0, <2>1, <3>1, <3>2 DEF Sorted
  <2> QED BY <1>0, <2>1, <2>2, <2>3 DEF Sorted
<1>6. CASE Quiet
  BY <1>0, <1>6 DEF Quiet, Sorted
<1> QED BY <1>1, <1>2, <1>3, <1>4, <1>5, <1>6, QuietSteps DEF MovesAnEvent

LEMMA CountedNext ==
  ASSUME Typed, Placed, Filled, Sorted, Counted, [Next]_vars
  PROVE  Counted'
<1>0. /\ items \in [Gen -> Seq(Event)] /\ items' \in [Gen -> Seq(Event)]
      /\ batch \in [Gen -> Seq(Event)] /\ batch' \in [Gen -> Seq(Event)]
      /\ unfinished \in [Gen -> Int] /\ unfinished' \in [Gen -> Int]
  BY EventsTypedNext DEF Typed, EventsTyped
<1>1. ASSUME NEW p \in Producer, PutEvent(p) PROVE Counted'
  <2>1. PICK h \in Gen :
          /\ Len(items'[h]) = Len(items[h]) + 1
          /\ unfinished'[h] = unfinished[h] + 1
          /\ \A g \in Gen \ {h} : items'[g] = items[g] /\ unfinished'[g] = unfinished[g]
          /\ UNCHANGED batch
    BY <1>1, PutEffect
  <2> SUFFICES ASSUME NEW g \in Gen
               PROVE  unfinished'[g] = Len(items'[g]) + Len(batch'[g])
    BY DEF Counted
  <2>2. unfinished[g] = Len(items[g]) + Len(batch[g]) /\ batch'[g] = batch[g]
    BY <2>1 DEF Counted
  <2>3. CASE g = h
    BY <1>0, <2>1, <2>2, <2>3
  <2>4. CASE g # h
    BY <2>1, <2>2, <2>4
  <2> QED BY <2>3, <2>4
<1>2. ASSUME NEW g \in Gen, Drain(g) PROVE Counted'
  <2>1. /\ UNCHANGED batch
        /\ \A h \in Gen \ {g} : items'[h] = items[h] /\ unfinished'[h] = unfinished[h]
        /\ \/ UNCHANGED <<items, unfinished>>
           \/ /\ Len(items'[g]) = Len(items[g]) - 1
              /\ unfinished'[g] = unfinished[g] - 1
    BY <1>2, DrainEffect
  <2> SUFFICES ASSUME NEW h \in Gen
               PROVE  unfinished'[h] = Len(items'[h]) + Len(batch'[h])
    BY DEF Counted
  <2>2. unfinished[h] = Len(items[h]) + Len(batch[h])
    BY DEF Counted
  <2>3. CASE g = h
    <3>1. CASE UNCHANGED <<items, unfinished>>
      BY <2>1, <2>2, <3>1
    <3>2. CASE /\ Len(items'[h]) = Len(items[h]) - 1
               /\ unfinished'[h] = unfinished[h] - 1
      BY <1>0, <2>1, <2>2, <3>2
    <3> QED BY <2>1, <2>3, <3>1, <3>2
  <2>4. CASE g # h
    BY <2>1, <2>2, <2>4
  <2> QED BY <2>3, <2>4
<1>3. ASSUME NEW g \in Gen, CollectBatch(g) PROVE Counted'
  <2>1. /\ UNCHANGED unfinished /\ batch[g] = <<>>
        /\ Len(items'[g]) + Len(batch'[g]) = Len(items[g])
        /\ \A h \in Gen \ {g} : items'[h] = items[h] /\ batch'[h] = batch[h]
    BY <1>3, CollectEffect
  <2> SUFFICES ASSUME NEW h \in Gen
               PROVE  unfinished'[h] = Len(items'[h]) + Len(batch'[h])
    BY DEF Counted
  <2>2. unfinished[h] = Len(items[h]) + Len(batch[h])
    BY DEF Counted
  <2>3. CASE g = h
    BY <1>0, <2>1, <2>2, <2>3
  <2>4. CASE g # h
    BY <2>1, <2>2, <2>4
  <2> QED BY <2>3, <2>4
<1>4. ASSUME NEW g \in Gen, Commit(g) PROVE Counted'
  BY <1>4, CommitEffect DEF Counted
<1>5. ASSUME NEW g \in Gen, GiveUp(g) \/ Export(g) \/ TaskDone(g) PROVE Counted'
  <2>1. /\ UNCHANGED items
        /\ \/ UNCHANGED <<batch, unfinished>>
           \/ /\ batch'[g] = <<>> /\ unfinished'[g] = unfinished[g] - Len(batch[g])
              /\ \A h \in Gen \ {g} :
                   batch'[h] = batch[h] /\ unfinished'[h] = unfinished[h]
    BY <1>5, OtherEffects
  <2> SUFFICES ASSUME NEW h \in Gen
               PROVE  unfinished'[h] = Len(items'[h]) + Len(batch'[h])
    BY DEF Counted
  <2>2. unfinished[h] = Len(items[h]) + Len(batch[h])
    BY DEF Counted
  <2>3. CASE g = h
    <3>1. CASE UNCHANGED <<batch, unfinished>>
      BY <2>1, <2>2, <3>1
    <3>2. CASE batch'[h] = <<>> /\ unfinished'[h] = unfinished[h] - Len(batch[h])
      <4>1. Len(batch'[h]) = 0 /\ unfinished'[h] = Len(items'[h])
        BY <1>0, <2>1, <2>2, <3>2
      <4> QED BY <1>0, <4>1
    <3> QED BY <2>1, <2>3, <3>1, <3>2
  <2>4. CASE g # h
    BY <2>1, <2>2, <2>4
  <2> QED BY <2>3, <2>4
<1>6. CASE Quiet
  BY <1>6 DEF Quiet, Counted
<1> QED BY <1>1, <1>2, <1>3, <1>4, <1>5, <1>6, QuietSteps DEF MovesAnEvent

\* A batch and the rest of its queue have no event in common.
LEMMA BatchApart ==
  ASSUME Typed, Sorted, NEW g \in Gen
  PROVE  Elements(batch[g]) \cap Elements(items[g]) = {}
<1>1. Elements(items[g]) \subseteq Event
  BY DEF Typed, EventsTyped, Elements
<1>2. \A x \in Event : ~(x < x)
  BY QueueAssumption DEF Event
<1> QED BY <1>1, <1>2 DEF Sorted, Before

LEMMA ApartNext ==
  ASSUME Typed, Placed, Filled, Sorted, Counted, Apart, [Next]_vars
  PROVE  Apart'
<1> USE DEF Waiting, Stored
<1>0. put \in Nat
  BY DEF Typed, EventsTyped
<1>1. ASSUME NEW p \in Producer, PutEvent(p) PROVE Apart'
  <2>1. PICK h \in Gen :
          /\ put' = put + 1
          /\ Elements(items'[h]) = Elements(items[h]) \cup {put'}
          /\ \A g \in Gen \ {h} : items'[g] = items[g]
          /\ UNCHANGED <<batch, db, dropped, worker>>
    BY <1>1, PutEffect
  <2>2. 1 .. put' = 1 .. put \cup {put'} /\ put' \notin 1 .. put
    BY <1>0, <2>1
  <2>3. \A g \in Gen : Waiting(g)' \subseteq Waiting(g) \cup (IF g = h THEN {put'} ELSE {})
    BY <2>1
  <2>4. \A g \in Gen : Elements(items'[g]) \subseteq Elements(items[g]) \cup {put'}
    BY <2>1
  <2>5. /\ \A g \in Gen : Waiting(g)' \subseteq 1 .. put'
        /\ (Stored \cup dropped)' \subseteq 1 .. put'
    BY <2>1, <2>2, <2>3 DEF Apart
  <2>6. \A g, k \in Gen : g # k => Waiting(g)' \cap Waiting(k)' = {}
    <3> SUFFICES ASSUME NEW g \in Gen, NEW k \in Gen, g # k
                 PROVE  Waiting(g)' \cap Waiting(k)' = {}
      OBVIOUS
    <3>1. Waiting(g) \cap Waiting(k) = {} /\ put' \notin Waiting(g) \cup Waiting(k)
      BY <2>2 DEF Apart
    <3> HIDE DEF Waiting
    <3> QED BY <2>3, <3>1
  <2>7. \A g \in Gen : Elements(items'[g]) \cap (Stored \cup dropped) = {}
    BY <2>2, <2>4 DEF Apart
  <2> QED BY <2>1, <2>5, <2>6, <2>7 DEF Apart
<1>2. ASSUME NEW g \in Gen, Drain(g) PROVE Apart'
  <2>1. /\ UNCHANGED <<put, batch, db>> /\ worker[g] = "drain"
        /\ worker'[g] \in {"drain", "dead"}
        /\ \A h \in Gen \ {g} : items'[h] = items[h] /\ worker'[h] = worker[h]
    BY <1>2, DrainEffect
  <2>2. CASE UNCHANGED <<items, dropped>>
    BY <2>1, <2>2 DEF Apart, Unsettled
  <2>3. CASE \E e \in Event : /\ Elements(items[g]) = {e} \cup Elements(items'[g])
                              /\ e \notin Elements(items'[g])
                              /\ dropped' = dropped \cup {e}
    <3>1. PICK e \in Event : /\ Elements(items[g]) = {e} \cup Elements(items'[g])
                             /\ e \notin Elements(items'[g])
                             /\ dropped' = dropped \cup {e}
      BY <2>3
    <3>2. /\ \A h \in Gen : Elements(items'[h]) \subseteq Elements(items[h])
          /\ \A h \in Gen : e \notin Elements(items'[h])
          /\ \A h \in Gen \ {g} : e \notin Elements(batch[h])
          /\ e \notin Stored /\ e \in 1 .. put
      BY <2>1, <3>1 DEF Apart
    <3>3. \A h \in Gen : worker'[h] \in Unsettled => h # g /\ worker[h] \in Unsettled
      BY <2>1 DEF Unsettled
    <3>4. \A h \in Gen : Waiting(h)' \subseteq Waiting(h)
      BY <2>1, <3>2
    <3>5. \A h \in Gen : Elements(items'[h]) \cap (Stored \cup dropped') = {}
      BY <3>1, <3>2 DEF Apart
    <3>6. \A h \in Gen : worker'[h] \in Unsettled
                           => Elements(batch[h]) \cap (Stored \cup dropped') = {}
      BY <3>1, <3>2, <3>3 DEF Apart
    <3>7. Stored \cap dropped' = {} /\ Stored \cup dropped' \subseteq 1 .. put
      BY <3>1, <3>2 DEF Apart
    <3> QED BY <2>1, <3>4, <3>5, <3>6, <3>7 DEF Apart
  <2> QED BY <1>2, <2>2, <2>3, DrainEffect
<1>3. ASSUME NEW g \in Gen, CollectBatch(g) PROVE Apart'
  <2>1. /\ UNCHANGED <<put, db, dropped>> /\ batch[g] = <<>>
        /\ Elements(items[g]) = Elements(batch'[g]) \cup Elements(items'[g])
        /\ \A h \in Gen \ {g} : /\ items'[h] = items[h] /\ batch'[h] = batch[h]
                                /\ worker'[h] = worker[h]
    BY <1>3, CollectEffect
  <2>2. \A h \in Gen : Waiting(h)' \subseteq Waiting(h)
    BY <2>1
  <2>3. \A h \in Gen : Elements(items'[h]) \subseteq Elements(items[h])
    BY <2>1
  <2>4. Elements(batch'[g]) \cap (Stored \cup dropped) = {}
    BY <2>1 DEF Apart
  <2> QED BY <2>1, <2>2, <2>3, <2>4 DEF Apart
<1>4. ASSUME NEW g \in Gen, Commit(g) PROVE Apart'
  <2>1. /\ UNCHANGED <<put, items, batch, dropped>>
        /\ worker[g] = "insert" /\ worker'[g] = "export"
        /\ \A h \in Gen \ {g} : worker'[h] = worker[h]
        /\ db' = db \o batch[g]
        /\ Elements(db') = Elements(db) \cup Elements(batch[g])
    BY <1>4, CommitEffect
  <2>2. Elements(batch[g]) \cap (Stored \cup dropped) = {}
    BY <2>1 DEF Apart, Unsettled
  <2>3. \A h \in Gen : Elements(items[h]) \cap Elements(batch[g]) = {}
    BY BatchApart DEF Apart
  <2>4. \A h \in Gen \ {g} : Elements(batch[h]) \cap Elements(batch[g]) = {}
    BY DEF Apart
  <2>5. \A h \in Gen : worker'[h] \in Unsettled => h # g /\ worker[h] \in Unsettled
    BY <2>1 DEF Unsettled
  <2>6. Distinct(db')
    <3>1. db \in Seq(Event) /\ batch[g] \in Seq(Event)
      BY DEF Typed, EventsTyped
    <3>2. Distinct(db) /\ Distinct(batch[g])
      BY <3>1, IncreasingDistinct DEF Apart, Sorted
    <3>3. Elements(db) \cap Elements(batch[g]) = {}
      BY <2>2
    <3> QED BY <2>1, <3>1, <3>2, <3>3, DistinctConcat
  <2>7. Elements(batch[g]) \subseteq 1 .. put
    BY DEF Apart
  <2>8. \A h \in Gen : Elements(items[h]) \cap (Stored' \cup dropped) = {}
    BY <2>1, <2>3 DEF Apart
  <2>9. \A h \in Gen : worker'[h] \in Unsettled
                         => Elements(batch[h]) \cap (Stored' \cup dropped) = {}
    BY <2>1, <2>4, <2>5 DEF Apart
  <2> QED BY <2>1, <2>2, <2>6, <2>7, <2>8, <2>9 DEF Apart
<1>5. ASSUME NEW g \in Gen, GiveUp(g) \/ Export(g) \/ TaskDone(g) PROVE Apart'
  <2>1. /\ UNCHANGED <<put, items, db>>
        /\ \A h \in Gen \ {g} : batch'[h] = batch[h] /\ worker'[h] = worker[h]
        /\ worker'[g] \in {"task_done", "loop"}
        /\ \/ UNCHANGED dropped
           \/ worker[g] = "give_up" /\ dropped' = dropped \cup Elements(batch[g])
        /\ batch'[g] = batch[g] \/ batch'[g] = <<>>
    BY <1>5, OtherEffects
  <2>2. \A h \in Gen : Waiting(h)' \subseteq Waiting(h)
    BY <2>1 DEF Elements
  <2>3. \A h \in Gen : worker'[h] \in Unsettled => h # g /\ worker[h] \in Unsettled
    BY <2>1 DEF Unsettled
  <2>4. CASE UNCHANGED dropped
    BY <2>1, <2>2, <2>3, <2>4 DEF Apart
  <2>5. CASE worker[g] = "give_up" /\ dropped' = dropped \cup Elements(batch[g])
    <3>1. Elements(batch[g]) \cap Stored = {} /\ Elements(batch[g]) \subseteq 1 .. put
      BY <2>5 DEF Apart, Unsettled
    <3>2. \A h \in Gen : Elements(items[h]) \cap (Stored \cup dropped') = {}
      BY <2>5, BatchApart DEF Apart
    <3>3. \A h \in Gen : worker'[h] \in Unsettled
                           => Elements(batch'[h]) \cap (Stored \cup dropped') = {}
      BY <2>1, <2>3, <2>5 DEF Apart
    <3> QED BY <2>1, <2>2, <2>5, <3>1, <3>2, <3>3 DEF Apart
  <2> QED BY <2>1, <2>4, <2>5
<1>6. CASE Quiet
  <2>1. \A g \in Gen : worker'[g] \in Unsettled => worker[g] \in Unsettled
    BY <1>6 DEF Quiet, Moves, Unsettled
  <2> QED BY <1>6, <2>1 DEF Quiet, Apart
<1> QED BY <1>1, <1>2, <1>3, <1>4, <1>5, <1>6, QuietSteps DEF MovesAnEvent

LEMMA SettledNext ==
  ASSUME Typed, Placed, Filled, Sorted, Counted, Settled, [Next]_vars
  PROVE  Settled'
<1> USE DEF Stored
<1>1. ASSUME NEW p \in Producer, PutEvent(p) PROVE Settled'
  BY <1>1, PutEffect DEF Settled
<1>2. ASSUME NEW g \in Gen, Drain(g) PROVE Settled'
  <2>1. /\ UNCHANGED <<batch, db, jsonl>> /\ worker'[g] \in {"drain", "dead"}
        /\ \A h \in Gen \ {g} : worker'[h] = worker[h]
        /\ dropped \subseteq dropped'
    BY <1>2, DrainEffect
  <2> QED BY <2>1 DEF Settled
<1>3. ASSUME NEW g \in Gen, CollectBatch(g) PROVE Settled'
  BY <1>3, CollectEffect DEF Settled
<1>4. ASSUME NEW g \in Gen, Commit(g) PROVE Settled'
  <2>1. /\ UNCHANGED <<batch, jsonl, dropped>> /\ worker'[g] = "export"
        /\ \A h \in Gen \ {g} : worker'[h] = worker[h]
        /\ Elements(db') = Elements(db) \cup Elements(batch[g])
    BY <1>4, CommitEffect
  <2> QED BY <2>1 DEF Settled
<1>5. ASSUME NEW g \in Gen, GiveUp(g) \/ Export(g) \/ TaskDone(g) PROVE Settled'
  <2>1. UNCHANGED db /\ \A h \in Gen \ {g} : batch'[h] = batch[h] /\ worker'[h] = worker[h]
    BY <1>5, OtherEffects
  <2>2. CASE /\ worker'[g] = "task_done" /\ dropped' = dropped \cup Elements(batch[g])
             /\ UNCHANGED <<batch, jsonl>>
    BY <2>1, <2>2 DEF Settled
  <2>3. CASE /\ worker[g] = "export" /\ worker'[g] = "task_done"
             /\ \/ UNCHANGED jsonl
                \/ Elements(jsonl') = Elements(jsonl) \cup Elements(batch[g])
             /\ UNCHANGED <<batch, dropped>>
    BY <2>1, <2>3 DEF Settled
  <2>4. CASE worker'[g] = "loop" /\ UNCHANGED <<jsonl, dropped>>
    BY <2>1, <2>4 DEF Settled
  <2> QED BY <1>5, <2>2, <2>3, <2>4, OtherEffects
<1>6. CASE Quiet
  <2>1. \A g \in Gen : worker'[g] \in {"export", "task_done"} => worker'[g] = worker[g]
    BY <1>6 DEF Quiet, Moves, Unsettled
  <2> QED BY <1>6, <2>1 DEF Quiet, Settled
<1> QED BY <1>1, <1>2, <1>3, <1>4, <1>5, <1>6, QuietSteps DEF MovesAnEvent

\* Degraded mode is never left, and a close is never taken back.
LEMMA ReportsStay ==
  ASSUME Typed, [Next]_vars
  PROVE  /\ degraded => degraded'
         /\ closer.pc # "idle" => closer'.pc # "idle"
<1> USE DEF Typed, ThreadsTyped, producerVars, workerVars, queueVars
<1>1. ASSUME NEW p \in Producer, EnsureQueue(p) \/ PutEvent(p) \/ PutRaises(p)
      PROVE  (degraded => degraded') /\ UNCHANGED closer
  BY <1>1 DEF EnsureQueue, PutEvent, PutRaises
<1>2. ASSUME NEW g \in Gen, Connect(g) \/ Drain(g) \/ CollectBatch(g) \/ Leave(g)
      PROVE  (degraded => degraded') /\ UNCHANGED closer
  BY <1>2 DEF Connect, Drain, CollectBatch, Leave
<1>3. ASSUME NEW g \in Gen, Begin(g) \/ Commit(g) \/ Locked(g) \/ WriteFails(g)
      PROVE  UNCHANGED <<degraded, closer>>
  BY <1>3 DEF Begin, Commit, Locked, WriteFails
<1>4. ASSUME NEW g \in Gen, GiveUp(g) \/ Export(g) \/ TaskDone(g)
      PROVE  (degraded => degraded') /\ UNCHANGED closer
  BY <1>4 DEF GiveUp, Export, TaskDone
<1>5. CASE ReadTail \/ ReaderReturns
  BY <1>5 DEF ReadTail, ReaderReturns
<1>6. CASE CloseStarts \/ SetStop \/ ForgetQueue
  BY <1>6 DEF CloseStarts, SetStop, ForgetQueue
<1>7. CASE UNCHANGED vars
  BY <1>7 DEF vars
<1> QED BY <1>1, <1>2, <1>3, <1>4, <1>5, <1>6, <1>7, StepCases

LEMMA ExplainedNext ==
  ASSUME Typed, Placed, Filled, Sorted, Counted, Explained, [Next]_vars
  PROVE  Explained'
<1> USE DEF Explained
<1>0. (degraded => degraded') /\ (closer.pc # "idle" => closer'.pc # "idle")
  BY ReportsStay
<1>1. dropped' # {} => degraded'
  <2>1. ASSUME NEW g \in Gen, Drain(g) PROVE worker[g] = "drain"
    BY <2>1, DrainEffect
  <2>2. ASSUME NEW g \in Gen, GiveUp(g) \/ Export(g) \/ TaskDone(g)
        PROVE  UNCHANGED dropped \/ degraded'
    BY <2>2, OtherEffects
  <2>3. ASSUME NEW g \in Gen, CollectBatch(g) \/ Commit(g) PROVE UNCHANGED dropped
    BY <2>3, CollectEffect, CommitEffect
  <2>4. ASSUME NEW p \in Producer, PutEvent(p) PROVE UNCHANGED dropped
    BY <2>4, PutEffect
  <2>5. CASE Quiet
    BY <1>0, <2>5 DEF Quiet
  <2> QED BY <1>0, <2>1, <2>2, <2>3, <2>4, <2>5, QuietSteps DEF MovesAnEvent
<1>2. \A g \in Gen : stop'[g] => closer'.pc # "idle"
  <2>1. CASE UNCHANGED stop
    BY <1>0, <2>1
  <2>2. CASE SetStop
    BY <2>2 DEF SetStop, Typed, ThreadsTyped
  <2>3. UNCHANGED stop \/ SetStop
    <3> USE DEF queueVars
    <3>1. ASSUME NEW p \in Producer, EnsureQueue(p) \/ PutEvent(p) \/ PutRaises(p)
          PROVE  UNCHANGED stop
      BY <3>1 DEF EnsureQueue, PutEvent, PutRaises
    <3>2. ASSUME NEW g \in Gen, Connect(g) \/ Drain(g) \/ CollectBatch(g) \/ Leave(g)
          PROVE  UNCHANGED stop
      BY <3>2 DEF Connect, Drain, CollectBatch, Leave
    <3>3. ASSUME NEW g \in Gen, Begin(g) \/ Commit(g) \/ Locked(g) \/ WriteFails(g)
          PROVE  UNCHANGED stop
      BY <3>3 DEF Begin, Commit, Locked, WriteFails
    <3>4. ASSUME NEW g \in Gen, GiveUp(g) \/ Export(g) \/ TaskDone(g)
          PROVE  UNCHANGED stop
      BY <3>4 DEF GiveUp, Export, TaskDone
    <3>5. CASE ReadTail \/ ReaderReturns \/ CloseStarts \/ ForgetQueue
      BY <3>5 DEF ReadTail, ReaderReturns, CloseStarts, ForgetQueue
    <3>6. CASE UNCHANGED vars
      BY <3>6 DEF vars
    <3> QED BY <3>1, <3>2, <3>3, <3>4, <3>5, <3>6, StepCases
  <2> QED BY <2>1, <2>2, <2>3
<1>3. \A g \in Gen : worker'[g] = "drain" => degraded'
  <2>1. ASSUME NEW g \in Gen, worker'[g] = "drain"
        PROVE  worker[g] = "drain" \/ degraded'
    BY <2>1, QuietSteps, PutEffect, DrainEffect, CollectEffect, CommitEffect,
       OtherEffects DEF MovesAnEvent, Quiet, Moves, Unsettled
  <2> QED BY <1>0, <2>1
<1>4. \A g \in Gen : worker'[g] = "dead" => degraded' \/ closer'.pc # "idle"
  <2>1. ASSUME NEW g \in Gen, worker'[g] = "dead"
        PROVE  worker[g] \in {"dead", "drain"} \/ stop[g]
    BY <2>1, QuietSteps, PutEffect, DrainEffect, CollectEffect, CommitEffect,
       OtherEffects DEF MovesAnEvent, Quiet, Moves, Unsettled
  <2> QED BY <1>0, <2>1
<1> QED BY <1>1, <1>2, <1>3, <1>4

\* An event that waits, is stored or was given up is one of these afterwards.
LEMMA NothingVanishes ==
  ASSUME Typed, Placed, Filled, Sorted, Counted, Settled, [Next]_vars
  PROVE  /\ Stored \cup dropped \subseteq (Stored \cup dropped)'
         /\ \A g \in Gen : Waiting(g) \subseteq (Waiting(g) \cup Stored \cup dropped)'
<1> USE DEF Waiting, Stored
<1>1. ASSUME NEW p \in Producer, PutEvent(p)
      PROVE  /\ UNCHANGED <<db, dropped>>
             /\ \A g \in Gen : Waiting(g) \subseteq Waiting(g)'
  BY <1>1, PutEffect
<1>2. ASSUME NEW g \in Gen, Drain(g)
      PROVE  /\ UNCHANGED db /\ dropped \subseteq dropped'
             /\ \A h \in Gen : Waiting(h) \subseteq Waiting(h)' \cup dropped'
  <2>1. /\ UNCHANGED <<db, batch>> /\ dropped \subseteq dropped'
        /\ \A h \in Gen \ {g} : items'[h] = items[h]
    BY <1>2, DrainEffect
  <2>2. Elements(items[g]) \subseteq Elements(items'[g]) \cup dropped'
    BY <1>2, DrainEffect
  <2> QED BY <2>1, <2>2
<1>3. ASSUME NEW g \in Gen, CollectBatch(g)
      PROVE  /\ UNCHANGED <<db, dropped>>
             /\ \A h \in Gen : Waiting(h) \subseteq Waiting(h)'
  <2>1. /\ UNCHANGED <<db, dropped>> /\ batch[g] = <<>>
        /\ Elements(items[g]) = Elements(batch'[g]) \cup Elements(items'[g])
        /\ \A h \in Gen \ {g} : items'[h] = items[h] /\ batch'[h] = batch[h]
    BY <1>3, CollectEffect
  <2>2. Elements(batch[g]) = {}
    BY <2>1 DEF Elements
  <2> QED BY <2>1, <2>2
<1>4. ASSUME NEW g \in Gen, Commit(g)
      PROVE  /\ Elements(db) \subseteq Elements(db') /\ UNCHANGED <<items, batch, dropped>>
  BY <1>4, CommitEffect
<1>5. ASSUME NEW g \in Gen, GiveUp(g) \/ Export(g) \/ TaskDone(g)
      PROVE  /\ UNCHANGED db /\ dropped \subseteq dropped'
             /\ \A h \in Gen : Waiting(h) \subseteq Waiting(h)' \cup Stored \cup dropped
  <2>1. UNCHANGED <<items, db>> /\ dropped \subseteq dropped'
    BY <1>5, OtherEffects
  <2>2. UNCHANGED batch \/ (/\ worker[g] = "task_done"
                            /\ \A h \in Gen \ {g} : batch'[h] = batch[h])
    BY <1>5, OtherEffects
  <2>3. worker[g] = "task_done" => Elements(batch[g]) \subseteq Stored \cup dropped
    BY DEF Settled
  <2> QED BY <2>1, <2>2, <2>3
<1>6. CASE Quiet
  BY <1>6 DEF Quiet
<1> QED BY <1>1, <1>2, <1>3, <1>4, <1>5, <1>6, QuietSteps DEF MovesAnEvent

\* Only the reader moves the reader.
LEMMA ReaderStays ==
  ASSUME [Next]_vars
  PROVE  ReadTail \/ ReaderReturns \/ UNCHANGED reader
<1>1. ASSUME NEW p \in Producer, EnsureQueue(p) \/ PutEvent(p) \/ PutRaises(p)
      PROVE  UNCHANGED reader
  BY <1>1 DEF EnsureQueue, PutEvent, PutRaises
<1>2. ASSUME NEW g \in Gen, Connect(g) \/ Drain(g) \/ CollectBatch(g) \/ Leave(g)
      PROVE  UNCHANGED reader
  BY <1>2 DEF Connect, Drain, CollectBatch, Leave
<1>3. ASSUME NEW g \in Gen, Begin(g) \/ Commit(g) \/ Locked(g) \/ WriteFails(g)
      PROVE  UNCHANGED reader
  BY <1>3 DEF Begin, Commit, Locked, WriteFails
<1>4. ASSUME NEW g \in Gen, GiveUp(g) \/ Export(g) \/ TaskDone(g)
      PROVE  UNCHANGED reader
  BY <1>4 DEF GiveUp, Export, TaskDone
<1>5. CASE CloseStarts \/ SetStop \/ ForgetQueue
  BY <1>5 DEF CloseStarts, SetStop, ForgetQueue
<1>6. CASE UNCHANGED vars
  BY <1>6 DEF vars
<1> QED BY <1>1, <1>2, <1>3, <1>4, <1>5, <1>6, StepCases

\* A close that has forgotten its queue is over.
LEMMA ClosedStays ==
  ASSUME [Next]_vars, closer.pc = "closed"
  PROVE  UNCHANGED closer
<1>1. ASSUME NEW p \in Producer, EnsureQueue(p) \/ PutEvent(p) \/ PutRaises(p)
      PROVE  UNCHANGED closer
  BY <1>1 DEF EnsureQueue, PutEvent, PutRaises
<1>2. ASSUME NEW g \in Gen, Connect(g) \/ Drain(g) \/ CollectBatch(g) \/ Leave(g)
      PROVE  UNCHANGED closer
  BY <1>2 DEF Connect, Drain, CollectBatch, Leave
<1>3. ASSUME NEW g \in Gen, Begin(g) \/ Commit(g) \/ Locked(g) \/ WriteFails(g)
      PROVE  UNCHANGED closer
  BY <1>3 DEF Begin, Commit, Locked, WriteFails
<1>4. ASSUME NEW g \in Gen, GiveUp(g) \/ Export(g) \/ TaskDone(g)
      PROVE  UNCHANGED closer
  BY <1>4 DEF GiveUp, Export, TaskDone
<1>5. CASE ReadTail \/ ReaderReturns \/ CloseStarts \/ SetStop \/ ForgetQueue
  BY <1>5 DEF ReadTail, ReaderReturns, CloseStarts, SetStop, ForgetQueue
<1>6. CASE UNCHANGED vars
  BY <1>6 DEF vars
<1> QED BY <1>1, <1>2, <1>3, <1>4, <1>5, <1>6, StepCases

\* What the forgotten queue holds stays there until it is settled.
LEMMA LeftStays ==
  ASSUME Typed, Placed, Filled, Sorted, Counted, Settled, [Next]_vars
  PROVE  Left \subseteq (Left \cup Stored \cup dropped)'
<1>1. CASE closer.pc = "closed"
  <2>1. closer' = closer
    BY <1>1, ClosedStays
  <2>2. PICK g \in Gen : g = closer.gen
    BY <1>1, Made DEF Typed, ThreadsTyped, Placed
  <2>3. Left = Waiting(g) /\ Left' = Waiting(g)'
    BY <1>1, <2>1, <2>2 DEF Left, Waiting
  <2> QED BY <2>2, <2>3, NothingVanishes
<1>2. CASE closer.pc # "closed"
  BY <1>2 DEF Left
<1> QED BY <1>1, <1>2

\* A put adds its event to a queue, and nothing else is accepted.
LEMMA KeptNext ==
  ASSUME Typed, Placed, Filled, Sorted, Counted, Settled, Kept, [Next]_vars
  PROVE  Kept'
<1>1. /\ Stored \cup dropped \subseteq (Stored \cup dropped)'
      /\ \A g \in Gen : Waiting(g) \subseteq (Waiting(g) \cup Stored \cup dropped)'
  BY NothingVanishes
<1>2. \/ put' = put
      \/ put' = put + 1 /\ \E h \in Gen : put' \in Elements(items'[h])
  <2>1. ASSUME NEW p \in Producer, PutEvent(p)
        PROVE  put' = put + 1 /\ \E h \in Gen : put' \in Elements(items'[h])
    BY <2>1, PutEffect
  <2>2. ASSUME NEW g \in Gen, Drain(g) PROVE put' = put
    BY <2>2, DrainEffect
  <2>3. ASSUME NEW g \in Gen, CollectBatch(g) \/ Commit(g) PROVE put' = put
    BY <2>3 DEF CollectBatch, Commit, producerVars
  <2>4. ASSUME NEW g \in Gen, GiveUp(g) \/ Export(g) \/ TaskDone(g) PROVE put' = put
    BY <2>4 DEF GiveUp, Export, TaskDone, producerVars
  <2>5. CASE Quiet
    BY <2>5 DEF Quiet
  <2> QED BY <2>1, <2>2, <2>3, <2>4, <2>5, QuietSteps DEF MovesAnEvent
<1>3. put \in Nat
  BY QueueAssumption DEF Typed, EventsTyped
<1>4. ASSUME NEW e \in 1 .. put', e \in 1 .. put
      PROVE  e \in (Stored \cup dropped)' \/ \E g \in Gen : e \in Waiting(g)'
  BY <1>1, <1>4 DEF Kept
<1>5. ASSUME NEW e \in 1 .. put', e \notin 1 .. put
      PROVE  \E g \in Gen : e \in Waiting(g)'
  <2>1. e = put' /\ put' = put + 1
    BY <1>2, <1>3, <1>5
  <2> QED BY <1>2, <1>3, <2>1 DEF Waiting
<1> QED BY <1>4, <1>5 DEF Kept

\* Every accepted event that waits is in the manager's queue or in the one that
\* was forgotten.
LEMMA TwoQueues ==
  ASSUME Typed, Placed, Filled, Kept, NEW e \in 1 .. put, e \notin Left \cup Stored \cup dropped
  PROVE  current \in Gen /\ e \in Waiting(current)
<1>1. PICK g \in Gen : e \in Waiting(g)
  BY DEF Kept
<1>2. worker[g] # "none"
  <2>1. items[g] # <<>> \/ batch[g] # <<>>
    BY <1>1 DEF Waiting, Elements
  <2> QED BY <2>1 DEF Filled, Busy, Unsettled
<1>3. g \in 1 .. created
  BY <1>2, QueueAssumption DEF Placed, Gen, Typed, ThreadsTyped
<1>4. g # current => e \in Left
  BY <1>1, <1>3 DEF Placed, Left, Waiting
<1> QED BY <1>1, <1>4

LEMMA AnsweredNext ==
  ASSUME Typed, Placed, Filled, Sorted, Counted, Kept, Settled, Answered, [Next]_vars
  PROVE  Answered'
<1> USE DEF Answered
<1>1. CASE ReadTail
  <2>1. reader' = [pc |-> IF current = 0 THEN "fresh" ELSE "flushing",
                   gen |-> current, asked |-> 1 .. put]
    BY <1>1 DEF ReadTail
  <2>2. UNCHANGED <<items, batch, db, dropped, closer>>
    BY <1>1 DEF ReadTail, workerVars, queueVars
  <2>3. Left' = Left /\ Stored' = Stored /\ Waiting(current)' = Waiting(current')
    BY <1>1, <2>2 DEF Left, Stored, Waiting, ReadTail, producerVars
  <2>4. CASE current = 0
    <3>1. reader'.pc = "fresh" /\ reader'.asked = 1 .. put
      BY <2>1, <2>4
    <3>2. 1 .. put \subseteq Left \cup Stored \cup dropped
      BY <2>4, TwoQueues DEF Gen
    <3> QED BY <2>2, <2>3, <3>1, <3>2
  <2>5. CASE current # 0
    <3>1. reader'.pc = "flushing" /\ reader'.asked = 1 .. put /\ reader'.gen = current
      BY <2>1, <2>5
    <3>2. 1 .. put \subseteq Waiting(current) \cup Left \cup Stored \cup dropped
      BY TwoQueues
    <3>3. Waiting(reader.gen)' = Waiting(current)
      BY <2>2, <3>1 DEF Waiting
    <3> QED BY <2>2, <2>3, <3>1, <3>2, <3>3
  <2> QED BY <2>4, <2>5
<1>2. CASE ReaderReturns
  <2>1. UNCHANGED <<db, dropped, items, batch, closer>> /\ reader.pc = "flushing"
    BY <1>2 DEF ReaderReturns, workerVars, queueVars
  <2>2. CASE Flushed(reader.gen)
    <3>1. reader' = [reader EXCEPT !.pc = "fresh"]
      BY <1>2, <2>2 DEF ReaderReturns
    <3>2. reader'.pc = "fresh" /\ reader'.asked = reader.asked
      BY <3>1 DEF Typed, ThreadsTyped
    <3>3. reader.gen \in Gen
      <4>1. reader.gen \in 0 .. created /\ reader.gen # 0
        BY <2>1 DEF Typed, ThreadsTyped, Placed
      <4> QED BY <4>1, Made DEF Typed
    <3>4. Waiting(reader.gen) = {}
      <4>1. items[reader.gen] \in Seq(Event) /\ batch[reader.gen] \in Seq(Event)
        BY <3>3 DEF Typed, EventsTyped
      <4>2. Len(items[reader.gen]) + Len(batch[reader.gen]) = 0
        BY <2>2, <3>3 DEF Flushed, Counted
      <4>3. items[reader.gen] = <<>> /\ batch[reader.gen] = <<>>
        BY <4>1, <4>2, BothEmpty
      <4> QED BY <4>3 DEF Waiting, Elements
    <3>5. Left' = Left /\ Stored' = Stored /\ dropped' = dropped
      BY <2>1 DEF Left, Stored
    <3> QED BY <2>1, <3>2, <3>4, <3>5
  <2>3. CASE ~Flushed(reader.gen)
    BY <1>2, <2>3 DEF ReaderReturns, NotReading
  <2> QED BY <2>2, <2>3
<1>3. CASE UNCHANGED reader
  <2>1. reader.pc = "flushing" => reader.gen \in Gen
    <3>1. reader.gen \in 0 .. created
      BY DEF Typed, ThreadsTyped
    <3> QED BY <3>1, Made DEF Placed, Typed
  <2>2. /\ Stored \cup dropped \subseteq (Stored \cup dropped)'
        /\ \A g \in Gen : Waiting(g) \subseteq (Waiting(g) \cup Stored \cup dropped)'
        /\ Left \subseteq (Left \cup Stored \cup dropped)'
    BY NothingVanishes, LeftStays
  <2>3. ASSUME reader'.pc = "flushing"
        PROVE  reader'.asked \subseteq (Waiting(reader.gen) \cup Left \cup Stored \cup dropped)'
    BY <1>3, <2>1, <2>2, <2>3
  <2>4. ASSUME reader'.pc = "fresh"
        PROVE  reader'.asked \subseteq (Left \cup Stored \cup dropped)'
    BY <1>3, <2>2, <2>4
  <2> QED BY <2>3, <2>4
<1> QED BY <1>1, <1>2, <1>3, ReaderStays

\* With one queue at most, the others are empty and have no thread.
LEMMA OnlyOne ==
  ASSUME Typed, Placed, Filled, created <= 1, NEW g \in Gen, worker[g] # "none",
         NEW h \in Gen, h # g
  PROVE  worker[h] = "none" /\ Elements(items[h]) = {} /\ Elements(batch[h]) = {}
<1>1. created \in Nat /\ g \in Nat \ {0} /\ h \in Nat \ {0}
  BY DEF Typed, ThreadsTyped, Gen
<1>2. ~(g > created)
  BY DEF Placed
<1>3. h > created
  BY <1>1, <1>2
<1>4. worker[h] = "none"
  BY <1>3 DEF Placed
<1>5. items[h] = <<>> /\ batch[h] = <<>>
  BY <1>4 DEF Filled, Busy, Unsettled
<1> QED BY <1>4, <1>5 DEF Elements

LEMMA InOrderNext ==
  ASSUME Typed, Placed, Filled, Sorted, Counted, Apart, Settled, InOrder, [Next]_vars
  PROVE  InOrder'
<1> USE DEF Stored
<1>0. created <= 1 \/ created' > 1
  <2>1. created \in Nat /\ created' \in Nat
    BY TypedNext DEF Typed, ThreadsTyped
  <2>2. UNCHANGED created \/ Quiet
    BY QuietSteps, PutEffect, DrainEffect, CollectEffect, CommitEffect, OtherEffects
       DEF MovesAnEvent
  <2>3. UNCHANGED created \/ created <= created'
    BY <2>2 DEF Quiet
  <2> QED BY <2>1, <2>3
<1> SUFFICES ASSUME created' <= 1
             PROVE  InOrder'
  BY DEF InOrder
<1>1. /\ created <= 1 /\ Increasing(db) /\ Increasing(jsonl)
      /\ \A g \in Gen : Before(Stored, Elements(items[g]))
      /\ \A g \in Gen : worker[g] \in Unsettled => Before(Stored, Elements(batch[g]))
      /\ \A g \in Gen : worker[g] \in Unsettled \cup {"export"}
                          => Before(Elements(jsonl), Elements(batch[g]))
  <2>1. created' \in Nat
    BY TypedNext DEF Typed, ThreadsTyped
  <2>2. created <= 1
    BY <1>0, <2>1
  <2> QED BY <2>2 DEF InOrder
<1>2. /\ Stored \subseteq 1 .. put /\ put \in Nat
      /\ Elements(jsonl) \subseteq Stored
  BY DEF Apart, Settled, Typed, EventsTyped
<1>3. ASSUME NEW p \in Producer, PutEvent(p)
      PROVE  InOrder'
  <2>1. PICK h \in Gen :
          /\ put' = put + 1
          /\ Elements(items'[h]) = Elements(items[h]) \cup {put'}
          /\ \A g \in Gen \ {h} : items'[g] = items[g]
          /\ UNCHANGED <<batch, db, jsonl, worker>>
    BY <1>3, PutEffect
  <2>2. \A x \in Stored : x < put'
    BY <1>2, <2>1
  <2>3. Before(Stored, Elements(items'[h]))
    BY <1>1, <2>1, <2>2 DEF Before
  <2> QED BY <1>1, <2>1, <2>3 DEF InOrder
<1>4. ASSUME NEW g \in Gen, Drain(g) PROVE InOrder'
  <2>1. /\ UNCHANGED <<batch, db, jsonl>> /\ worker'[g] \in {"drain", "dead"}
        /\ \A h \in Gen \ {g} : items'[h] = items[h] /\ worker'[h] = worker[h]
    BY <1>4, DrainEffect
  <2>2. Elements(items'[g]) \subseteq Elements(items[g])
    BY <1>4, DrainEffect
  <2>3. Before(Stored, Elements(items'[g]))
    BY <1>1, <2>2 DEF Before
  <2> QED BY <1>1, <2>1, <2>3 DEF InOrder, Unsettled
<1>5. ASSUME NEW g \in Gen, CollectBatch(g) PROVE InOrder'
  <2>1. /\ UNCHANGED <<db, jsonl>>
        /\ Elements(items[g]) = Elements(batch'[g]) \cup Elements(items'[g])
        /\ \A h \in Gen \ {g} : /\ items'[h] = items[h] /\ batch'[h] = batch[h]
                                /\ worker'[h] = worker[h]
    BY <1>5, CollectEffect
  <2>2. /\ Before(Stored, Elements(batch'[g])) /\ Before(Stored, Elements(items'[g]))
        /\ Before(Elements(jsonl), Elements(batch'[g]))
    BY <1>1, <1>2, <2>1 DEF Before
  <2> QED BY <1>1, <2>1, <2>2 DEF InOrder
<1>6. ASSUME NEW g \in Gen, Commit(g) PROVE InOrder'
  <2>1. /\ UNCHANGED <<items, batch, jsonl>>
        /\ worker[g] = "insert" /\ worker'[g] = "export"
        /\ \A h \in Gen \ {g} : worker'[h] = worker[h]
        /\ db' = db \o batch[g]
        /\ Elements(db') = Elements(db) \cup Elements(batch[g])
    BY <1>6, CommitEffect
  <2>2. /\ Before(Stored, Elements(batch[g]))
        /\ Before(Elements(jsonl), Elements(batch[g]))
    BY <1>1, <2>1 DEF Unsettled
  <2>3. Increasing(db')
    <3>1. db \in Seq(Event) /\ batch[g] \in Seq(Event) /\ Increasing(batch[g])
      BY DEF Typed, EventsTyped, Sorted
    <3> QED BY <1>1, <2>1, <2>2, <3>1, IncreasingConcat
  <2>4. \A h \in Gen \ {g} : /\ worker[h] = "none"
                             /\ Elements(items[h]) = {} /\ Elements(batch[h]) = {}
    BY <1>1, <2>1, OnlyOne
  <2>5. Before(Stored', Elements(items[g]))
    BY <1>1, <2>1 DEF Sorted, Before
  <2>6. \A h \in Gen : Before(Stored', Elements(items'[h]))
    BY <2>1, <2>4, <2>5 DEF Before
  <2> QED BY <1>1, <2>1, <2>2, <2>3, <2>4, <2>6 DEF InOrder, Unsettled
<1>7. ASSUME NEW g \in Gen, GiveUp(g) \/ Export(g) \/ TaskDone(g) PROVE InOrder'
  <2>1. /\ UNCHANGED <<items, db>> /\ worker'[g] \in {"task_done", "loop"}
        /\ \A h \in Gen \ {g} : batch'[h] = batch[h] /\ worker'[h] = worker[h]
    BY <1>7, OtherEffects
  <2>2. CASE UNCHANGED jsonl
    BY <1>1, <2>1, <2>2 DEF InOrder, Unsettled
  <2>3. CASE worker[g] = "export" /\ jsonl' = jsonl \o batch[g]
    <3>1. jsonl \in Seq(Event) /\ batch[g] \in Seq(Event) /\ Increasing(batch[g])
      BY DEF Typed, EventsTyped, Sorted
    <3>2. Increasing(jsonl')
      BY <1>1, <2>3, <3>1, IncreasingConcat
    <3>3. \A h \in Gen \ {g} : worker[h] = "none"
      BY <1>1, <2>3, OnlyOne
    <3> QED BY <1>1, <2>1, <3>2, <3>3 DEF InOrder, Unsettled
  <2> QED BY <1>7, <2>2, <2>3, OtherEffects
<1>8. CASE Quiet
  <2>1. \A g \in Gen : /\ worker'[g] \in Unsettled => worker[g] \in Unsettled
                       /\ worker'[g] = "export" => worker[g] = "export"
    BY <1>8 DEF Quiet, Moves, Unsettled
  <2>2. UNCHANGED <<items, batch, db, jsonl>>
    BY <1>8 DEF Quiet
  <2>3. /\ Increasing(db') /\ Increasing(jsonl')
        /\ \A g \in Gen : Before(Elements(db'), Elements(items'[g]))
    BY <1>1, <2>2
  <2>4. ASSUME NEW g \in Gen, worker'[g] \in Unsettled
        PROVE  Before(Elements(db'), Elements(batch'[g]))
    BY <1>1, <2>1, <2>2, <2>4
  <2>5. ASSUME NEW g \in Gen, worker'[g] \in Unsettled \cup {"export"}
        PROVE  Before(Elements(jsonl'), Elements(batch'[g]))
    BY <1>1, <2>1, <2>2, <2>5
  <2> QED BY <2>3, <2>4, <2>5 DEF InOrder
<1> QED BY <1>3, <1>4, <1>5, <1>6, <1>7, <1>8, QuietSteps DEF MovesAnEvent

-----------------------------------------------------------------------------
(* The invariant and the theorems.                                         *)

LEMMA InitIInv == Init => IInv
<1> SUFFICES ASSUME Init PROVE IInv
  OBVIOUS
<1> USE QueueAssumption DEF Init
<1>1. EventsTyped
  BY DEF EventsTyped
<1>2. ThreadsTyped
  <2>1. reader \in [pc : {"idle", "flushing", "fresh"},
                   gen : 0 .. created, asked : SUBSET Event]
    BY DEF NotReading
  <2>2. closer \in [pc : {"idle", "flushing", "joining", "closed"}, gen : 0 .. created]
    OBVIOUS
  <2>3. worker \in [Gen -> WorkerState] /\ attempt \in [Gen -> 0 .. Attempts]
    BY DEF WorkerState
  <2>4. current \in 0 .. created /\ created \in 0 .. Generations
    OBVIOUS
  <2>5. holding \in [Producer -> 0 .. created]
    OBVIOUS
  <2>6. stop \in [Gen -> BOOLEAN] /\ degraded \in BOOLEAN
    OBVIOUS
  <2> QED BY <2>1, <2>2, <2>3, <2>4, <2>5, <2>6 DEF ThreadsTyped
<1>3. Placed
  BY DEF Placed, NotReading, Gen
<1>4. Filled
  BY DEF Filled, Busy, Unsettled
<1>5. Elements(<<>>) = {} /\ Increasing(<<>>) /\ Distinct(<<>>)
  BY DEF Elements, Increasing, Distinct
<1>6. \A g \in Gen : Elements(items[g]) = {} /\ Elements(batch[g]) = {}
  BY <1>5
<1>7. Sorted
  BY <1>5, <1>6 DEF Sorted, Before
<1>8. Counted
  BY DEF Counted
<1>9. Apart
  BY <1>5, <1>6 DEF Apart, Waiting, Stored
<1>14. Kept
  BY DEF Kept
<1>10. Settled
  BY <1>5, <1>6 DEF Settled, Stored
<1>11. Explained
  BY DEF Explained
<1>12. Answered
  BY DEF Answered, NotReading
<1>13. InOrder
  BY <1>5, <1>6 DEF InOrder, Before, Stored
<1> QED BY <1>1, <1>2, <1>3, <1>4, <1>7, <1>8, <1>9, <1>10, <1>11, <1>12, <1>13, <1>14
           DEF IInv, Typed

LEMMA NextIInv == IInv /\ [Next]_vars => IInv'
BY TypedNext, PlacedNext, FilledNext, SortedNext, CountedNext, ApartNext, KeptNext, SettledNext,
   ExplainedNext, AnsweredNext, InOrderNext DEF IInv

\* The inductive invariant: where every event is, in every reachable state.
THEOREM QueueInvariant == Spec => []IInv
BY InitIInv, NextIInv, PTL DEF Spec

\* What a queue waits for is among the events put.
LEMMA WaitingBounded ==
  ASSUME IInv, NEW g \in Gen
  PROVE  Len(items[g]) + Len(batch[g]) \in 0 .. MaxEvents
<1>1. /\ items[g] \in Seq(Event) /\ batch[g] \in Seq(Event)
      /\ Increasing(items[g]) /\ Increasing(batch[g])
      /\ Before(Elements(batch[g]), Elements(items[g]))
      /\ Elements(items[g]) \subseteq 1 .. put /\ Elements(batch[g]) \subseteq 1 .. put
  BY DEF IInv, Typed, EventsTyped, Sorted, Apart, Waiting
<1>2. put \in Nat /\ put <= MaxEvents /\ MaxEvents \in Nat
  BY QueueAssumption DEF IInv, Typed, EventsTyped
<1>3. PICK s \in Seq(Event) : s = batch[g] \o items[g]
  BY <1>1, ConcatLength
<1>4. Len(s) = Len(batch[g]) + Len(items[g])
  BY <1>1, <1>3, ConcatLength
<1>5. Distinct(s)
  BY <1>1, <1>3, IncreasingConcat, IncreasingDistinct
<1>6. Elements(s) \subseteq 1 .. put
  BY <1>1, <1>3, ElementsConcat
<1>7. Len(s) <= put
  BY <1>2, <1>5, <1>6, DistinctBounded
<1>8. Len(s) \in Nat
  OBVIOUS
<1>9. Len(batch[g]) \in Nat /\ Len(items[g]) \in Nat
  BY <1>1, LengthIsNat
<1>10. \A a, b, n, m \in Nat : a + b <= n /\ n <= m => b + a \in 0 .. m
  OBVIOUS
<1> QED BY <1>2, <1>4, <1>7, <1>9, <1>10

\* The types, among them that unfinished_tasks never falls below zero and never
\* exceeds the events there can be.
THEOREM TypeCorrect == Spec => []TypeOK
<1>1. ASSUME IInv PROVE TypeOK
  <2>1. \A g \in Gen : unfinished[g] \in 0 .. MaxEvents
    BY <1>1, WaitingBounded DEF IInv, Counted
  <2>2. unfinished \in [Gen -> 0 .. MaxEvents]
    BY <1>1, <2>1 DEF IInv, Typed, EventsTyped
  <2> QED BY <1>1, <2>2 DEF TypeOK, IInv, Typed, EventsTyped, ThreadsTyped
<1> QED BY <1>1, QueueInvariant, PTL

\* While one queue is all there is, the table and the legacy file are in the
\* order of the appends, whatever was retried, given up or not exported.
THEOREM StorageInOrder == Spec => []StoredInOrder
<1>1. IInv => StoredInOrder
  BY DEF IInv, InOrder, StoredInOrder
<1> QED BY <1>1, QueueInvariant, PTL

\* A flush that answers TRUE has told the truth, unless storage is degraded: every
\* event appended before it, on whatever queue, is in the table or still in the
\* queue that close has forgotten.
THEOREM FlushTellsTheTruth == Spec => []FlushedIsSettled
<1>1. IInv => FlushedIsSettled
  BY DEF IInv, Answered, Explained, FlushedIsSettled
<1> QED BY <1>1, QueueInvariant, PTL

\* An accepted event no thread will take is explained by degraded mode or by the
\* close of the process.
THEOREM StrandedHasAReason == Spec => []StrandedIsExplained
<1>1. IInv => StrandedIsExplained
  BY DEF IInv, Explained, StrandedIsExplained, Stranded
<1> QED BY <1>1, QueueInvariant, PTL

-----------------------------------------------------------------------------
(* EventQueue implements EventStore, step by step.                         *)

Rows == [e \in Event |-> Cardinality({i \in DOMAIN db : db[i] = e})]

\* The table has one row of a stored event and none of any other.
LEMMA RowsCount ==
  ASSUME NEW s \in Seq(Event), Distinct(s), NEW e \in Event
  PROVE  Cardinality({i \in DOMAIN s : s[i] = e}) = IF e \in Elements(s) THEN 1 ELSE 0
<1> DEFINE R == {i \in DOMAIN s : s[i] = e}
<1>1. CASE e \in Elements(s)
  <2>1. PICK i \in DOMAIN s : s[i] = e
    BY <1>1 DEF Elements
  <2>2. R = {i}
    BY <2>1 DEF Distinct
  <2> QED BY <1>1, <2>2, FS_Singleton
<1>2. CASE e \notin Elements(s)
  <2>1. R = {}
    BY <1>2 DEF Elements
  <2> QED BY <1>2, <2>1, FS_EmptySet
<1> QED BY <1>1, <1>2

\* The steps of the queue as steps of the store.
LEMMA StoreStep ==
  ASSUME IInv, [Next]_vars
  PROVE  [Store!Next]_Store!vars
<1>0. /\ Typed /\ Placed /\ Filled /\ Sorted /\ Counted /\ Apart /\ Settled /\ Explained
      /\ Typed' /\ Apart' /\ (degraded => degraded') /\ degraded' \in BOOLEAN
  BY NextIInv, ReportsStay DEF IInv, Typed, ThreadsTyped
<1>1. /\ Rows = [e \in Event |-> IF e \in Stored THEN 1 ELSE 0]
      /\ Rows' = [e \in Event |-> IF e \in Stored' THEN 1 ELSE 0]
  <2>1. db \in Seq(Event) /\ Distinct(db) /\ db' \in Seq(Event) /\ Distinct(db')
    BY <1>0 DEF Typed, EventsTyped, Apart
  <2>2. \A e \in Event : Cardinality({i \in DOMAIN db : db[i] = e})
                            = IF e \in Elements(db) THEN 1 ELSE 0
    BY <2>1, RowsCount
  <2>3. \A e \in Event : Cardinality({i \in DOMAIN db' : db'[i] = e})
                            = IF e \in Elements(db') THEN 1 ELSE 0
    BY <2>1, RowsCount
  <2>4. Stored = Elements(db) /\ Stored' = Elements(db')
    BY DEF Stored
  <2>5. Rows = [e \in Event |-> IF e \in Stored THEN 1 ELSE 0]
    BY <2>2, <2>4 DEF Rows
  <2>6. Rows' = [e \in Event |-> IF e \in Stored' THEN 1 ELSE 0]
    BY <2>3, <2>4 DEF Rows
  <2> QED BY <2>5, <2>6
<1>2. UNCHANGED db => Rows' = Rows
  BY DEF Rows
<1>3. Stored \cup dropped \subseteq 1 .. put /\ Stored \cap dropped = {} /\ 1 .. put \subseteq Event
  <2>1. put \in Nat /\ MaxEvents \in Nat /\ put <= MaxEvents
    BY <1>0, QueueAssumption DEF Typed, EventsTyped
  <2>2. 1 .. put \subseteq Event
    BY <2>1 DEF Event
  <2> QED BY <1>0, <2>2 DEF Apart
<1>4. Store!Pending = 1 .. put \ (Stored \cup dropped)
  BY <1>1, <1>3 DEF Store!Pending, Rows
<1>5. ASSUME NEW p \in Producer, PutEvent(p) PROVE Store!Next
  <2>1. put' = put + 1 /\ put' \in Event /\ UNCHANGED <<db, dropped, degraded>>
    BY <1>0, <1>5, PutEffect DEF PutEvent
  <2>2. 1 .. put' = 1 .. put \cup {put'} /\ put' \notin 1 .. put
    BY <1>0, <2>1 DEF Typed, EventsTyped
  <2>3. Store!Accept(put')
    BY <1>2, <2>1, <2>2 DEF Store!Accept, Rows
  <2> QED BY <2>1, <2>3 DEF Store!Next
<1>6. ASSUME NEW g \in Gen, Drain(g) PROVE [Store!Next]_Store!vars
  <2>1. /\ UNCHANGED <<put, db, degraded>> /\ worker[g] = "drain"
        /\ \/ UNCHANGED dropped
           \/ \E e \in Event : /\ Elements(items[g]) = {e} \cup Elements(items'[g])
                               /\ dropped' = dropped \cup {e}
    BY <1>0, <1>6, DrainEffect DEF Drain
  <2>2. CASE UNCHANGED dropped
    BY <1>2, <2>1, <2>2 DEF Store!vars, Rows
  <2>3. ASSUME NEW e \in Event, e \in Elements(items[g]), dropped' = dropped \cup {e}
        PROVE  Store!Next
    <3>1. e \in Store!Pending
      BY <1>0, <1>4, <2>3 DEF Apart, Waiting
    <3>2. degraded' = TRUE
      BY <1>0, <2>1 DEF Explained, Typed, ThreadsTyped
    <3>3. Store!Lose({e}) /\ {e} \in SUBSET Event
      BY <1>2, <2>1, <2>3, <3>1, <3>2 DEF Store!Lose, Rows
    <3> QED BY <3>3 DEF Store!Next
  <2> QED BY <2>1, <2>2, <2>3
<1>7. ASSUME NEW g \in Gen, Commit(g) PROVE Store!Next
  <2>1. /\ UNCHANGED <<put, dropped, degraded>> /\ worker[g] = "insert"
        /\ Stored' = Stored \cup Elements(batch[g])
    BY <1>0, <1>7, CommitEffect DEF Commit, Stored
  <2>2. Elements(batch[g]) \subseteq Store!Pending
    BY <1>0, <1>4, <2>1 DEF Apart, Waiting, Unsettled
  <2>3. Elements(batch[g]) # {}
    <3>1. batch[g] # <<>> /\ batch[g] \in Seq(Event)
      BY <1>0, <2>1 DEF Filled, Busy, Unsettled, Typed, EventsTyped
    <3>2. batch[g][1] \in Elements(batch[g])
      BY <3>1 DEF Elements
    <3> QED BY <3>2
  <2>4. Rows' = [e \in Event |-> IF e \in Elements(batch[g]) THEN 1 ELSE Rows[e]]
    BY <1>1, <2>1
  <2>5. Store!Commit(Elements(batch[g]))
    BY <2>1, <2>2, <2>3, <2>4 DEF Store!Commit, Rows
  <2>6. Elements(batch[g]) \in SUBSET Event
    BY <1>3, <1>4, <2>2
  <2> QED BY <2>5, <2>6 DEF Store!Next
<1>8. ASSUME NEW g \in Gen, GiveUp(g) \/ Export(g) \/ TaskDone(g)
      PROVE  [Store!Next]_Store!vars
  <2>1. UNCHANGED <<put, db>>
    BY <1>0, <1>8, OtherEffects
  <2>2. CASE UNCHANGED <<dropped, degraded>>
    BY <1>2, <2>1, <2>2 DEF Store!vars, Rows
  <2>3. CASE /\ worker[g] = "give_up" /\ degraded' = TRUE
             /\ dropped' = dropped \cup Elements(batch[g])
    <3>1. Elements(batch[g]) \subseteq Store!Pending
      BY <1>0, <1>4, <2>3 DEF Apart, Waiting, Unsettled
    <3>2. Elements(batch[g]) \in SUBSET Event
      BY <1>3, <1>4, <3>1
    <3>3. Store!Lose(Elements(batch[g]))
      BY <1>2, <2>1, <2>3, <3>1 DEF Store!Lose, Rows
    <3> QED BY <3>2, <3>3 DEF Store!Next
  <2> QED BY <1>0, <1>8, <2>2, <2>3, OtherEffects
<1>9. ASSUME NEW g \in Gen, CollectBatch(g) PROVE UNCHANGED Store!vars
  <2>1. UNCHANGED <<put, db, dropped, degraded>>
    BY <1>9 DEF CollectBatch, producerVars
  <2> QED BY <1>2, <2>1 DEF Store!vars, Rows
<1>10. CASE Quiet
  <2>1. UNCHANGED <<put, db, dropped>>
    BY <1>10 DEF Quiet
  <2>2. CASE UNCHANGED degraded
    BY <1>2, <2>1, <2>2 DEF Store!vars, Rows
  <2>3. CASE degraded' = TRUE
    <3>1. Store!Lose({}) /\ {} \in SUBSET Event
      BY <1>2, <2>1, <2>3 DEF Store!Lose, Rows
    <3> QED BY <3>1 DEF Store!Next
  <2> QED BY <1>0, <2>2, <2>3 DEF Typed, ThreadsTyped
<1> QED BY <1>0, <1>5, <1>6, <1>7, <1>8, <1>9, <1>10, QuietSteps DEF MovesAnEvent

\* The initial state is the store's: nothing accepted, stored or lost.
LEMMA StoreInit == Init => Store!Init
<1> SUFFICES ASSUME Init PROVE Store!Init
  OBVIOUS
<1>1. 1 .. put = {} /\ dropped = {} /\ degraded = FALSE /\ db = <<>>
  BY DEF Init
<1>2. ASSUME NEW e \in Event
      PROVE  Cardinality({i \in DOMAIN db : db[i] = e}) = 0
  <2>1. {i \in DOMAIN db : db[i] = e} = {}
    BY <1>1
  <2> QED BY <2>1, FS_EmptySet
<1> QED BY <1>1, <1>2 DEF Store!Init

\* EventQueue implements EventStore: queues, batches, retries, several writer
\* threads and the close of the manager show only as events that are accepted,
\* stored once together with their batch, or lost in degraded mode.
THEOREM QueueImplementsStore == Spec => StoreSpec
<1>1. IInv /\ [Next]_vars => [Store!Next]_Store!vars
  BY StoreStep
<1> QED BY <1>1, StoreInit, QueueInvariant, PTL DEF Spec, StoreSpec, Store!Spec

===============================================================================
