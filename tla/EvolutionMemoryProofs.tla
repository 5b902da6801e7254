----------------------- MODULE EvolutionMemoryProofs -----------------------
(***************************************************************************)
(* Proofs about the store of the evolution memory, for any number of       *)
(* updates.  The inductive invariant orders the three places a payload can *)
(* be in: the file holds an older save than the worker's hands, these an   *)
(* older one than what is pending.                                         *)
(***************************************************************************)
EXTENDS EvolutionMemory, TLAPS

-----------------------------------------------------------------------------
(* Type correctness.                                                       *)

\* A payload is only loaded to be saved, so there is a number left for it.
TypeInv == TypeOK /\ (main = "loaded" => saves < MaxUpdates)

LEMMA InitTypeInv == ASSUME Init PROVE TypeInv
<1>1. Empty \in Payload
  BY UpdatesAssumption DEF Empty, Payload
<1>2. taken \in [{"main", "worker"} -> Payload \cup {None}]
  BY DEF Init
<1>3. loaded \in Payload /\ file \in Payload /\ pending \in Payload \cup {None}
  BY <1>1 DEF Init
<1>4. saves \in 0 .. MaxUpdates
  BY UpdatesAssumption DEF Init
<1>5. main = "idle" /\ worker = "loop" /\ stop = FALSE /\ failed = FALSE
  BY DEF Init
<1>. QED
  BY <1>2, <1>3, <1>4, <1>5 DEF TypeInv, TypeOK

\* One step of Next keeps every variable in its set.
LEMMA NextTypeInv == ASSUME TypeInv, [Next]_vars PROVE TypeInv'
<1> USE UpdatesAssumption DEF TypeInv, TypeOK
<1>1. CASE Load
  <2>1. loaded' \in Payload
    BY <1>1 DEF Load
  <2>. QED
    BY <1>1, <2>1 DEF Load
<1>2. CASE Save
  <2>1. saves + 1 \in Update
    BY <1>2 DEF Save, Update
  <2>2. Changed \in Payload
    BY <2>1 DEF Changed, Payload, Update
  <2>. QED
    BY <1>2, <2>1, <2>2 DEF Save, Update
<1>3. CASE WorkerTakes
  BY <1>3 DEF WorkerTakes, Take
<1>4. CASE WorkerWrites
  BY <1>4 DEF WorkerWrites, Write
<1>5. CASE Close \/ CloseTakes \/ CloseWrites \/ Exit
  BY <1>5 DEF Close, CloseTakes, CloseWrites, Exit, Take, Write
<1>6. CASE UNCHANGED vars
  BY <1>6 DEF vars
<1>. QED
  BY <1>1, <1>2, <1>3, <1>4, <1>5, <1>6 DEF Next, Worker, Closing

\* The variables of the store stay in their sets (versioned_memory.py): what
\* flush takes and what it writes is a payload, never the None of an idle store.
THEOREM TypeCorrect == Spec => []TypeOK
<1>1. Init => TypeInv
  BY InitTypeInv
<1>2. TypeInv /\ [Next]_vars => TypeInv'
  BY NextTypeInv
<1>3. TypeInv => TypeOK
  BY DEF TypeInv
<1>. QED
  BY <1>1, <1>2, <1>3, PTL DEF Spec

-----------------------------------------------------------------------------
(* The order of the payloads.                                              *)

InHand == taken["worker"]

\* The worker has a payload in its hands exactly while it is writing, which is
\* newer than the file and older than a pending one.
InOrder ==
  /\ worker \in {"loop", "dead"} <=> InHand = None
  /\ file.seq <= saves
  /\ InHand # None => file.seq <= InHand.seq /\ InHand.seq <= saves
  /\ pending # None => pending.seq = saves
  /\ ~stop

IInv == TypeInv /\ (Open => InOrder /\ LastSaveKept)

LEMMA InitIInv == ASSUME Init PROVE IInv
<1>1. TypeInv
  BY InitTypeInv
<1>2. InHand = None /\ file.seq = 0 /\ saves = 0 /\ pending = None /\ ~stop
      /\ worker = "loop"
  BY DEF Init, InHand, Empty
<1>. QED
  BY <1>1, <1>2 DEF IInv, InOrder, LastSaveKept

LEMMA NextIInv == ASSUME IInv, [Next]_vars PROVE IInv'
<1> USE UpdatesAssumption DEF IInv, TypeInv
<1>1. TypeInv'
  BY NextTypeInv
<1>2. SUFFICES ASSUME Open' PROVE InOrder' /\ LastSaveKept'
  BY <1>1
<1>3. CASE Load
  BY <1>2, <1>3 DEF Load, InOrder, InHand, LastSaveKept, Open
<1>4. CASE Save
  <2>1. pending' = Changed /\ Changed # None /\ Changed.seq = saves + 1
    BY <1>4 DEF Save, Changed, None, TypeOK
  <2>2. UNCHANGED <<file, worker, taken, stop, failed>> /\ saves' = saves + 1 /\ Open
    BY <1>4 DEF Save, Open
  <2>3. InHand # None => InHand \in Payload
    BY DEF TypeOK, InHand
  <2>4. InOrder'
    BY <2>1, <2>2, <2>3 DEF InOrder, InHand, TypeOK, Payload
  <2>5. LastSaveKept'
    BY <2>1, <2>2 DEF LastSaveKept
  <2>. QED
    BY <2>4, <2>5
<1>5. CASE WorkerTakes
  <2>1. Open /\ worker = "loop" /\ InHand = None
    BY <1>2, <1>5 DEF WorkerTakes, InOrder, Open
  <2>2. ~stop /\ pending # None /\ worker' = "writing"
    BY <1>5, <2>1 DEF WorkerTakes, InOrder
  <2>3. InHand' = pending /\ pending' = None
    BY <1>5 DEF WorkerTakes, Take, InHand, TypeOK
  <2>4. UNCHANGED <<saves, file, failed, stop>>
    BY <1>5 DEF WorkerTakes, Take
  <2>5. pending \in Payload /\ pending.seq = saves /\ file.seq <= saves
    BY <2>1, <2>2 DEF TypeOK, InOrder
  <2>6. InOrder'
    BY <2>1, <2>2, <2>3, <2>4, <2>5 DEF InOrder, TypeOK, Payload
  <2>7. LastSaveKept'
    BY <2>3, <2>4, <2>5 DEF LastSaveKept, InHand
  <2>. QED
    BY <2>6, <2>7
<1>6. CASE WorkerWrites
  <2>1. Open /\ ~stop /\ worker' \in {"loop", "dead"}
    BY <1>2, <1>6 DEF WorkerWrites, Open, InOrder
  <2>2. InHand # None /\ InHand \in Payload /\ InHand' = None
    BY <1>6, <2>1 DEF WorkerWrites, Write, InOrder, InHand, TypeOK
  <2>3. UNCHANGED <<saves, pending, stop>>
    BY <1>6 DEF WorkerWrites, Write
  <2>4. \/ file' = InHand /\ failed' = failed
        \/ file' = file /\ failed'
    BY <1>6, <2>2 DEF WorkerWrites, Write, InHand
  <2>5. InOrder'
    BY <2>1, <2>2, <2>3, <2>4 DEF InOrder, TypeOK, Payload
  <2>6. LastSaveKept'
    <3>1. ~failed' => file' = InHand /\ ~failed
      BY <2>4 DEF TypeOK
    <3>2. saves \in {pending.seq, InHand.seq, file.seq} \/ failed
      BY <2>1 DEF LastSaveKept, InHand
    <3>3. InHand.seq \in 0 .. saves /\ file.seq <= InHand.seq /\ file.seq \in Int
      BY <2>1, <2>2 DEF InOrder, Payload, TypeOK
    <3>4. ~failed' => saves \in {pending.seq, file'.seq}
      BY <3>1, <3>2, <3>3 DEF TypeOK
    <3>. QED
      BY <3>4, <2>3 DEF LastSaveKept
  <2>. QED
    BY <2>5, <2>6
<1>7. CASE Close \/ CloseTakes \/ CloseWrites \/ Exit
  BY <1>2, <1>7 DEF Close, CloseTakes, CloseWrites, Exit, Open
<1>8. CASE UNCHANGED vars
  BY <1>2, <1>8 DEF vars, InOrder, InHand, LastSaveKept, Open
<1>. QED
  BY <1>3, <1>4, <1>5, <1>6, <1>7, <1>8 DEF Next, Worker, Closing

\* The invariant holds of every reachable state.
LEMMA Invariance == Spec => []IInv
<1>1. Init => IInv
  BY InitIInv
<1>2. IInv /\ [Next]_vars => IInv'
  BY NextIInv
<1>. QED
  BY <1>1, <1>2, PTL DEF Spec

\* While the store is open and every write succeeds, no interleaving of saves
\* with the two halves of flush loses the last saved payload.
THEOREM LastSaveIsKept == Spec => []LastSaveKept
<1>1. IInv => LastSaveKept
  BY DEF IInv, LastSaveKept
<1>. QED
  BY <1>1, Invariance, PTL

\* What one step does to the file, under the invariant.
LEMMA StepNeverOlder ==
  ASSUME IInv, [Next]_vars PROVE [Open => file'.seq >= file.seq]_vars
<1> SUFFICES ASSUME Open PROVE file'.seq >= file.seq
  OBVIOUS
<1>1. file \in Payload
  BY DEF IInv, TypeInv, TypeOK
<1>2. file'.seq >= file.seq \/ file' = file
  <2>1. CASE WorkerWrites
    <3>1. InHand # None
      BY <2>1 DEF WorkerWrites, IInv, InOrder
    <3>2. InHand \in Payload /\ file.seq <= InHand.seq
      BY <3>1 DEF IInv, InOrder, TypeInv, TypeOK, InHand
    <3>3. file' = InHand \/ file' = file
      BY <2>1 DEF WorkerWrites, Write, InHand
    <3>. QED
      BY <1>1, <3>2, <3>3, UpdatesAssumption DEF Payload
  <2>2. CASE Load \/ Save \/ WorkerTakes
    BY <2>2 DEF Load, Save, WorkerTakes, Take
  <2>3. CASE Close \/ CloseTakes \/ Exit
    BY <2>3 DEF Close, CloseTakes, Exit, Take
  <2>4. CASE CloseWrites
    BY <2>4 DEF CloseWrites, Open
  <2>5. CASE UNCHANGED vars
    BY <2>5 DEF vars
  <2>. QED
    BY <2>1, <2>2, <2>3, <2>4, <2>5 DEF Next, Worker, Closing
<1>. QED
  BY <1>1, <1>2, UpdatesAssumption DEF Payload

\* While the store is open the file only moves to later saves, although the
\* payload is written in another critical section than it was taken in.
THEOREM FileIsNeverOlder == Spec => FileNeverOlder
<1>1. IInv /\ [Next]_vars => [Open => file'.seq >= file.seq]_vars
  BY StepNeverOlder
<1>. QED
  BY <1>1, Invariance, PTL DEF Spec, FileNeverOlder
=============================================================================
