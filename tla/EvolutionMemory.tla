-------------------------- MODULE EvolutionMemory --------------------------
(***************************************************************************)
(* VersionedEvolutionMemory (core/evolution/versioned_memory.py), the      *)
(* asynchronous store under the survival memory, the pending rewards and   *)
(* the template population.  The main thread updates it by loading the     *)
(* payload, changing it and saving it (SurvivalMemoryManager.register_     *)
(* alpha, update_survival, ...), which leaves the payload pending; a       *)
(* daemon thread takes what is pending under the lock, releases the lock   *)
(* and writes the payload under it again.  atexit closes the store.        *)
(*                                                                         *)
(* What runs while the lock is held is one action.  A payload is the set   *)
(* of the updates it contains and the number of the save that made it;     *)
(* the file is replaced atomically, so a crash leaves what a state holds.  *)
(***************************************************************************)
EXTENDS Integers

CONSTANT MaxUpdates  \* bound: updates the main thread makes

ASSUME UpdatesAssumption == MaxUpdates \in Nat

Update  == 1 .. MaxUpdates
Payload == [rows : SUBSET Update, seq : 0 .. MaxUpdates]
None    == [rows |-> {}, seq |-> -1]

VARIABLES
  main,     \* "idle", "loaded", then close: "closing", "flushing", "joining", "exited"
  loaded,   \* the payload the main thread is about to change
  saves,    \* saves so far
  pending,  \* _pending_payload
  file,     \* the payload the file holds
  worker,   \* "loop", "writing", "last_writing" or "dead"
  taken,    \* [main and worker -> the payload each has taken to write]
  stop,     \* _stop_event
  failed    \* history: a write failed, which _write_payload only logs

vars == <<main, loaded, saves, pending, file, worker, taken, stop, failed>>

TypeOK ==
  /\ main \in {"idle", "loaded", "closing", "flushing", "joining", "exited"}
  /\ loaded \in Payload
  /\ saves \in 0 .. MaxUpdates
  /\ pending \in Payload \cup {None}
  /\ file \in Payload
  /\ worker \in {"loop", "writing", "last_writing", "dead"}
  /\ taken \in [{"main", "worker"} -> Payload \cup {None}]
  /\ stop \in BOOLEAN
  /\ failed \in BOOLEAN

Empty == [rows |-> {}, seq |-> 0]

\* The constructor has written the default payload and started the thread.
Init ==
  /\ main = "idle" /\ loaded = Empty /\ saves = 0
  /\ pending = None /\ file = Empty
  /\ worker = "loop" /\ taken = [t \in {"main", "worker"} |-> None]
  /\ stop = FALSE /\ failed = FALSE

-----------------------------------------------------------------------------
(* The main thread.                                                        *)

\* load_payload: the pending payload, or else the file.
Load ==
  /\ main = "idle" /\ saves < MaxUpdates
  /\ loaded' = IF pending # None THEN pending ELSE file
  /\ main' = "loaded"
  /\ UNCHANGED <<saves, pending, file, worker, taken, stop, failed>>

Changed == [rows |-> loaded.rows \cup {saves + 1}, seq |-> saves + 1]

\* Mutant: a payload that finds another one pending is written at once, and the
\* pending one is left to be written later.
SaveThrough ==
  /\ main = "loaded"
  /\ saves' = saves + 1
  /\ IF pending = None THEN pending' = Changed /\ UNCHANGED file
                       ELSE file' = Changed /\ UNCHANGED pending
  /\ main' = "idle"
  /\ UNCHANGED <<loaded, worker, taken, stop, failed>>

\* save_payload: pending is replaced, whatever it was.
Save ==
  /\ main = "loaded"
  /\ saves' = saves + 1
  /\ pending' = Changed
  /\ main' = "idle"
  /\ UNCHANGED <<loaded, file, worker, taken, stop, failed>>

\* The interpreter exits and runs close.
Close ==
  /\ main = "idle"
  /\ main' = "closing"
  /\ UNCHANGED <<loaded, saves, pending, file, worker, taken, stop, failed>>

-----------------------------------------------------------------------------
(* flush, by the worker and by close.                                      *)

\* The first half of flush, under the lock.
Take(t) ==
  /\ taken' = [taken EXCEPT ![t] = pending]
  /\ pending' = None
  /\ UNCHANGED <<loaded, saves, file, failed>>

\* Mutant: pending is cleared when the payload has been written, not when it
\* is taken, and with it what was saved in the meantime.
WriteThenClear(t) ==
  /\ pending' = None
  /\ taken' = [taken EXCEPT ![t] = None]
  /\ file' = IF taken[t] = None THEN file ELSE taken[t]
  /\ UNCHANGED <<loaded, saves, failed>>

\* The second half, _write_payload under the lock again.  A failure is logged
\* and the payload is gone.
Write(t) ==
  /\ taken' = [taken EXCEPT ![t] = None]
  /\ \/ file' = (IF taken[t] = None THEN file ELSE taken[t]) /\ UNCHANGED failed
     \/ taken[t] # None /\ failed' = TRUE /\ UNCHANGED file
  /\ UNCHANGED <<loaded, saves, pending>>

\* _flush_loop.  The last flush follows the stop event.
WorkerTakes ==
  /\ main # "exited" /\ worker = "loop"
  /\ stop \/ pending # None
  /\ Take("worker")
  /\ worker' = IF stop THEN "last_writing" ELSE "writing"
  /\ UNCHANGED <<main, stop>>

WorkerWrites ==
  /\ main # "exited" /\ worker \in {"writing", "last_writing"}
  /\ Write("worker")
  /\ worker' = IF worker = "writing" THEN "loop" ELSE "dead"
  /\ UNCHANGED <<main, stop>>

CloseTakes ==
  /\ main = "closing"
  /\ Take("main")
  /\ main' = "flushing"
  /\ UNCHANGED <<worker, stop>>

CloseWrites ==
  /\ main = "flushing"
  /\ Write("main")
  /\ stop' = TRUE
  /\ main' = "joining"
  /\ UNCHANGED worker

\* The worker has ended, or has not within a second; a daemon thread does not
\* survive the process.
Exit ==
  /\ main = "joining"
  /\ main' = "exited"
  /\ UNCHANGED <<loaded, saves, pending, file, worker, taken, stop, failed>>

Worker == WorkerTakes \/ WorkerWrites
Closing == Close \/ CloseTakes \/ CloseWrites \/ Exit

Next == Load \/ Save \/ Worker \/ Closing

\* The worker polls every quarter of a second.  Nothing makes the main thread
\* save or exit.
Spec == Init /\ [][Next]_vars /\ WF_vars(Worker)

-----------------------------------------------------------------------------
(* Properties.                                                             *)

Open == main \in {"idle", "loaded"}

\* While the store is open and no write has failed, the payload saved last is
\* pending, in the worker's hands or in the file: a save that lands between
\* the two halves of flush is not lost.
LastSaveKept ==
  Open /\ ~failed => saves \in {pending.seq, taken["worker"].seq, file.seq}

\* While the store is open the file never goes back to an earlier save,
\* although it is written outside the section that takes the payload.
FileNeverOlder == [][Open => file'.seq >= file.seq]_vars

\* Every save reaches the file, itself or through a later one, unless a write
\* fails or the store is closed first.
EventuallyOnDisk ==
  \A n \in Update : saves = n ~> file.seq >= n \/ failed \/ ~Open

\* Updates made one after another by one thread accumulate
\* (tests/test_evolution_layer.py, test_survival_score_formula).
UpdatesAccumulate == main = "loaded" /\ ~failed => loaded.rows = 1 .. saves
=============================================================================
