------------------------------ MODULE AtomicJson ------------------------------
(* One memory file, its backup and its lock, as atomic_write_json and           *)
(* safe_read_json (wq_workflow/safe_io.py) use utils/safe_json.py to keep them. *)
(* Writers save under a lock file that lives beside the data and outlives its   *)
(* holder; readers take no lock.  Every step between two file-system calls is   *)
(* a step of its own, because another process, a crash or a refused call can    *)
(* come between any two of them.                                                *)
(*                                                                              *)
(* A payload is the writer that saved it last: who wrote a file is all that the *)
(* properties tell apart.                                                       *)
EXTENDS Naturals

CONSTANTS
  Writers,    \* threads and processes that save this file
  Readers,    \* threads and processes that load it
  Missing,    \* no such file; as an answer, the caller's default
  Corrupt,    \* text that json.load refuses
  MaxFaults   \* BOUND: crashes and refused file calls per behaviour

ASSUME FilesAssumption ==
  /\ Missing # Corrupt
  /\ Missing \notin Writers /\ Corrupt \notin Writers
ASSUME FaultsAssumption == MaxFaults \in Nat

VARIABLES
  main,       \* what the file holds
  bak,        \* what the .bak file beside it holds
  lock,       \* the lock file: "absent", "fresh" or "stale" (older than 120 s)
  pc,         \* where each writer is in atomic_write_json
  copied,     \* what a writer read from the file for its backup
  rpc,        \* where each reader is in safe_json_read
  answer,     \* what each reader was given last, "none" before
  faults,     \* crashes and refused calls so far
  aged,       \* whether a lock file ever became stale
  corrupted   \* whether something outside ever damaged the file

vars == <<main, bak, lock, pc, copied, rpc, answer, faults, aged, corrupted>>
files == <<main, bak>>
readers == <<rpc, answer>>
history == <<faults, aged, corrupted>>

Contents == Writers \cup {Missing, Corrupt}

\* Between the return of __enter__ and the unlink of __exit__.
InsidePcs == {"enter", "prebackup", "temp", "replace", "postbackup", "copy", "exit"}
Inside(w) == pc[w] \in InsidePcs

TypeOK ==
  /\ main \in Contents
  /\ bak \in Contents
  /\ lock \in {"absent", "fresh", "stale"}
  /\ pc \in [Writers -> InsidePcs \cup {"idle", "open", "stat", "unlink", "deadline"}]
  /\ copied \in [Writers -> Contents]
  /\ rpc \in [Readers -> {"idle", "quarantine", "backup"}]
  /\ answer \in [Readers -> Contents \cup {"none"}]
  /\ faults \in 0..MaxFaults
  /\ aged \in BOOLEAN
  /\ corrupted \in BOOLEAN

Init ==
  /\ main = Missing /\ bak = Missing
  /\ lock = "absent"
  /\ pc = [w \in Writers |-> "idle"]
  /\ copied = [w \in Writers |-> Missing]
  /\ rpc = [r \in Readers |-> "idle"]
  /\ answer = [r \in Readers |-> "none"]
  /\ faults = 0
  /\ aged = FALSE
  /\ corrupted = FALSE

Goto(w, from, to) == pc[w] = from /\ pc' = [pc EXCEPT ![w] = to]

-------------------------------------------------------------------------------
\* FileLock

\* atomic_write_json reaches its lock; the deadline is five seconds away.
Begin(w) ==
  /\ Goto(w, "idle", "open")
  /\ UNCHANGED <<files, lock, copied, readers, history>>

\* os.open with O_CREAT | O_EXCL: the file is created or found to exist.
Open(w) ==
  /\ \/ lock = "absent" /\ lock' = "fresh" /\ Goto(w, "open", "enter")
     \/ lock # "absent" /\ UNCHANGED lock /\ Goto(w, "open", "stat")
  /\ UNCHANGED <<files, copied, readers, history>>

\* The lock file is created and os.write of its owner fails: nobody enters, and
\* nobody removes the file.
OpenFails(w) ==
  /\ lock = "absent" /\ faults < MaxFaults
  /\ lock' = "fresh"
  /\ faults' = faults + 1
  /\ Goto(w, "open", "idle")
  /\ UNCHANGED <<files, copied, readers, aged, corrupted>>

\* Mutant: the age is compared the wrong way and no lock file is ever too old.
StatNever(w) ==
  /\ Goto(w, "stat", "deadline")
  /\ UNCHANGED <<files, lock, copied, readers, history>>

\* _remove_stale_lock looks at the age; a file that is gone is not stale.
Stat(w) ==
  /\ Goto(w, "stat", IF lock = "stale" THEN "unlink" ELSE "deadline")
  /\ UNCHANGED <<files, lock, copied, readers, history>>

\* ... and unlinks whatever is there by then.
Unlink(w) ==
  /\ lock' = "absent"
  /\ Goto(w, "unlink", "deadline")
  /\ UNCHANGED <<files, copied, readers, history>>

\* Mutant: a writer that gives up cleans up the way __exit__ does.
DeadlineUnlinks(w) ==
  /\ \/ Goto(w, "deadline", "open") /\ UNCHANGED lock
     \/ Goto(w, "deadline", "idle") /\ lock' = "absent"
  /\ UNCHANGED <<files, copied, readers, history>>

\* The writer tries again, or gives up with FileLockTimeout: the save is skipped.
Deadline(w) ==
  /\ Goto(w, "deadline", "open") \/ Goto(w, "deadline", "idle")
  /\ UNCHANGED <<files, lock, copied, readers, history>>

\* Two minutes pass: the holder died, or is that slow.
LockAges ==
  /\ lock = "fresh"
  /\ lock' = "stale"
  /\ aged' = TRUE
  /\ UNCHANGED <<files, pc, copied, readers, faults, corrupted>>

-------------------------------------------------------------------------------
\* atomic_write_json under the lock

\* The backup is opened for writing, which empties it.
OpenBackup(w) ==
  /\ bak' = Corrupt
  /\ copied' = [copied EXCEPT ![w] = main]

\* The backup before the write; without a file there is nothing to back up.
PreBackup(w) ==
  /\ \/ main # Missing /\ OpenBackup(w) /\ Goto(w, "enter", "prebackup")
     \/ main = Missing /\ Goto(w, "enter", "temp") /\ UNCHANGED <<bak, copied>>
  /\ UNCHANGED <<main, lock, readers, history>>

FillPreBackup(w) ==
  /\ bak' = copied[w]
  /\ Goto(w, "prebackup", "temp")
  /\ UNCHANGED <<main, lock, copied, readers, history>>

\* Mutant: the payload is written into the file itself.
WriteInPlace(w) ==
  /\ Goto(w, "temp", "replace")
  /\ main' = Corrupt
  /\ UNCHANGED <<bak, lock, copied, readers, history>>

\* The payload goes to a temporary file nobody else has (mkstemp), and is synced.
WriteTemp(w) ==
  /\ Goto(w, "temp", "replace")
  /\ UNCHANGED <<files, lock, copied, readers, history>>

\* os.replace.
Replace(w) ==
  /\ main' = w
  /\ Goto(w, "replace", "postbackup")
  /\ UNCHANGED <<bak, lock, copied, readers, history>>

\* The write or every attempt to replace fails: the temporary file is removed and
\* the save is skipped.
Skip(w) ==
  /\ Goto(w, "temp", "exit") \/ Goto(w, "replace", "exit")
  /\ UNCHANGED <<files, lock, copied, readers, history>>

\* Mutant: the backup of before the write is thought to be enough.
NoPostBackup(w) ==
  /\ Goto(w, "postbackup", "exit")
  /\ UNCHANGED <<files, lock, copied, readers, history>>

\* The backup after the write; a file that has vanished cannot be opened.
PostBackup(w) ==
  /\ \/ main # Missing /\ OpenBackup(w) /\ Goto(w, "postbackup", "copy")
     \/ main = Missing /\ Goto(w, "postbackup", "exit") /\ UNCHANGED <<bak, copied>>
  /\ UNCHANGED <<main, lock, readers, history>>

FillPostBackup(w) ==
  /\ bak' = copied[w]
  /\ Goto(w, "copy", "exit")
  /\ UNCHANGED <<main, lock, copied, readers, history>>

\* A backup copy fails half way: the OSError is swallowed and the save goes on.
BackupFails(w) ==
  /\ faults < MaxFaults
  /\ faults' = faults + 1
  /\ Goto(w, "prebackup", "temp") \/ Goto(w, "copy", "exit")
  /\ UNCHANGED <<files, lock, copied, readers, aged, corrupted>>

\* __exit__ unlinks the lock file, whosever it is by then.
Exit(w) ==
  /\ lock' = "absent"
  /\ Goto(w, "exit", "idle")
  /\ UNCHANGED <<files, copied, readers, history>>

\* The process dies inside; the lock file stays.
Crash(w) ==
  /\ Inside(w) /\ faults < MaxFaults
  /\ faults' = faults + 1
  /\ pc' = [pc EXCEPT ![w] = "idle"]
  /\ UNCHANGED <<files, lock, copied, readers, aged, corrupted>>

-------------------------------------------------------------------------------
\* safe_read_json

Answer(r, content) == answer' = [answer EXCEPT ![r] = content]

\* json.load of the file: no file gives the default without a look at the backup.
Read(r) ==
  /\ rpc[r] = "idle"
  /\ \/ main # Corrupt /\ Answer(r, main) /\ UNCHANGED rpc
     \/ main = Corrupt /\ Answer(r, "none")
                       /\ rpc' = [rpc EXCEPT ![r] = "quarantine"]
  /\ UNCHANGED <<files, lock, pc, copied, history>>

\* _quarantine_corrupt renames whatever the file is by then, without the lock; the
\* rename itself may be refused.
Quarantine(r) ==
  /\ rpc[r] = "quarantine"
  /\ main' \in {main, Missing}
  /\ rpc' = [rpc EXCEPT ![r] = "backup"]
  /\ UNCHANGED <<bak, lock, pc, copied, answer, history>>

\* An unreadable backup gives the default.
ReadBackup(r) ==
  /\ rpc[r] = "backup"
  /\ Answer(r, IF bak = Corrupt THEN Missing ELSE bak)
  /\ rpc' = [rpc EXCEPT ![r] = "idle"]
  /\ UNCHANGED <<files, lock, pc, copied, history>>

\* Something that does not go through this code damages the file, once.
Damage ==
  /\ ~corrupted /\ main \in Writers
  /\ main' = Corrupt
  /\ corrupted' = TRUE
  /\ UNCHANGED <<bak, lock, pc, copied, readers, faults, aged>>

-------------------------------------------------------------------------------
\* The steps a running writer takes; Begin, a crash and refused calls are not owed.
WriterStep(w) ==
  \/ Open(w) \/ Stat(w) \/ Unlink(w) \/ Deadline(w)
  \/ PreBackup(w) \/ FillPreBackup(w) \/ WriteTemp(w) \/ Replace(w)
  \/ PostBackup(w) \/ FillPostBackup(w) \/ Exit(w)

WriterFault(w) == OpenFails(w) \/ Skip(w) \/ BackupFails(w) \/ Crash(w)

ReaderStep(r) == Read(r) \/ Quarantine(r) \/ ReadBackup(r)

Next ==
  \/ \E w \in Writers : Begin(w) \/ WriterStep(w) \/ WriterFault(w)
  \/ \E r \in Readers : ReaderStep(r)
  \/ LockAges
  \/ Damage

Spec == Init /\ [][Next]_vars

\* A thread inside the code goes on, and time passes.
Fairness == (\A w \in Writers : WF_vars(WriterStep(w))) /\ WF_vars(LockAges)

FairSpec == Spec /\ Fairness

-------------------------------------------------------------------------------
\* Until something outside damages it, a file that was saved stays saved and
\* whole: no crash, refused replace, reader or second writer makes it vanish or
\* leaves half a payload in it (safe_json.py:51-78 and the rename at 126).
WholeStaysWhole ==
  [][(main \in Writers) => (main' \in Writers \/ corrupted')]_vars

\* As long as no lock file has become stale, two writers are never inside at
\* once, whatever crashes, times out or fails to enter (safe_io.py:37-61).
ExclusionUntilStale ==
  ~aged => \A v, w \in Writers : Inside(v) /\ Inside(w) => v = w

\* With no crash, failed copy, stale lock or outside damage behind it, a file at
\* rest has its own contents as its backup, skipped saves included
\* (safe_io.py:122-139).
BackupInStep ==
  faults = 0 /\ ~aged /\ ~corrupted /\ lock = "absent" => bak = main

\* While writers keep coming, a lock file does not stay for ever, whoever left it
\* there (safe_io.py:44-48 and 63-74).
LockIsFreed ==
  (\E w \in Writers : []<>(pc[w] = "open")) =>
    (lock # "absent" ~> lock = "absent")

\* A reader is given its default only when there is no good backup to give.
BackupIsUsed ==
  [][\A r \in Readers :
       answer'[r] = Missing /\ answer[r] # Missing => bak \notin Writers]_vars
===============================================================================
