--------------------------- MODULE AtomicJsonProofs ---------------------------
(* Proofs about one memory file, for any number of writers and readers and any  *)
(* number of faults.  Three inductive invariants, each resting on the one       *)
(* before: the types; that writers exclude each other until a lock file is      *)
(* stale; and what the file and its backup hold at each point of a save that    *)
(* nothing disturbed.                                                           *)
EXTENDS AtomicJson, TLAPS

-------------------------------------------------------------------------------
(* Type correctness. *)

LEMMA InitTypeOK == ASSUME Init PROVE TypeOK
<1>1. main \in Contents /\ bak \in Contents /\ faults \in 0..MaxFaults
  BY FaultsAssumption DEF Init, Contents
<1>2. copied \in [Writers -> Contents] /\ answer \in [Readers -> Contents \cup {"none"}]
  BY DEF Init, Contents
<1>. QED
  BY <1>1, <1>2 DEF Init, TypeOK

\* A step of one writer keeps every variable in its set.
LEMMA WriterTypeOK ==
  ASSUME TypeOK, NEW w \in Writers, Begin(w) \/ WriterStep(w) \/ WriterFault(w)
  PROVE  TypeOK'
<1> USE FaultsAssumption DEF TypeOK, Goto, files, readers, history, InsidePcs
<1>1. CASE Begin(w)
  BY <1>1 DEF Begin
<1>2. CASE Open(w)
  BY <1>2 DEF Open
<1>3. CASE Stat(w)
  BY <1>3 DEF Stat
<1>4. CASE Unlink(w)
  BY <1>4 DEF Unlink
<1>5. CASE Deadline(w)
  BY <1>5 DEF Deadline
<1>6. CASE PreBackup(w)
  BY <1>6 DEF PreBackup, OpenBackup, Contents
<1>7. CASE FillPreBackup(w)
  BY <1>7 DEF FillPreBackup
<1>8. CASE WriteTemp(w)
  BY <1>8 DEF WriteTemp
<1>9. CASE Replace(w)
  BY <1>9 DEF Replace, Contents
<1>10. CASE PostBackup(w)
  BY <1>10 DEF PostBackup, OpenBackup, Contents
<1>11. CASE FillPostBackup(w)
  BY <1>11 DEF FillPostBackup
<1>12. CASE Exit(w)
  BY <1>12 DEF Exit
<1>13. CASE OpenFails(w)
  BY <1>13 DEF OpenFails
<1>14. CASE Skip(w)
  BY <1>14 DEF Skip
<1>15. CASE BackupFails(w)
  BY <1>15 DEF BackupFails
<1>16. CASE Crash(w)
  BY <1>16 DEF Crash
<1>. QED
  BY <1>1, <1>2, <1>3, <1>4, <1>5, <1>6, <1>7, <1>8, <1>9, <1>10, <1>11, <1>12,
     <1>13, <1>14, <1>15, <1>16 DEF WriterStep, WriterFault

LEMMA NextTypeOK == ASSUME TypeOK, [Next]_vars PROVE TypeOK'
<1>1. CASE \E w \in Writers : Begin(w) \/ WriterStep(w) \/ WriterFault(w)
  BY <1>1, WriterTypeOK
<1>2. CASE \E r \in Readers : ReaderStep(r)
  BY <1>2 DEF ReaderStep, Read, Quarantine, ReadBackup, Answer, TypeOK, Contents,
              files, history
<1>3. CASE LockAges
  BY <1>3 DEF LockAges, TypeOK, files, readers
<1>4. CASE Damage
  BY <1>4 DEF Damage, TypeOK, Contents, readers
<1>5. CASE UNCHANGED vars
  BY <1>5 DEF vars, TypeOK
<1>. QED
  BY <1>1, <1>2, <1>3, <1>4, <1>5 DEF Next

\* The files only ever hold a payload, nothing or damaged text, and no writer or
\* reader is anywhere the code has no place for (safe_io.py, safe_json.py).
THEOREM TypeCorrect == Spec => []TypeOK
<1>1. Init => TypeOK
  BY InitTypeOK
<1>2. TypeOK /\ [Next]_vars => TypeOK'
  BY NextTypeOK
<1>. QED
  BY <1>1, <1>2, PTL DEF Spec

-------------------------------------------------------------------------------
(* Mutual exclusion. *)

\* Until one is stale, a lock file is only removed by the writer it belongs to.
LockInv ==
  ~aged =>
    /\ lock # "stale"
    /\ \A w \in Writers : pc[w] # "unlink"
    /\ \A w \in Writers : Inside(w) => lock # "absent"
    /\ \A v, w \in Writers : Inside(v) /\ Inside(w) => v = w

LEMMA NextLockInv == ASSUME TypeOK, LockInv, [Next]_vars PROVE LockInv'
<1> USE DEF Goto, history
<1>1. ASSUME NEW w \in Writers, Begin(w) \/ WriterStep(w) \/ WriterFault(w)
      PROVE  LockInv'
  <2>1. CASE Begin(w)
    BY <2>1 DEF Begin, LockInv, TypeOK, Inside, InsidePcs
  <2>2. CASE Open(w)
    BY <2>2 DEF Open, LockInv, TypeOK, Inside, InsidePcs
  <2>3. CASE Stat(w)
    <3>1. lock = "stale" => aged
      BY DEF LockInv
    <3>. QED
      BY <2>3, <3>1 DEF Stat, LockInv, TypeOK, Inside, InsidePcs
  <2>4. CASE Unlink(w)
    BY <2>4 DEF Unlink, LockInv
  <2>5. CASE Deadline(w)
    BY <2>5 DEF Deadline, LockInv, TypeOK, Inside, InsidePcs
  <2>6. CASE PreBackup(w)
    BY <2>6 DEF PreBackup, LockInv, TypeOK, Inside, InsidePcs
  <2>7. CASE FillPreBackup(w)
    BY <2>7 DEF FillPreBackup, LockInv, TypeOK, Inside, InsidePcs
  <2>8. CASE WriteTemp(w)
    BY <2>8 DEF WriteTemp, LockInv, TypeOK, Inside, InsidePcs
  <2>9. CASE Replace(w)
    BY <2>9 DEF Replace, LockInv, TypeOK, Inside, InsidePcs
  <2>10. CASE PostBackup(w)
    BY <2>10 DEF PostBackup, LockInv, TypeOK, Inside, InsidePcs
  <2>11. CASE FillPostBackup(w)
    BY <2>11 DEF FillPostBackup, LockInv, TypeOK, Inside, InsidePcs
  <2>12. CASE Exit(w)
    <3>1. Inside(w)
      BY <2>12 DEF Exit, Inside, InsidePcs
    <3>2. ~aged => \A v \in Writers : Inside(v) => v = w
      BY <3>1 DEF LockInv
    <3>. QED
      BY <2>12, <3>2 DEF Exit, LockInv, TypeOK, Inside, InsidePcs
  <2>13. CASE OpenFails(w)
    BY <2>13 DEF OpenFails, LockInv, TypeOK, Inside, InsidePcs
  <2>14. CASE Skip(w)
    BY <2>14 DEF Skip, LockInv, TypeOK, Inside, InsidePcs
  <2>15. CASE BackupFails(w)
    BY <2>15 DEF BackupFails, LockInv, TypeOK, Inside, InsidePcs
  <2>16. CASE Crash(w)
    BY <2>16 DEF Crash, LockInv, TypeOK, Inside, InsidePcs
  <2>. QED
    BY <1>1, <2>1, <2>2, <2>3, <2>4, <2>5, <2>6, <2>7, <2>8, <2>9, <2>10, <2>11,
       <2>12, <2>13, <2>14, <2>15, <2>16 DEF WriterStep, WriterFault
<1>2. ASSUME NEW r \in Readers, ReaderStep(r)
      PROVE  LockInv'
  BY <1>2 DEF ReaderStep, Read, Quarantine, ReadBackup, LockInv, Inside
<1>3. CASE LockAges
  BY <1>3 DEF LockAges, LockInv
<1>4. CASE Damage
  BY <1>4 DEF Damage, LockInv, Inside
<1>5. CASE UNCHANGED vars
  BY <1>5 DEF vars, LockInv, Inside
<1>. QED
  BY <1>1, <1>2, <1>3, <1>4, <1>5 DEF Next

LEMMA LockInvHolds == Spec => []LockInv
<1>1. Init => LockInv
  BY DEF Init, LockInv, Inside, InsidePcs
<1>2. TypeOK /\ LockInv /\ [Next]_vars => LockInv'
  BY NextLockInv
<1>. QED
  BY <1>1, <1>2, TypeCorrect, PTL DEF Spec

\* Two writers are never inside at once before a lock file has become stale, for
\* any number of writers and of crashes (FileLock, safe_io.py:37-61).
THEOREM WritersExclude == Spec => []ExclusionUntilStale
<1>1. LockInv => ExclusionUntilStale
  BY DEF LockInv, ExclusionUntilStale
<1>. QED
  BY <1>1, LockInvHolds, PTL

-------------------------------------------------------------------------------
(* What the file holds. *)

\* Only damage from outside makes a reader rename the file.
DamageInv ==
  ~corrupted => main # Corrupt /\ \A r \in Readers : rpc[r] # "quarantine"

LEMMA WriterKeepsMain ==
  ASSUME NEW w \in Writers, Begin(w) \/ WriterStep(w) \/ WriterFault(w)
  PROVE  main' \in {main, w} /\ UNCHANGED <<rpc, corrupted>>
  BY DEF WriterStep, WriterFault, Begin, Open, Stat, Unlink, Deadline, PreBackup,
         FillPreBackup, WriteTemp, Replace, PostBackup, FillPostBackup, Exit,
         OpenFails, Skip, BackupFails, Crash, files, readers, history

LEMMA NextDamageInv == ASSUME TypeOK, DamageInv, [Next]_vars PROVE DamageInv'
<1>1. ASSUME NEW w \in Writers, Begin(w) \/ WriterStep(w) \/ WriterFault(w)
      PROVE  DamageInv'
  BY <1>1, WriterKeepsMain, FilesAssumption DEF DamageInv
<1>2. ASSUME NEW r \in Readers, ReaderStep(r)
      PROVE  DamageInv'
  BY <1>2, FilesAssumption
  DEF ReaderStep, Read, Quarantine, ReadBackup, DamageInv, TypeOK, files, history
<1>3. CASE LockAges
  BY <1>3 DEF LockAges, DamageInv, files, readers
<1>4. CASE Damage
  BY <1>4 DEF Damage, DamageInv
<1>5. CASE UNCHANGED vars
  BY <1>5 DEF vars, DamageInv
<1>. QED
  BY <1>1, <1>2, <1>3, <1>4, <1>5 DEF Next

LEMMA DamageInvHolds == Spec => []DamageInv
<1>1. Init => DamageInv
  BY FilesAssumption DEF Init, DamageInv
<1>2. TypeOK /\ DamageInv /\ [Next]_vars => DamageInv'
  BY NextDamageInv
<1>. QED
  BY <1>1, <1>2, TypeCorrect, PTL DEF Spec

\* A saved file stays saved and whole until something outside damages it, for any
\* number of writers, readers and faults (safe_json.py:51-78).
THEOREM FileStaysWhole == Spec => WholeStaysWhole
<1>1. ASSUME DamageInv, [Next]_vars, main \in Writers
      PROVE  main' \in Writers \/ corrupted'
  <2>1. ASSUME NEW w \in Writers, Begin(w) \/ WriterStep(w) \/ WriterFault(w)
        PROVE  main' \in Writers
    BY <1>1, <2>1, WriterKeepsMain
  <2>2. ASSUME NEW r \in Readers, ReaderStep(r)
        PROVE  main' \in Writers \/ corrupted'
    BY <1>1, <2>2
    DEF ReaderStep, Read, Quarantine, ReadBackup, DamageInv, files, history
  <2>3. CASE LockAges \/ Damage \/ UNCHANGED vars
    BY <1>1, <2>3 DEF LockAges, Damage, vars, files
  <2>. QED
    BY <1>1, <2>1, <2>2, <2>3 DEF Next
<1>2. DamageInv /\ [Next]_vars => [(main \in Writers) => (main' \in Writers \/ corrupted')]_vars
  BY <1>1
<1>. QED
  BY <1>2, DamageInvHolds, PTL DEF Spec, WholeStaysWhole

-------------------------------------------------------------------------------
(* The backup. *)

Undisturbed == faults = 0 /\ ~aged /\ ~corrupted

\* What an undisturbed save has done to the two files, by where it is.
SaveInv ==
  Undisturbed =>
    /\ lock = "absent" => bak = main
    /\ \A w \in Writers :
         /\ pc[w] \in {"enter", "temp", "replace", "exit"} => bak = main
         /\ pc[w] \in {"prebackup", "copy"} => copied[w] = main
         /\ pc[w] = "postbackup" => main = w

LEMMA NextSaveInv ==
  ASSUME TypeOK, LockInv, DamageInv, SaveInv, [Next]_vars PROVE SaveInv'
<1> USE DEF Undisturbed, Goto
<1>1. ASSUME NEW w \in Writers, Begin(w) \/ WriterStep(w), Undisturbed
      PROVE  SaveInv'
  <2>1. \A v \in Writers : Inside(v) /\ Inside(w) => v = w
    BY <1>1 DEF LockInv
  <2>2. Inside(w) => lock # "absent"
    BY <1>1 DEF LockInv
  <2> USE DEF SaveInv, TypeOK, Inside, InsidePcs, files
  <2>3. CASE Begin(w)
    BY <1>1, <2>3 DEF Begin
  <2>4. CASE Open(w)
    BY <1>1, <2>4 DEF Open
  <2>5. CASE Stat(w)
    BY <1>1, <2>5 DEF Stat
  <2>6. CASE Unlink(w)
    BY <1>1, <2>6 DEF Unlink, LockInv
  <2>7. CASE Deadline(w)
    BY <1>1, <2>7 DEF Deadline
  <2>8. CASE PreBackup(w)
    BY <1>1, <2>1, <2>2, <2>8 DEF PreBackup, OpenBackup
  <2>9. CASE FillPreBackup(w)
    BY <1>1, <2>1, <2>2, <2>9 DEF FillPreBackup
  <2>10. CASE WriteTemp(w)
    BY <1>1, <2>10 DEF WriteTemp
  <2>11. CASE Replace(w)
    BY <1>1, <2>1, <2>2, <2>11 DEF Replace
  <2>12. CASE PostBackup(w)
    <3>1. main = w /\ main # Missing
      BY <1>1, <2>12, FilesAssumption DEF PostBackup
    <3>. QED
      BY <1>1, <2>1, <2>2, <2>12, <3>1 DEF PostBackup, OpenBackup
  <2>13. CASE FillPostBackup(w)
    BY <1>1, <2>1, <2>2, <2>13 DEF FillPostBackup
  <2>14. CASE Exit(w)
    BY <1>1, <2>14 DEF Exit
  <2>. QED
    BY <1>1, <2>3, <2>4, <2>5, <2>6, <2>7, <2>8, <2>9, <2>10, <2>11, <2>12,
       <2>13, <2>14 DEF WriterStep
<1>2. ASSUME NEW w \in Writers, Skip(w)
      PROVE  SaveInv'
  BY <1>2 DEF Skip, SaveInv, TypeOK, files, history
<1>3. ASSUME NEW w \in Writers, OpenFails(w) \/ BackupFails(w) \/ Crash(w)
      PROVE  ~Undisturbed'
  BY <1>3 DEF OpenFails, BackupFails, Crash, TypeOK
<1>4. ASSUME NEW r \in Readers, ReaderStep(r)
      PROVE  SaveInv'
  BY <1>4 DEF ReaderStep, Read, Quarantine, ReadBackup, SaveInv, DamageInv,
              files, history
<1>5. CASE LockAges \/ Damage
  BY <1>5 DEF LockAges, Damage, SaveInv
<1>6. CASE UNCHANGED vars
  BY <1>6 DEF vars, SaveInv
<1>7. ASSUME NEW w \in Writers, Begin(w) \/ WriterStep(w), ~Undisturbed
      PROVE  ~Undisturbed'
  BY <1>7 DEF WriterStep, Begin, Open, Stat, Unlink, Deadline, PreBackup,
         FillPreBackup, WriteTemp, Replace, PostBackup, FillPostBackup, Exit,
         history
<1>. QED
  BY <1>1, <1>2, <1>3, <1>4, <1>5, <1>6, <1>7 DEF Next, WriterFault, SaveInv

\* An undisturbed file at rest has its own contents as its backup, for any number
\* of writers and readers (atomic_write_json, safe_io.py:122-139).
THEOREM BackupFollows == Spec => []BackupInStep
<1>1. Init => SaveInv
  BY DEF Init, SaveInv
<1>2. TypeOK /\ LockInv /\ DamageInv /\ SaveInv /\ [Next]_vars => SaveInv'
  BY NextSaveInv
<1>3. SaveInv => BackupInStep
  BY DEF SaveInv, BackupInStep, Undisturbed
<1>. QED
  BY <1>1, <1>2, <1>3, TypeCorrect, LockInvHolds, DamageInvHolds, PTL DEF Spec
===============================================================================
