------------------------ MODULE ModelRegistryProofs ------------------------
(***************************************************************************)
(* Proofs about the registry of trained models and its governance, for any *)
(* number of processes, versions, operations and faults.  An operation     *)
(* that is alone has the other processes idle, so that what it has read    *)
(* still holds when it writes; the invariants say what that is at each of  *)
(* its labels, and what a disabled version looks like to all operations    *)
(* that come later.                                                        *)
(***************************************************************************)
EXTENDS SafetyGate, WellFoundedInduction, FiniteSetTheorems, TLAPS

-----------------------------------------------------------------------------
(* The records of the operations.                                          *)

\* Two states of an operation that differ in alone at most.
Alike(r, s) ==
  /\ r.kind = s.kind /\ r.at = s.at /\ r.version = s.version /\ r.status = s.status
  /\ r.held = s.held /\ r.mark = s.mark /\ r.todo = s.todo /\ r.next = s.next
  /\ r.had = s.had /\ r.several = s.several

LEMMA IdleTyped == Idle \in Operation
BY VersionAssumption DEF Idle, Operation, Kinds, Labels, Status, None, Versions

\* The fields an operation keeps from its beginning to its end.
Continues(r, s) ==
  /\ r.kind = s.kind /\ r.had = s.had /\ r.several = s.several
  /\ r.alone <=> s.alone

\* p is at another label, and nothing else about it has changed.
Arrives(r, p, label) ==
  /\ r \in Operation /\ r.at = label /\ Continues(r, proc[p])
  /\ r.version = proc[p].version /\ r.mark = proc[p].mark /\ r.status = proc[p].status
  /\ r.held = proc[p].held /\ r.todo = proc[p].todo /\ r.next = proc[p].next

LEMMA ToTyped ==
  ASSUME proc \in [Process -> Operation], NEW p \in Process, NEW label \in Labels
  PROVE  /\ label = "idle" => To(p, label) = Idle
         /\ label # "idle" => Arrives(To(p, label), p, label)
         /\ To(p, label) \in Operation
<1>1. proc[p] \in Operation
  OBVIOUS
<1>. QED
  BY <1>1, IdleTyped DEF To, Operation, Arrives, Continues

\* What a step of p does to the operations.
LEMMA GoesEffect ==
  ASSUME proc \in [Process -> Operation], NEW p \in Process, NEW r \in Operation,
         NEW done \in BOOLEAN, Goes(p, r, done)
  PROVE  /\ proc' \in [Process -> Operation]
         /\ Alike(proc'[p], r)
         /\ proc'[p].alone <=> r.alone /\ done
         /\ \A q \in Process \ {p} :
              Alike(proc'[q], proc[q]) /\ (proc'[q].alone => proc[q].alone)
         /\ faults' = IF done THEN faults ELSE faults + 1
<1> DEFINE now(q) == IF q = p THEN r ELSE proc[q]
           then(q) == [now(q) EXCEPT !.alone = @ /\ done]
<1>1. \A q \in Process : now(q) \in Operation
  OBVIOUS
<1>2. ASSUME NEW s \in Operation
      PROVE  LET t == [s EXCEPT !.alone = @ /\ done]
             IN  t \in Operation /\ Alike(t, s) /\ (t.alone <=> s.alone /\ done)
  BY DEF Operation, Alike
<1>3. proc' = [q \in Process |-> then(q)]
  BY DEF Goes
<1>4. \A q \in Process :
        /\ proc'[q] = then(q) /\ then(q) \in Operation /\ Alike(then(q), now(q))
        /\ then(q).alone <=> now(q).alone /\ done
  BY <1>1, <1>2, <1>3
<1>. HIDE DEF then
<1>. QED
  BY <1>3, <1>4 DEF Goes


-----------------------------------------------------------------------------
(* Types, and what an operation is at each of its labels.                  *)

Saving == {"save_meta", "save_row"}
Activating == {"act_read", "act_pointer", "act_meta", "act_clear", "act_row"}
Writing == {"upd_meta", "upd_look", "upd_pointer", "upd_row"}
Disabling == {"dis_pointer", "dis_clear"}

\* An operation that writes about a version has one; only a disable on behalf of
\* another operation goes on elsewhere; only a version that is new or chosen for a
\* rollback is activated; and what an update writes is its mark.
Sound(r, last) ==
  /\ r.version \in 0 .. last
  /\ r.at \in Saving \cup Activating \cup Writing \cup {"upd_read", "decide"}
       => r.version # None
  /\ r.kind = "guard" /\ r.at # "guard" => r.version # None
  /\ r.next \in {"idle", "rep_done", "rep_check"}
  /\ r.at \notin Disabling \cup {"rep_done", "rep_check"} => r.next = "idle"
  /\ r.at \in Activating => r.mark \in {"shadow", "limited"}
  /\ r.at \in Writing /\ r.mark # "keep" => r.status = r.mark
  /\ r.at = "upd_pointer" /\ r.status # "fresh" => r.held = r.status

FilesTyped ==
  /\ trained \in 1 .. MaxVersion
  /\ models \subseteq 1 .. trained /\ schemas \subseteq 1 .. trained
  /\ meta \in [Versions -> Status \cup {Absent}]
  /\ pointer \in [version : 0 .. trained, status : Status]

RowsTyped ==
  /\ row \in [Versions -> Status \cup {Absent}]
  /\ active \subseteq 1 .. trained /\ retired \subseteq 1 .. trained
  /\ begun \in 0 .. MaxOps /\ faults \in 0 .. MaxFaults /\ raced \in BOOLEAN

ProcTyped ==
  /\ proc \in [Process -> Operation]
  /\ \A p \in Process : Sound(proc[p], trained)

TypeInv == FilesTyped /\ RowsTyped /\ ProcTyped

LEMMA SoundAlike ==
  ASSUME NEW last \in Nat, NEW next \in Nat, last <= next,
         NEW r \in Operation, NEW s \in Operation, Sound(r, last), Alike(s, r)
  PROVE  Sound(s, next)
<1>1. s.version \in 0 .. next
  BY DEF Sound, Alike
<1>. QED
  BY <1>1 DEF Sound, Alike

LEMMA IdleSound == ASSUME NEW last \in Nat PROVE Sound(Idle, last)
BY DEF Sound, Idle, None, Saving, Activating, Writing, Disabling

Ends(r) == r.at = "idle" /\ ~r.alone

\* A step of p, whose write happened or not, as the other operations see it.
Turn(p, done) ==
  /\ proc[p].at # "idle" /\ done \in BOOLEAN
  /\ faults' = IF done THEN faults ELSE faults + 1
  /\ proc'[p].alone => proc[p].alone /\ done
  /\ proc'[p].at = "idle" \/
       /\ proc'[p].kind = proc[p].kind /\ proc'[p].had = proc[p].had
       /\ proc'[p].several = proc[p].several
  /\ \A q \in Process \ {p} :
       Alike(proc'[q], proc[q]) /\ (proc'[q].alone => proc[q].alone)

LEMMA TurnEffect ==
  ASSUME FilesTyped, ProcTyped, NEW p \in Process, NEW r \in Operation,
         NEW done \in BOOLEAN, Goes(p, r, done), proc[p].at # "idle",
         Ends(r) \/ Continues(r, proc[p]), Sound(r, trained'),
         trained' \in Nat, trained <= trained'
  PROVE  Turn(p, done) /\ Alike(proc'[p], r) /\ ProcTyped'
<1>1. /\ proc' \in [Process -> Operation]
      /\ Alike(proc'[p], r)
      /\ proc'[p].alone <=> r.alone /\ done
      /\ \A q \in Process \ {p} :
           Alike(proc'[q], proc[q]) /\ (proc'[q].alone => proc[q].alone)
      /\ faults' = IF done THEN faults ELSE faults + 1
  BY GoesEffect DEF ProcTyped
<1>2. Turn(p, done)
  <2>1. CASE Ends(r)
    BY <1>1, <2>1 DEF Alike, Ends, Turn
  <2>2. CASE Continues(r, proc[p])
    BY <1>1, <2>2 DEF Turn, Continues, Alike
  <2>. QED
    BY <2>1, <2>2
<1>3. trained \in Nat
  BY VersionAssumption DEF FilesTyped
<1>4. \A q \in Process : Sound(proc'[q], trained')
  <2>1. SUFFICES ASSUME NEW q \in Process PROVE Sound(proc'[q], trained')
    OBVIOUS
  <2>2. proc'[q] \in Operation /\ proc[q] \in Operation /\ Sound(proc[q], trained)
    BY <1>1 DEF ProcTyped
  <2>3. CASE q = p
    BY <1>1, <2>2, <2>3, SoundAlike
  <2>4. CASE q # p
    BY <1>1, <1>3, <2>2, <2>4, SoundAlike
  <2>. QED
    BY <2>3, <2>4
<1>. QED
  BY <1>1, <1>2, <1>4 DEF ProcTyped

\* done is an outcome a write may have: faults are bounded.
LEMMA OutcomesTyped ==
  ASSUME RowsTyped, NEW done \in Outcomes
  PROVE  /\ done \in BOOLEAN
         /\ (IF done THEN faults ELSE faults + 1) \in 0 .. MaxFaults
<1>1. done \in BOOLEAN /\ (~done => faults < MaxFaults)
  BY DEF Outcomes
<1>2. faults \in Nat /\ MaxFaults \in Nat /\ faults <= MaxFaults
  BY LimitAssumption DEF RowsTyped
<1>3. CASE done
  BY <1>1, <1>2, <1>3
<1>4. CASE ~done
  BY <1>1, <1>2, <1>4
<1>. QED
  BY <1>3, <1>4


\* A set of versions has a newest one.
LEMMA MaxOfVersions ==
  ASSUME NEW n \in Nat, NEW S \in SUBSET (1 .. n), S # {}
  PROVE  /\ Max(S) \in S
         /\ \A y \in S : y <= Max(S)
<1> DEFINE Less == OpToRel(<, Nat)
           Older == {n - x : x \in S}
<1>0. \A x \in S : x \in Nat /\ x <= n /\ n - x \in Nat
  <2>1. S \subseteq 1 .. n
    OBVIOUS
  <2>. QED
    BY <2>1
<1>1. \A i, j \in Nat : <<i, j>> \in Less <=> i < j
  BY DEF OpToRel
<1>2. Older \subseteq Nat /\ Older # {}
  BY <1>0
<1>3. PICK d \in Older : \A e \in Older : ~ (<<e, d>> \in Less)
  BY <1>2, NatLessThanWellFounded, WFMin
<1>4. PICK m \in S : d = n - m
  OBVIOUS
<1>5. \A y \in S : m >= y
  <2>1. SUFFICES ASSUME NEW y \in S PROVE m >= y
    OBVIOUS
  <2>2. n - y \in Older /\ n - y \in Nat /\ d \in Nat
    BY <1>0, <1>4
  <2>3. ~ (n - y < d)
    BY <1>1, <1>3, <2>2
  <2>4. m \in Nat /\ y \in Nat
    BY <1>0
  <2>. QED
    BY <1>4, <2>3, <2>4
<1>6. Max(S) \in S /\ \A y \in S : Max(S) >= y
  BY <1>5 DEF Max
<1>. QED
  BY <1>0, <1>6


\* What the readers of the three places return has been trained.
LEMMA ReadersTyped ==
  ASSUME FilesTyped, RowsTyped
  PROVE  /\ trained \in Nat /\ 1 .. trained \subseteq Versions
         /\ 1 .. trained \subseteq 1 .. MaxVersion
         /\ Current \in 0 .. trained /\ Loaded \in 0 .. trained
         /\ active # {} => Current \in active /\ \A v \in active : v <= Current
         /\ Previous \subseteq 1 .. trained
         /\ Previous # {} => Max(Previous) \in Previous
         /\ \A v \in Versions : KnownStatus(v) \in Status \cup {Absent}
<1>1. /\ trained \in Nat /\ 1 .. trained \subseteq Versions
      /\ 1 .. trained \subseteq 1 .. MaxVersion
  BY VersionAssumption DEF FilesTyped, Versions
<1>2. active # {} => Max(active) \in active /\ \A v \in active : v <= Max(active)
  BY <1>1, MaxOfVersions DEF RowsTyped
<1>3. pointer.version \in 0 .. trained
  BY DEF FilesTyped
<1>4. /\ Current \in 0 .. trained
      /\ active # {} => Current \in active /\ \A v \in active : v <= Current
  <2>1. CASE active = {}
    BY <1>3, <2>1 DEF Current
  <2>2. CASE active # {}
    <3>1. Current = Max(active)
      BY <2>2 DEF Current
    <3>2. \A v \in active : v \in 0 .. trained
      BY <1>1 DEF RowsTyped
    <3>. QED
      BY <1>2, <2>2, <3>1, <3>2
  <2>. QED
    BY <2>1, <2>2
<1>5. Loaded \in 0 .. trained
  BY <1>1, <1>3 DEF Loaded, None
<1>6. Previous \subseteq 1 .. trained /\ (Previous # {} => Max(Previous) \in Previous)
  <2>1. Previous \in SUBSET (1 .. trained)
    BY DEF Previous, FilesTyped
  <2>. QED
    BY <1>1, <2>1, MaxOfVersions
<1>7. \A v \in Versions : KnownStatus(v) \in Status \cup {Absent}
  BY DEF KnownStatus, FilesTyped, RowsTyped
<1>. QED
  BY <1>1, <1>4, <1>5, <1>6, <1>7

\* An operation that only reads.
ReadStep(p, r) ==
  /\ r \in Operation /\ Reads(p, r) /\ proc[p].at # "idle"
  /\ Ends(r) \/ Continues(r, proc[p])
  /\ Sound(r, trained)

LEMMA ReadsEffect ==
  ASSUME TypeInv, NEW p \in Process, NEW r, ReadStep(p, r)
  PROVE  /\ Turn(p, TRUE) /\ Alike(proc'[p], r) /\ TypeInv'
         /\ UNCHANGED <<files, rows, past, faults>>
<1>1. Goes(p, r, TRUE) /\ UNCHANGED <<files, rows, begun, past>> /\ r \in Operation
  BY DEF ReadStep, Reads
<1>2. trained' = trained /\ trained \in Nat
  BY <1>1, ReadersTyped DEF TypeInv, files
<1>3. Turn(p, TRUE) /\ Alike(proc'[p], r) /\ ProcTyped'
  <2>1. Sound(r, trained) /\ (Ends(r) \/ Continues(r, proc[p])) /\ proc[p].at # "idle"
    BY DEF ReadStep
  <2>2. Sound(r, trained')
    BY <1>2, <2>1 DEF Sound
  <2>. QED
    <3>1. FilesTyped /\ ProcTyped /\ TRUE \in BOOLEAN /\ trained' \in Nat /\ trained <= trained'
      BY <1>2 DEF TypeInv
    <3>. QED
      BY <1>1, <2>1, <2>2, <3>1, TurnEffect
<1>4. faults' = faults
  BY <1>3 DEF Turn
<1>. QED
  BY <1>1, <1>3, <1>4 DEF TypeInv, FilesTyped, stored, RowsTyped, files, rows, past

\* What is known of p when it takes a step.
LEMMA Known ==
  ASSUME TypeInv, NEW p \in Process
  PROVE  /\ proc \in [Process -> Operation] /\ proc[p] \in Operation
         /\ Sound(proc[p], trained)
         /\ proc[p].version \in 0 .. MaxVersion
         /\ proc[p].version # None => proc[p].version \in Versions
         /\ trained \in Nat
         /\ Idle \in Operation /\ Sound(Idle, trained)
<1>1. trained \in Nat /\ proc[p] \in Operation /\ Sound(proc[p], trained)
  BY ReadersTyped DEF TypeInv, ProcTyped
<1>2. proc[p].version \in 0 .. MaxVersion
  BY <1>1 DEF Operation
<1>. QED
  BY <1>1, <1>2, VersionAssumption, IdleTyped, IdleSound
     DEF TypeInv, ProcTyped, Versions, None

\* p goes on with the same version and mark, and what it does next.
Stays(r, p) ==
  /\ r \in Operation /\ Continues(r, proc[p]) /\ r.next = proc[p].next
  /\ r.version = proc[p].version /\ r.mark = proc[p].mark

\* Where an activation goes, and where an update.
LEMMA ActivatedEffect ==
  ASSUME TypeInv, NEW p \in Process, NEW b
  PROVE  \/ Activated(p, b) = Idle
         \/ Stays(Activated(p, b), p) /\ Activated(p, b).at = "upd_read"
<1>1. Activated(p, b) = Idle \/ Activated(p, b) = [To(p, "upd_read") EXCEPT !.ok = TRUE]
  BY Known, ToTyped DEF Activated, Labels
<1>2. Arrives(To(p, "upd_read"), p, "upd_read")
  BY Known, ToTyped DEF Labels
<1>. QED
  BY <1>1, <1>2 DEF Arrives, Stays, Operation, Continues

LEMMA MarkedEffect ==
  ASSUME TypeInv, NEW p \in Process
  PROVE  \/ Marked(p) = Idle
         \/ Stays(Marked(p), p) /\ Marked(p).at = "dis_pointer"
              /\ proc[p].mark = "disabled"
<1>1. \/ Marked(p) = Idle
      \/ Marked(p) = To(p, "dis_pointer") /\ proc[p].mark = "disabled"
  BY Known, ToTyped DEF Marked, Labels
<1>2. Arrives(To(p, "dis_pointer"), p, "dis_pointer")
  BY Known, ToTyped DEF Labels
<1>. QED
  BY <1>1, <1>2 DEF Arrives, Stays

LEMMA IdleEnds == Ends(Idle)
BY DEF Ends, Idle

LEMMA IdleFields ==
  /\ Idle.at = "idle" /\ Idle.kind = "train" /\ Idle.version = None
  /\ Idle.next = "idle" /\ ~Idle.alone
BY DEF Idle

LEMMA EndsSound ==
  ASSUME TypeInv, NEW r \in Operation, r.at = "idle", r.kind = "train",
         r.version = None, r.next = "idle", ~r.alone
  PROVE  Ends(r) /\ Sound(r, trained)
<1>1. trained \in Nat
  BY ReadersTyped DEF TypeInv
<1>. QED
  BY <1>1 DEF Ends, Sound, None, Saving, Activating, Writing, Disabling

LEMMA ActReadStep ==
  ASSUME TypeInv, NEW p \in Process, ActRead(p)
  PROVE  \E r : /\ ReadStep(p, r)
                /\ \/ Ends(r)
                   \/ Stays(r, p) /\ r.at \in {"act_pointer", "upd_read"}
<1> DEFINE status == KnownStatus(proc[p].version)
           r == IF status = Absent THEN Activated(p, FALSE)
                ELSE [To(p, "act_pointer") EXCEPT !.status = status, !.ok = TRUE]
<1>1. Reads(p, r) /\ proc[p].at = "act_read"
  BY DEF ActRead
<1>2. proc[p].version \in Versions /\ status \in Status \cup {Absent}
  BY <1>1, Known, ReadersTyped DEF Sound, Activating, TypeInv
<1>3. \/ r = Idle
      \/ Stays(r, p) /\ r.at \in {"act_pointer", "upd_read"}
  <2>1. CASE status = Absent
    <3>1. r = Activated(p, FALSE)
      BY <2>1
    <3>. QED
      BY <3>1, ActivatedEffect, Zenon
  <2>2. CASE status # Absent
    <3>1. r = [To(p, "act_pointer") EXCEPT !.status = status, !.ok = TRUE]
      BY <2>2
    <3>2. Arrives(To(p, "act_pointer"), p, "act_pointer")
      BY Known, ToTyped DEF Labels
    <3>. QED
      BY <1>2, <2>2, <3>1, <3>2 DEF Arrives, Stays, Operation, Continues
  <2>. QED
    BY <2>1, <2>2
<1> HIDE DEF r
<1>4. r \in Operation /\ Sound(r, trained)
  BY <1>1, <1>3, Known
     DEF Stays, Continues, Sound, Saving, Activating, Writing, Disabling
<1>. QED
  BY <1>1, <1>3, <1>4, IdleEnds DEF ReadStep, Stays

LEMMA UpdReadStep ==
  ASSUME TypeInv, NEW p \in Process, UpdRead(p)
  PROVE  \E r : /\ ReadStep(p, r)
                /\ \/ Ends(r)
                   \/ Stays(r, p) /\ r.at = "dis_pointer"
                   \/ /\ Stays(r, p) /\ r.at = "upd_meta"
                      /\ KnownStatus(proc[p].version) # Absent
                      /\ r.mark = "keep" => r.status = KnownStatus(proc[p].version)
<1> DEFINE status == KnownStatus(proc[p].version)
           written == IF proc[p].mark = "keep" THEN status ELSE proc[p].mark
           r == IF status = Absent THEN Marked(p)
                ELSE [To(p, "upd_meta") EXCEPT !.status = written]
<1>1. Reads(p, r) /\ proc[p].at = "upd_read"
  BY DEF UpdRead
<1>2. proc[p].version \in Versions /\ status \in Status \cup {Absent}
      /\ proc[p].mark \in Status \cup {"keep"}
  BY <1>1, Known, ReadersTyped DEF Sound, TypeInv, Operation
<1>3. \/ r = Idle
      \/ Stays(r, p) /\ r.at = "dis_pointer"
      \/ Stays(r, p) /\ r.at = "upd_meta" /\ status # Absent /\ r.status = written
  <2>1. CASE status = Absent
    <3>1. r = Marked(p)
      BY <2>1
    <3>. QED
      BY <3>1, MarkedEffect, Zenon
  <2>2. CASE status # Absent
    <3>1. r = [To(p, "upd_meta") EXCEPT !.status = written] /\ written \in Status
      BY <1>2, <2>2
    <3>2. Arrives(To(p, "upd_meta"), p, "upd_meta")
      BY Known, ToTyped DEF Labels
    <3> HIDE DEF written
    <3>. QED
      BY <2>2, <3>1, <3>2 DEF Arrives, Stays, Operation, Continues
  <2>. QED
    BY <2>1, <2>2
<1> HIDE DEF r
<1>4. r \in Operation /\ Sound(r, trained)
  BY <1>1, <1>3, Known
     DEF Stays, Continues, Sound, Saving, Activating, Writing, Disabling
<1>5. ReadStep(p, r)
  BY <1>1, <1>3, <1>4, IdleEnds DEF ReadStep, Stays
<1>. QED
  BY <1>3, <1>5, IdleEnds DEF Stays

LEMMA UpdLookStep ==
  ASSUME TypeInv, NEW p \in Process, UpdLook(p)
  PROVE  \E r : /\ ReadStep(p, r) /\ Stays(r, p) /\ r.status = proc[p].status
                /\ r.at \in {"upd_row", "upd_pointer"}
                /\ r.at = "upd_row" => pointer.version # proc[p].version
<1> DEFINE found == IF proc[p].status # "fresh" THEN proc[p].status ELSE pointer.status
           r == IF pointer.version # proc[p].version THEN To(p, "upd_row")
                ELSE [To(p, "upd_pointer") EXCEPT !.held = found]
<1>1. Reads(p, r) /\ proc[p].at = "upd_look"
  BY DEF UpdLook
<1>2. found \in Status
  BY Known DEF Operation, TypeInv, FilesTyped
<1>3. /\ Stays(r, p) /\ r.status = proc[p].status
      /\ \/ r.at = "upd_row" /\ pointer.version # proc[p].version
         \/ r.at = "upd_pointer" /\ r.held = found
  <2>1. CASE pointer.version # proc[p].version
    <3>1. r = To(p, "upd_row")
      BY <2>1
    <3>2. Arrives(To(p, "upd_row"), p, "upd_row")
      BY Known, ToTyped DEF Labels
    <3>. QED
      BY <2>1, <3>1, <3>2 DEF Arrives, Stays
  <2>2. CASE pointer.version = proc[p].version
    <3>1. r = [To(p, "upd_pointer") EXCEPT !.held = found]
      BY <2>2
    <3>2. Arrives(To(p, "upd_pointer"), p, "upd_pointer")
      BY Known, ToTyped DEF Labels
    <3> HIDE DEF found
    <3>. QED
      BY <1>2, <3>1, <3>2 DEF Arrives, Stays, Operation, Continues
  <2>. QED
    BY <2>1, <2>2
<1> HIDE DEF r
<1>4. Sound(r, trained)
  BY <1>1, <1>3, Known
     DEF Stays, Continues, Sound, Saving, Activating, Writing, Disabling
<1>5. ReadStep(p, r)
  BY <1>1, <1>3, <1>4 DEF ReadStep, Stays
<1>. QED
  BY <1>3, <1>5

LEMMA DisReadStep ==
  ASSUME TypeInv, NEW p \in Process, DisRead(p)
  PROVE  \E r : /\ ReadStep(p, r) /\ r.next = proc[p].next
                /\ \/ r.at = "dis_pointer"
                   \/ r.at = "upd_read" /\ r.mark = "disabled"
<1> DEFINE r == IF Current = None THEN To(p, "dis_pointer")
                ELSE [To(p, "upd_read") EXCEPT !.version = Current, !.mark = "disabled"]
<1>1. Reads(p, r) /\ proc[p].at = "dis_read"
  BY DEF DisRead
<1>2. Current \in 0 .. trained /\ Current \in 0 .. MaxVersion
  BY ReadersTyped, VersionAssumption DEF TypeInv, FilesTyped
<1>3. /\ r \in Operation /\ Continues(r, proc[p]) /\ r.next = proc[p].next
      /\ \/ r.at = "dis_pointer" /\ r.version = proc[p].version
         \/ /\ r.at = "upd_read" /\ r.version = Current /\ Current # None
            /\ r.mark = "disabled"
  <2>1. CASE Current = None
    <3>1. r = To(p, "dis_pointer")
      BY <2>1
    <3>2. Arrives(To(p, "dis_pointer"), p, "dis_pointer")
      BY Known, ToTyped DEF Labels
    <3>. QED
      BY <3>1, <3>2 DEF Arrives
  <2>2. CASE Current # None
    <3>1. r = [To(p, "upd_read") EXCEPT !.version = Current, !.mark = "disabled"]
      BY <2>2
    <3>2. Arrives(To(p, "upd_read"), p, "upd_read")
      BY Known, ToTyped DEF Labels
    <3>. QED
      BY <1>2, <2>2, <3>1, <3>2 DEF Arrives, Operation, Continues, Status
  <2>. QED
    BY <2>1, <2>2
<1> HIDE DEF r
<1>4. Sound(r, trained)
  BY <1>1, <1>2, <1>3, Known
     DEF Continues, Sound, Saving, Activating, Writing, Disabling
<1>5. ReadStep(p, r)
  BY <1>1, <1>3, <1>4 DEF ReadStep
<1>. QED
  BY <1>3, <1>5

LEMMA ChooseStep ==
  ASSUME TypeInv, NEW p \in Process, Choose(p)
  PROVE  \E r : /\ ReadStep(p, r)
                /\ \/ r.at = "dis_read"
                   \/ r.at = "act_read" /\ r.version \in Previous
<1> DEFINE r == IF Previous = {} THEN To(p, "dis_read")
                ELSE [To(p, "act_read") EXCEPT !.version = Max(Previous), !.mark = "limited"]
<1>1. Reads(p, r) /\ proc[p].at = "choose"
  BY DEF Choose
<1>2. Previous # {} => /\ Max(Previous) \in Previous /\ Max(Previous) \in 0 .. trained
                       /\ Max(Previous) # None /\ Max(Previous) \in 0 .. MaxVersion
  BY ReadersTyped, VersionAssumption DEF TypeInv, FilesTyped, None
<1>3. /\ r \in Operation /\ Continues(r, proc[p]) /\ r.next = proc[p].next
      /\ \/ r.at = "dis_read" /\ r.version = proc[p].version
         \/ /\ r.at = "act_read" /\ r.version \in Previous /\ r.version # None
            /\ r.version \in 0 .. trained /\ r.mark = "limited"
  <2>1. CASE Previous = {}
    <3>1. r = To(p, "dis_read")
      BY <2>1
    <3>2. Arrives(To(p, "dis_read"), p, "dis_read")
      BY Known, ToTyped DEF Labels
    <3>. QED
      BY <3>1, <3>2 DEF Arrives
  <2>2. CASE Previous # {}
    <3>1. r = [To(p, "act_read") EXCEPT !.version = Max(Previous), !.mark = "limited"]
      BY <2>2
    <3>2. Arrives(To(p, "act_read"), p, "act_read")
      BY Known, ToTyped DEF Labels
    <3>. QED
      BY <1>2, <2>2, <3>1, <3>2 DEF Arrives, Operation, Continues, Status
  <2>. QED
    BY <2>1, <2>2
<1> HIDE DEF r
<1>4. Sound(r, trained)
  BY <1>1, <1>2, <1>3, Known
     DEF Continues, Sound, Saving, Activating, Writing, Disabling
<1>5. ReadStep(p, r)
  BY <1>1, <1>3, <1>4 DEF ReadStep
<1>. QED
  BY <1>3, <1>5


LEMMA SkipTrainingStep ==
  ASSUME TypeInv, NEW p \in Process, SkipTraining(p)
  PROVE  \E r : ReadStep(p, r) /\ Ends(r)
<1>1. Reads(p, Idle) /\ proc[p].at # "idle"
  BY Known, ToTyped DEF SkipTraining, Labels
<1>. QED
  BY <1>1, Known, IdleEnds DEF ReadStep

LEMMA RepReadStep ==
  ASSUME TypeInv, NEW p \in Process, RepRead(p)
  PROVE  \E r : /\ ReadStep(p, r) /\ r.at = "rep_rows" /\ r.next = "idle"
                /\ r.todo = {v \in active : v \notin whole \/ v # Max(active)}
<1> DEFINE others == {v \in active : v \notin whole \/ v # Max(active)}
           r == [To(p, "rep_rows") EXCEPT !.todo = others]
<1>1. Reads(p, r) /\ proc[p].at = "rep_read"
  BY DEF RepRead
<1>2. others \in SUBSET Versions
  BY ReadersTyped DEF TypeInv, RowsTyped
<1>3. /\ Stays(r, p) /\ r.at = "rep_rows" /\ r.todo = others
  <2>1. Arrives(To(p, "rep_rows"), p, "rep_rows")
    BY Known, ToTyped DEF Labels
  <2> HIDE DEF others
  <2>. QED
    BY <1>2, <2>1 DEF Arrives, Stays, Operation, Continues
<1> HIDE DEF r
<1>4. Sound(r, trained) /\ r.next = "idle"
  BY <1>1, <1>3, Known
     DEF Stays, Continues, Sound, Saving, Activating, Writing, Disabling
<1>5. ReadStep(p, r)
  BY <1>1, <1>3, <1>4 DEF ReadStep, Stays
<1>. QED
  BY <1>3, <1>4, <1>5

Astray == pointer.version # None /\ pointer.version \notin whole \cap active

LEMMA RepPointerStep ==
  ASSUME TypeInv, NEW p \in Process, RepPointer(p)
  PROVE  \E r : /\ ReadStep(p, r) /\ proc[p].todo = {} /\ proc[p].at = "rep_rows"
                /\ IF Astray THEN r.at = "dis_pointer" /\ r.next = "rep_done"
                             ELSE r.at = "rep_done"
<1> DEFINE r == IF Astray THEN [To(p, "dis_pointer") EXCEPT !.next = "rep_done"]
                ELSE To(p, "rep_done")
<1>1. Reads(p, r) /\ proc[p].at = "rep_rows" /\ proc[p].todo = {}
  BY DEF RepPointer, Astray
<1>2. /\ r \in Operation /\ Continues(r, proc[p]) /\ r.version = proc[p].version
      /\ IF Astray THEN r.at = "dis_pointer" /\ r.next = "rep_done"
                   ELSE r.at = "rep_done" /\ r.next = proc[p].next
  <2>1. CASE Astray
    <3>1. r = [To(p, "dis_pointer") EXCEPT !.next = "rep_done"]
      BY <2>1
    <3>2. Arrives(To(p, "dis_pointer"), p, "dis_pointer")
      BY Known, ToTyped DEF Labels
    <3>. QED
      BY <2>1, <3>1, <3>2 DEF Arrives, Operation, Continues, Labels
  <2>2. CASE ~Astray
    <3>1. r = To(p, "rep_done")
      BY <2>2
    <3>2. Arrives(To(p, "rep_done"), p, "rep_done")
      BY Known, ToTyped DEF Labels
    <3>. QED
      BY <2>2, <3>1, <3>2 DEF Arrives
  <2>. QED
    BY <2>1, <2>2
<1> HIDE DEF r
<1>3. Sound(r, trained)
  BY <1>1, <1>2, Known
     DEF Continues, Sound, Saving, Activating, Writing, Disabling
<1>4. ReadStep(p, r)
  BY <1>1, <1>2, <1>3 DEF ReadStep
<1>. QED
  BY <1>1, <1>2, <1>4

LEMMA RepDoneStep ==
  ASSUME TypeInv, NEW p \in Process, RepDone(p)
  PROVE  \E r : /\ ReadStep(p, r) /\ r.at \in {"idle", "decide", "dis_read"}
                /\ r.next = "idle"
<1> DEFINE label == IF proc[p].kind # "guard" THEN "idle"
                    ELSE IF Consistent THEN "decide" ELSE "dis_read"
           r == [To(p, label) EXCEPT !.next = "idle"]
<1>1. Reads(p, r) /\ proc[p].at = "rep_done"
  BY DEF RepDone
<1>2. \/ label = "idle"
      \/ proc[p].kind = "guard" /\ label \in {"decide", "dis_read"}
  OBVIOUS
<1> HIDE DEF label
<1>3. CASE label = "idle"
  <2>1. r = [Idle EXCEPT !.next = "idle"]
    BY <1>3, Known, ToTyped DEF Labels
  <2>2. /\ r \in Operation /\ r.at = "idle" /\ r.kind = "train" /\ r.version = None
        /\ r.next = "idle" /\ ~r.alone
    BY <2>1, IdleTyped, IdleFields DEF Operation, Labels
  <2>. QED
    BY <1>1, <2>2, EndsSound DEF ReadStep
<1>4. CASE proc[p].kind = "guard" /\ label \in {"decide", "dis_read"}
  <2>1. Arrives(To(p, label), p, label)
    BY <1>4, Known, ToTyped DEF Labels
  <2>2. /\ r \in Operation /\ Continues(r, proc[p]) /\ r.version = proc[p].version
        /\ r.at = label /\ r.next = "idle"
    BY <2>1 DEF Arrives, Operation, Continues, Labels
  <2> HIDE DEF r
  <2>3. Sound(r, trained)
    BY <1>1, <1>4, <2>2, Known
       DEF Continues, Sound, Saving, Activating, Writing, Disabling
  <2>. QED
    BY <1>1, <1>4, <2>2, <2>3 DEF ReadStep
<1>. QED
  BY <1>2, <1>3, <1>4

LEMMA GuardStep ==
  ASSUME TypeInv, NEW p \in Process, Guard(p)
  PROVE  \E r : /\ ReadStep(p, r)
                /\ r.at \in {"idle", "decide", "rep_read"} /\ r.next = "idle"
<1> DEFINE label == IF Consistent THEN "decide" ELSE "rep_read"
           r == [To(p, label) EXCEPT !.version = Current]
<1>1. /\ Reads(p, IF Current = None THEN To(p, "idle") ELSE r)
      /\ proc[p].at = "guard"
  BY DEF Guard
<1>2. CASE Current = None
  <2>1. Reads(p, Idle)
    BY <1>1, <1>2, Known, ToTyped DEF Labels
  <2>2. Idle.at = "idle" /\ Idle.next = "idle"
    BY DEF Idle
  <2>. QED
    BY <1>1, <2>1, <2>2, Known, IdleEnds DEF ReadStep
<1>3. CASE Current # None
  <2>1. label \in {"decide", "rep_read"}
    OBVIOUS
  <2> HIDE DEF label
  <2>2. Arrives(To(p, label), p, label)
    BY <2>1, Known, ToTyped DEF Labels
  <2>3. Current \in 0 .. trained /\ Current \in 0 .. MaxVersion
    BY ReadersTyped, VersionAssumption DEF TypeInv, FilesTyped
  <2>4. /\ r \in Operation /\ Continues(r, proc[p]) /\ r.version = Current
        /\ r.at = label /\ r.next = proc[p].next
    BY <2>2, <2>3 DEF Arrives, Operation, Continues
  <2> HIDE DEF r
  <2>5. Sound(r, trained) /\ r.next = "idle"
    BY <1>1, <1>3, <2>1, <2>3, <2>4, Known
       DEF Continues, Sound, Saving, Activating, Writing, Disabling
  <2>. QED
    BY <1>1, <1>3, <2>1, <2>4, <2>5 DEF ReadStep
<1>. QED
  BY <1>2, <1>3

LEMMA DecideStep ==
  ASSUME TypeInv, NEW p \in Process, Decide(p)
  PROVE  \E r : /\ ReadStep(p, r)
                /\ \/ r.at \in {"idle", "save_files", "dis_read"}
                   \/ r.at = "upd_read" /\ r.mark = "keep"
                /\ r.next = "idle"
<1>1. proc[p].at = "decide"
  BY DEF Decide
<1>2. \/ Reads(p, To(p, "save_files"))
      \/ \E label \in {"idle", "upd_read", "dis_read"} :
           Reads(p, [To(p, label) EXCEPT !.mark = "keep"])
  <2>1. SUFFICES ASSUME NEW action \in Recommendation,
                        Reads(p, [To(p, CASE action = "keep" -> "idle"
                                          [] action = "reduce_weight" -> "upd_read"
                                          [] action = "disable_model" -> "dis_read")
                                    EXCEPT !.mark = "keep"])
                 PROVE  \E label \in {"idle", "upd_read", "dis_read"} :
                          Reads(p, [To(p, label) EXCEPT !.mark = "keep"])
    BY DEF Decide
  <2> DEFINE label == CASE action = "keep" -> "idle"
                        [] action = "reduce_weight" -> "upd_read"
                        [] action = "disable_model" -> "dis_read"
  <2>2. label \in {"idle", "upd_read", "dis_read"}
    BY DEF Recommendation
  <2>3. Reads(p, [To(p, label) EXCEPT !.mark = "keep"])
    BY <2>1
  <2> HIDE DEF label
  <2>. QED
    BY <2>2, <2>3
<1>3. CASE Reads(p, To(p, "save_files"))
  <2> DEFINE r == To(p, "save_files")
  <2>1. Arrives(r, p, "save_files")
    BY Known, ToTyped DEF Labels
  <2> HIDE DEF r
  <2>2. Sound(r, trained) /\ r.next = "idle"
    BY <1>1, <2>1, Known
       DEF Arrives, Continues, Sound, Saving, Activating, Writing, Disabling
  <2>. QED
    BY <1>1, <1>3, <2>1, <2>2 DEF ReadStep, Arrives, r
<1>4. ASSUME NEW label \in {"idle", "upd_read", "dis_read"},
             Reads(p, [To(p, label) EXCEPT !.mark = "keep"])
      PROVE  \E r : /\ ReadStep(p, r) /\ r.next = "idle"
                    /\ \/ r.at \in {"idle", "save_files", "dis_read"}
                       \/ r.at = "upd_read" /\ r.mark = "keep"
  <2> DEFINE r == [To(p, label) EXCEPT !.mark = "keep"]
  <2>1. CASE label = "idle"
    <3>1. r = [Idle EXCEPT !.mark = "keep"]
      BY <2>1, Known, ToTyped DEF Labels
    <3>2. /\ r \in Operation /\ r.at = "idle" /\ r.kind = "train" /\ r.version = None
          /\ r.next = "idle" /\ ~r.alone
      BY <3>1, IdleTyped, IdleFields DEF Operation
    <3>. QED
      BY <1>1, <1>4, <3>2, EndsSound DEF ReadStep
  <2>2. CASE label # "idle"
    <3>1. Arrives(To(p, label), p, label)
      BY <2>2, Known, ToTyped DEF Labels
    <3>2. /\ r \in Operation /\ Continues(r, proc[p]) /\ r.version = proc[p].version
          /\ r.at = label /\ r.next = proc[p].next /\ r.mark = "keep"
      BY <3>1 DEF Arrives, Operation, Continues
    <3> HIDE DEF r
    <3>3. Sound(r, trained) /\ r.next = "idle"
      BY <1>1, <2>2, <3>2, Known
         DEF Continues, Sound, Saving, Activating, Writing, Disabling
    <3>. QED
      BY <1>1, <1>4, <2>2, <3>2, <3>3 DEF ReadStep, r
  <2>. QED
    BY <2>1, <2>2
<1>. QED
  BY <1>2, <1>3, <1>4

LEMMA StartupStep ==
  ASSUME TypeInv, NEW p \in Process, Startup(p)
  PROVE  \E r : /\ ReadStep(p, r) /\ proc[p].at = "startup"
                /\ IF Broken THEN r.at = "dis_pointer" /\ r.next = "rep_check"
                             ELSE r.at = "rep_check"
<1> DEFINE r == IF Broken THEN [To(p, "dis_pointer") EXCEPT !.next = "rep_check"]
                ELSE To(p, "rep_check")
<1>1. Reads(p, r) /\ proc[p].at = "startup"
  BY DEF Startup
<1>2. /\ r \in Operation /\ Continues(r, proc[p]) /\ r.version = proc[p].version
      /\ IF Broken THEN r.at = "dis_pointer" /\ r.next = "rep_check"
                   ELSE r.at = "rep_check" /\ r.next = proc[p].next
  <2>1. CASE Broken
    <3>1. r = [To(p, "dis_pointer") EXCEPT !.next = "rep_check"]
      BY <2>1
    <3>2. Arrives(To(p, "dis_pointer"), p, "dis_pointer")
      BY Known, ToTyped DEF Labels
    <3>. QED
      BY <2>1, <3>1, <3>2 DEF Arrives, Operation, Continues, Labels
  <2>2. CASE ~Broken
    <3>1. r = To(p, "rep_check")
      BY <2>2
    <3>2. Arrives(To(p, "rep_check"), p, "rep_check")
      BY Known, ToTyped DEF Labels
    <3>. QED
      BY <2>2, <3>1, <3>2 DEF Arrives
  <2>. QED
    BY <2>1, <2>2
<1> HIDE DEF r
<1>3. Sound(r, trained)
  BY <1>1, <1>2, Known
     DEF Continues, Sound, Saving, Activating, Writing, Disabling
<1>4. ReadStep(p, r)
  BY <1>1, <1>2, <1>3 DEF ReadStep
<1>. QED
  BY <1>1, <1>2, <1>4

LEMMA RepCheckStep ==
  ASSUME TypeInv, NEW p \in Process, RepCheck(p)
  PROVE  \E r : /\ ReadStep(p, r) /\ proc[p].at = "rep_check"
                /\ r.at \in {"idle", "rep_read"} /\ r.next = "idle"
<1> DEFINE label == IF Consistent THEN "idle" ELSE "rep_read"
           r == [To(p, label) EXCEPT !.next = "idle"]
<1>1. Reads(p, r) /\ proc[p].at = "rep_check"
  BY DEF RepCheck
<1>2. label \in {"idle", "rep_read"}
  OBVIOUS
<1> HIDE DEF label
<1>3. CASE label = "idle"
  <2>1. r = [Idle EXCEPT !.next = "idle"]
    BY <1>3, Known, ToTyped DEF Labels
  <2>2. /\ r \in Operation /\ r.at = "idle" /\ r.kind = "train" /\ r.version = None
        /\ r.next = "idle" /\ ~r.alone
    BY <2>1, IdleTyped, IdleFields DEF Operation, Labels
  <2>. QED
    BY <1>1, <2>2, EndsSound DEF ReadStep
<1>4. CASE label = "rep_read"
  <2>1. Arrives(To(p, label), p, label)
    BY <1>4, Known, ToTyped DEF Labels
  <2>2. /\ r \in Operation /\ Continues(r, proc[p]) /\ r.version = proc[p].version
        /\ r.at = label /\ r.next = "idle"
    BY <2>1 DEF Arrives, Operation, Continues, Labels
  <2> HIDE DEF r
  <2>3. Sound(r, trained)
    BY <1>1, <1>4, <2>2, Known
       DEF Continues, Sound, Saving, Activating, Writing, Disabling
  <2>. QED
    BY <1>1, <1>4, <2>2, <2>3 DEF ReadStep
<1>. QED
  BY <1>2, <1>3, <1>4


-----------------------------------------------------------------------------
(* The operations that write.                                              *)

\* A write by p that happened or failed.
WriteStep(p, r, done) ==
  /\ r \in Operation /\ done \in Outcomes /\ Goes(p, r, done) /\ proc[p].at # "idle"
  /\ Ends(r) \/ Continues(r, proc[p])
  /\ Sound(r, trained')

LEMMA WriteEffect ==
  ASSUME TypeInv, NEW p \in Process, NEW r, NEW done, WriteStep(p, r, done),
         trained' \in {trained, trained + 1}
  PROVE  /\ Turn(p, done) /\ Alike(proc'[p], r) /\ ProcTyped' /\ done \in BOOLEAN
         /\ faults' \in 0 .. MaxFaults
<1>1. /\ trained \in Nat /\ trained' \in Nat /\ trained <= trained'
  BY ReadersTyped DEF TypeInv
<1>2. /\ r \in Operation /\ done \in Outcomes /\ Goes(p, r, done) /\ proc[p].at # "idle"
      /\ Ends(r) \/ Continues(r, proc[p])
      /\ Sound(r, trained')
  BY DEF WriteStep
<1>3. done \in BOOLEAN /\ (IF done THEN faults ELSE faults + 1) \in 0 .. MaxFaults
  BY <1>2, OutcomesTyped DEF TypeInv
<1>4. Turn(p, done) /\ Alike(proc'[p], r) /\ ProcTyped'
  BY <1>1, <1>2, <1>3, TurnEffect DEF TypeInv
<1>. QED
  BY <1>3, <1>4 DEF Turn

LEMMA SaveFilesStep ==
  ASSUME TypeInv, NEW p \in Process, SaveFiles(p)
  PROVE  \E r, done : /\ WriteStep(p, r, done)
                      /\ \/ Ends(r)
                         \/ r.at = "save_meta" /\ r.version = trained + 1
<1>1. PICK done \in Outcomes :
        Goes(p, IF done THEN [To(p, "save_meta") EXCEPT !.version = trained + 1]
                ELSE To(p, "idle"), done)
  BY DEF SaveFiles
<1>2. /\ proc[p].at = "save_files" /\ trained' = trained + 1
      /\ trained + 1 \in 1 .. MaxVersion /\ trained \in Nat
  BY ReadersTyped, VersionAssumption DEF SaveFiles, TypeInv, FilesTyped
<1>3. CASE done
  <2> DEFINE r == [To(p, "save_meta") EXCEPT !.version = trained + 1]
  <2>1. Arrives(To(p, "save_meta"), p, "save_meta")
    BY Known, ToTyped DEF Labels
  <2>2. /\ r \in Operation /\ Continues(r, proc[p]) /\ r.version = trained + 1
        /\ r.at = "save_meta" /\ r.next = proc[p].next
    BY <1>2, <2>1 DEF Arrives, Operation, Continues
  <2>3. Goes(p, r, done)
    BY <1>1, <1>3
  <2> HIDE DEF r
  <2>4. Sound(r, trained')
    BY <1>2, <2>2, Known
       DEF Continues, Sound, Saving, Activating, Writing, Disabling, None
  <2>. QED
    BY <1>2, <2>2, <2>3, <2>4 DEF WriteStep
<1>4. CASE ~done
  <2>1. Goes(p, Idle, done)
    BY <1>1, <1>4, Known, ToTyped DEF Labels
  <2>2. Sound(Idle, trained')
    BY <1>2, IdleSound
  <2>. QED
    BY <1>2, <2>1, <2>2, IdleTyped, IdleEnds DEF WriteStep
<1>. QED
  BY <1>3, <1>4

LEMMA SaveMetaStep ==
  ASSUME TypeInv, NEW p \in Process, SaveMeta(p)
  PROVE  \E r, done : /\ WriteStep(p, r, done)
                      /\ Stays(r, p) /\ r.at = "save_row"
<1>1. PICK done \in Outcomes : Goes(p, [To(p, "save_row") EXCEPT !.ok = done], done)
  BY DEF SaveMeta
<1>2. proc[p].at = "save_meta" /\ trained' = trained
  BY DEF SaveMeta
<1> DEFINE r == [To(p, "save_row") EXCEPT !.ok = done]
<1>3. Arrives(To(p, "save_row"), p, "save_row")
  BY Known, ToTyped DEF Labels
<1>4. done \in BOOLEAN
  BY OutcomesTyped DEF TypeInv
<1>5. Stays(r, p) /\ r.at = "save_row"
  BY <1>3, <1>4 DEF Arrives, Stays, Operation, Continues
<1> HIDE DEF r
<1>6. Sound(r, trained)
  BY <1>2, <1>5, Known
     DEF Stays, Continues, Sound, Saving, Activating, Writing, Disabling
<1>7. Goes(p, r, done)
  BY <1>1 DEF r
<1>. QED
  BY <1>2, <1>5, <1>6, <1>7 DEF WriteStep, Stays

LEMMA SaveRowStep ==
  ASSUME TypeInv, NEW p \in Process, SaveRow(p)
  PROVE  \E r, done : /\ WriteStep(p, r, done)
                      /\ row' \in {row, [row EXCEPT ![proc[p].version] = "fresh"]}
                      /\ \/ Ends(r)
                         \/ /\ r.at \in {"act_read", "upd_read"}
                            /\ r.version = proc[p].version
<1> DEFINE after(done, passed) ==
             LET saved == proc[p].ok /\ done
             IN  CASE saved /\ passed -> "act_read"
                   [] saved /\ ~passed /\ proc[p].kind = "guard" -> "upd_read"
                   [] OTHER -> "idle"
<1>1. PICK done \in Outcomes, passed \in BOOLEAN :
        /\ row' = IF done THEN [row EXCEPT ![proc[p].version] = "fresh"] ELSE row
        /\ Goes(p, [To(p, after(done, passed)) EXCEPT !.ok = TRUE, !.mark = "shadow"], done)
  BY DEF SaveRow, Validation
<1>2. proc[p].at = "save_row" /\ trained' = trained
  BY DEF SaveRow, files
<1> DEFINE label == after(done, passed)
           r == [To(p, label) EXCEPT !.ok = TRUE, !.mark = "shadow"]
<1>3. label \in {"act_read", "upd_read", "idle"}
  OBVIOUS
<1>4. Goes(p, r, done)
  BY <1>1
<1>5. row' \in {row, [row EXCEPT ![proc[p].version] = "fresh"]}
  BY <1>1
<1> HIDE DEF label
<1>6. CASE label = "idle"
  <2>1. r = [Idle EXCEPT !.ok = TRUE, !.mark = "shadow"]
    BY <1>6, Known, ToTyped DEF Labels
  <2>2. /\ r \in Operation /\ r.at = "idle" /\ r.kind = "train" /\ r.version = None
        /\ r.next = "idle" /\ ~r.alone
    BY <2>1, IdleTyped, IdleFields DEF Operation, Status
  <2>. QED
    BY <1>2, <1>4, <1>5, <2>2, EndsSound DEF WriteStep
<1>7. CASE label # "idle"
  <2>1. Arrives(To(p, label), p, label)
    BY <1>3, <1>7, Known, ToTyped DEF Labels
  <2>2. /\ r \in Operation /\ Continues(r, proc[p]) /\ r.version = proc[p].version
        /\ r.at = label /\ r.next = proc[p].next /\ r.mark = "shadow"
    BY <2>1 DEF Arrives, Operation, Continues, Status
  <2> HIDE DEF r
  <2>3. Sound(r, trained)
    BY <1>2, <1>3, <1>7, <2>2, Known
       DEF Continues, Sound, Saving, Activating, Writing, Disabling
  <2>. QED
    BY <1>2, <1>3, <1>4, <1>5, <1>7, <2>2, <2>3 DEF WriteStep
<1>. QED
  BY <1>6, <1>7

LEMMA ActPointerStep ==
  ASSUME TypeInv, NEW p \in Process, ActPointer(p)
  PROVE  \E r, done : /\ WriteStep(p, r, done)
                      /\ \/ Ends(r)
                         \/ Stays(r, p) /\ r.at \in {"act_meta", "upd_read"}
<1> DEFINE r(done) == IF done THEN To(p, "act_meta") ELSE Activated(p, FALSE)
<1>1. PICK done \in Outcomes : Goes(p, r(done), done)
  BY DEF ActPointer
<1>2. proc[p].at = "act_pointer" /\ trained' = trained
  BY DEF ActPointer
<1>3. Arrives(To(p, "act_meta"), p, "act_meta")
  BY Known, ToTyped DEF Labels
<1>4. \/ r(done) = Idle
      \/ Stays(r(done), p) /\ r(done).at \in {"act_meta", "upd_read"}
  <2>1. CASE done
    BY <1>3, <2>1 DEF Arrives, Stays
  <2>2. CASE ~done
    <3>1. r(done) = Activated(p, FALSE)
      BY <2>2
    <3>. QED
      BY <3>1, ActivatedEffect
  <2>. QED
    BY <2>1, <2>2
<1> HIDE DEF r
<1>5. r(done) \in Operation /\ Sound(r(done), trained)
  BY <1>2, <1>4, Known
     DEF Stays, Continues, Sound, Saving, Activating, Writing, Disabling
<1>6. WriteStep(p, r(done), done)
  BY <1>1, <1>2, <1>4, <1>5, IdleEnds DEF WriteStep, Stays
<1>. QED
  BY <1>4, <1>6, IdleEnds

LEMMA ActMetaStep ==
  ASSUME TypeInv, NEW p \in Process, ActMeta(p)
  PROVE  \E r, done : /\ WriteStep(p, r, done)
                      /\ Stays(r, p) /\ r.at = "act_clear"
<1>1. PICK done \in Outcomes : Goes(p, [To(p, "act_clear") EXCEPT !.ok = @ /\ done], done)
  BY DEF ActMeta
<1>2. proc[p].at = "act_meta" /\ trained' = trained
  BY DEF ActMeta
<1> DEFINE r == [To(p, "act_clear") EXCEPT !.ok = @ /\ done]
<1>3. Arrives(To(p, "act_clear"), p, "act_clear")
  BY Known, ToTyped DEF Labels
<1>4. Stays(r, p) /\ r.at = "act_clear"
  BY <1>3 DEF Arrives, Stays, Operation, Continues
<1> HIDE DEF r
<1>5. Sound(r, trained)
  BY <1>2, <1>4, Known
     DEF Stays, Continues, Sound, Saving, Activating, Writing, Disabling
<1>6. Goes(p, r, done)
  BY <1>1 DEF r
<1>. QED
  BY <1>2, <1>4, <1>5, <1>6 DEF WriteStep, Stays

LEMMA ActClearStep ==
  ASSUME TypeInv, NEW p \in Process, ActClear(p)
  PROVE  \E r, done : /\ WriteStep(p, r, done) /\ Stays(r, p) /\ r.at = "act_row"
                      /\ active' = IF done THEN {} ELSE active
<1>1. PICK done \in Outcomes :
        /\ active' = IF done THEN {} ELSE active
        /\ Goes(p, [To(p, "act_row") EXCEPT !.ok = @ /\ done], done)
  BY DEF ActClear
<1>2. proc[p].at = "act_clear" /\ trained' = trained
  BY DEF ActClear, files
<1> DEFINE r == [To(p, "act_row") EXCEPT !.ok = @ /\ done]
<1>3. Arrives(To(p, "act_row"), p, "act_row")
  BY Known, ToTyped DEF Labels
<1>4. Stays(r, p) /\ r.at = "act_row"
  BY <1>3 DEF Arrives, Stays, Operation, Continues
<1> HIDE DEF r
<1>5. Sound(r, trained)
  BY <1>2, <1>4, Known
     DEF Stays, Continues, Sound, Saving, Activating, Writing, Disabling
<1>6. Goes(p, r, done)
  BY <1>1 DEF r
<1>. QED
  BY <1>1, <1>2, <1>4, <1>5, <1>6 DEF WriteStep, Stays

LEMMA ActRowStep ==
  ASSUME TypeInv, NEW p \in Process, ActRow(p)
  PROVE  \E r, done :
           /\ WriteStep(p, r, done)
           /\ active' = IF done THEN active \cup {proc[p].version} ELSE active
           /\ Ends(r) \/ (Stays(r, p) /\ r.at = "upd_read")
<1>1. PICK done \in Outcomes :
        /\ active' = IF done THEN active \cup {proc[p].version} ELSE active
        /\ Goes(p, Activated(p, proc[p].ok /\ done), done)
  BY DEF ActRow
<1>2. proc[p].at = "act_row" /\ trained' = trained
  BY DEF ActRow, files
<1> DEFINE r == Activated(p, proc[p].ok /\ done)
<1>3. \/ r = Idle
      \/ Stays(r, p) /\ r.at = "upd_read"
  BY ActivatedEffect
<1>4. Goes(p, r, done)
  BY <1>1
<1> HIDE DEF r
<1>5. r \in Operation /\ Sound(r, trained)
  BY <1>2, <1>3, Known
     DEF Stays, Continues, Sound, Saving, Activating, Writing, Disabling
<1>6. WriteStep(p, r, done)
  BY <1>2, <1>3, <1>4, <1>5, IdleEnds DEF WriteStep, Stays
<1>. QED
  BY <1>1, <1>3, <1>6, IdleEnds


\* A write after which p goes on to the next label, as it is.
LEMMA ArrivesStep ==
  ASSUME TypeInv, NEW p \in Process, NEW label \in Labels \ {"idle"}, NEW done \in Outcomes,
         Goes(p, To(p, label), done), proc[p].at # "idle", trained' = trained,
         label \in {"upd_look", "upd_row", "dis_clear"},
         label # "dis_clear" => proc[p].at \in Writing,
         label = "dis_clear" => proc[p].at = "dis_pointer"
  PROVE  \E r : /\ WriteStep(p, r, done) /\ Stays(r, p) /\ r.at = label
                /\ r.status = proc[p].status
<1> DEFINE r == To(p, label)
<1>1. Arrives(r, p, label)
  BY Known, ToTyped
<1> HIDE DEF r
<1>2. Sound(r, trained)
  BY <1>1, Known
     DEF Arrives, Continues, Sound, Saving, Activating, Writing, Disabling
<1>3. Goes(p, r, done)
  BY DEF r
<1>. QED
  BY <1>1, <1>2, <1>3 DEF WriteStep, Arrives, Stays

LEMMA UpdMetaStep ==
  ASSUME TypeInv, NEW p \in Process, UpdMeta(p)
  PROVE  \E r, done :
           /\ WriteStep(p, r, done) /\ Stays(r, p) /\ r.at = "upd_look"
           /\ r.status = proc[p].status
           /\ meta' = IF done /\ meta[proc[p].version] # Absent
                      THEN [meta EXCEPT ![proc[p].version] = proc[p].status] ELSE meta
<1>1. PICK done \in Outcomes :
        /\ meta' = IF done /\ meta[proc[p].version] # Absent
                   THEN [meta EXCEPT ![proc[p].version] = proc[p].status] ELSE meta
        /\ Goes(p, To(p, "upd_look"), done)
  BY DEF UpdMeta
<1>2. proc[p].at = "upd_meta" /\ trained' = trained /\ "upd_look" \in Labels \ {"idle"}
  BY DEF UpdMeta, Labels
<1>3. \E r : /\ WriteStep(p, r, done) /\ Stays(r, p) /\ r.at = "upd_look"
             /\ r.status = proc[p].status
  BY <1>1, <1>2, ArrivesStep DEF Writing
<1>. QED
  BY <1>1, <1>3

LEMMA UpdPointerStep ==
  ASSUME TypeInv, NEW p \in Process, UpdPointer(p)
  PROVE  \E r, done :
           /\ WriteStep(p, r, done) /\ Stays(r, p) /\ r.at = "upd_row"
           /\ r.status = proc[p].status
           /\ pointer' = IF done THEN [version |-> proc[p].version, status |-> proc[p].held]
                         ELSE pointer
<1>1. PICK done \in Outcomes :
        /\ pointer' = IF done THEN [version |-> proc[p].version, status |-> proc[p].held]
                      ELSE pointer
        /\ Goes(p, To(p, "upd_row"), done)
  BY DEF UpdPointer
<1>2. proc[p].at = "upd_pointer" /\ trained' = trained /\ "upd_row" \in Labels \ {"idle"}
  BY DEF UpdPointer, Labels
<1>3. \E r : /\ WriteStep(p, r, done) /\ Stays(r, p) /\ r.at = "upd_row"
             /\ r.status = proc[p].status
  BY <1>1, <1>2, ArrivesStep DEF Writing
<1>. QED
  BY <1>1, <1>3

LEMMA UpdRowStep ==
  ASSUME TypeInv, NEW p \in Process, UpdRow(p)
  PROVE  \E r, done :
           /\ WriteStep(p, r, done)
           /\ Ends(r) \/ (Stays(r, p) /\ r.at = "dis_pointer")
           /\ row' = IF done /\ row[proc[p].version] # Absent
                     THEN [row EXCEPT ![proc[p].version] = proc[p].status] ELSE row
           /\ retired' = IF done /\ proc[p].alone /\ proc[p].mark = "disabled"
                         THEN retired \cup {proc[p].version} ELSE retired
<1>1. PICK done \in Outcomes :
        /\ row' = IF done /\ row[proc[p].version] # Absent
                  THEN [row EXCEPT ![proc[p].version] = proc[p].status] ELSE row
        /\ Goes(p, Marked(p), done)
        /\ retired' = IF done /\ proc[p].alone /\ proc[p].mark = "disabled"
                      THEN retired \cup {proc[p].version} ELSE retired
  BY DEF UpdRow
<1>2. proc[p].at = "upd_row" /\ trained' = trained
  BY DEF UpdRow, files
<1> DEFINE r == Marked(p)
<1>3. \/ r = Idle
      \/ Stays(r, p) /\ r.at = "dis_pointer"
  BY MarkedEffect
<1> HIDE DEF r
<1>4. r \in Operation /\ Sound(r, trained)
  BY <1>2, <1>3, Known
     DEF Stays, Continues, Sound, Saving, Activating, Writing, Disabling
<1>5. Goes(p, r, done)
  BY <1>1 DEF r
<1>6. WriteStep(p, r, done)
  BY <1>2, <1>3, <1>4, <1>5, IdleEnds DEF WriteStep, Stays
<1>. QED
  BY <1>1, <1>3, <1>6, IdleEnds

LEMMA DisPointerStep ==
  ASSUME TypeInv, NEW p \in Process, DisPointer(p)
  PROVE  \E r, done :
           /\ WriteStep(p, r, done) /\ Stays(r, p) /\ r.at = "dis_clear"
           /\ pointer' = IF done THEN [version |-> None, status |-> "fresh"] ELSE pointer
<1>1. PICK done \in Outcomes :
        /\ pointer' = IF done THEN [version |-> None, status |-> "fresh"] ELSE pointer
        /\ Goes(p, To(p, "dis_clear"), done)
  BY DEF DisPointer
<1>2. /\ proc[p].at = "dis_pointer" /\ trained' = trained
      /\ "dis_clear" \in Labels \ {"idle"}
  BY DEF DisPointer, Labels
<1>3. \E r : WriteStep(p, r, done) /\ Stays(r, p) /\ r.at = "dis_clear"
  BY <1>1, <1>2, ArrivesStep
<1>. QED
  BY <1>1, <1>3

LEMMA DisClearStep ==
  ASSUME TypeInv, NEW p \in Process, DisClear(p)
  PROVE  \E r, done :
           /\ WriteStep(p, r, done)
           /\ Ends(r) \/ (Stays(r, p) /\ r.at = proc[p].next)
           /\ r.at \in {"idle", "rep_done", "rep_check"}
           /\ active' = IF done THEN {} ELSE active
<1>1. PICK done \in Outcomes :
        /\ active' = IF done THEN {} ELSE active
        /\ Goes(p, To(p, proc[p].next), done)
  BY DEF DisClear
<1>2. proc[p].at = "dis_clear" /\ trained' = trained
  BY DEF DisClear, files
<1> DEFINE r == To(p, proc[p].next)
<1>3. proc[p].next \in {"idle", "rep_done", "rep_check"}
  BY Known DEF Sound
<1>4. \/ r = Idle
      \/ Arrives(r, p, proc[p].next)
  BY <1>3, Known, ToTyped DEF Labels
<1> HIDE DEF r
<1>5. r \in Operation /\ Sound(r, trained)
  BY <1>2, <1>3, <1>4, Known
     DEF Arrives, Continues, Sound, Saving, Activating, Writing, Disabling
<1>6. Goes(p, r, done)
  BY <1>1 DEF r
<1>7. WriteStep(p, r, done)
  BY <1>2, <1>4, <1>5, <1>6, IdleEnds DEF WriteStep, Arrives
<1>8. r.at \in {"idle", "rep_done", "rep_check"}
  BY <1>3, <1>4, IdleFields DEF Arrives
<1>. QED
  BY <1>1, <1>4, <1>7, <1>8, IdleEnds DEF Arrives, Stays

LEMMA RepRowStep ==
  ASSUME TypeInv, NEW p \in Process, RepRow(p)
  PROVE  \E v \in proc[p].todo : \E r, done :
           /\ WriteStep(p, r, done) /\ Stays(r, p) /\ r.at = "rep_rows"
           /\ r.todo = proc[p].todo \ {v}
           /\ active' = IF done THEN active \ {v} ELSE active
<1>1. PICK v \in proc[p].todo, done \in Outcomes :
        /\ active' = IF done THEN active \ {v} ELSE active
        /\ Goes(p, [proc[p] EXCEPT !.todo = @ \ {v}], done)
  BY DEF RepRow
<1>2. proc[p].at = "rep_rows" /\ trained' = trained
  BY DEF RepRow, files
<1> DEFINE r == [proc[p] EXCEPT !.todo = @ \ {v}]
<1>3. Stays(r, p) /\ r.at = "rep_rows" /\ r.todo = proc[p].todo \ {v}
  BY <1>2, Known DEF Stays, Continues, Operation
<1> HIDE DEF r
<1>4. Sound(r, trained)
  BY <1>2, <1>3, Known
     DEF Stays, Continues, Sound, Saving, Activating, Writing, Disabling
<1>5. Goes(p, r, done)
  BY <1>1 DEF r
<1>6. WriteStep(p, r, done)
  BY <1>2, <1>3, <1>4, <1>5 DEF WriteStep, Stays
<1>7. /\ v \in proc[p].todo
      /\ active' = IF done THEN active \ {v} ELSE active
  BY <1>1
<1>8. \E s, d :
        /\ WriteStep(p, s, d) /\ Stays(s, p) /\ s.at = "rep_rows"
        /\ s.todo = proc[p].todo \ {v}
        /\ active' = IF d THEN active \ {v} ELSE active
  BY <1>3, <1>6, <1>7
<1>. QED
  BY <1>8

LEMMA CrashStep ==
  ASSUME TypeInv, NEW p \in Process, Crash(p)
  PROVE  \E r : WriteStep(p, r, FALSE) /\ Ends(r)
<1>1. Goes(p, Idle, FALSE) /\ proc[p].at # "idle" /\ trained' = trained
  BY DEF Crash, files
<1>2. FALSE \in Outcomes
  BY DEF Crash, Outcomes
<1>3. Sound(Idle, trained) /\ Ends(Idle) /\ Idle \in Operation
  BY Known, IdleEnds
<1>4. Sound(Idle, trained')
  BY <1>1, <1>3
<1>5. WriteStep(p, Idle, FALSE)
  BY <1>1, <1>2, <1>3, <1>4, Zenon DEF WriteStep
<1>. QED
  BY <1>3, <1>5, Zenon


-----------------------------------------------------------------------------
(* The steps, as relations between what was and what is.                   *)

Keeps(p) ==
  /\ proc'[p].version = proc[p].version /\ proc'[p].mark = proc[p].mark
  /\ proc'[p].next = proc[p].next

\* An operation begins: every other one is no longer alone.
Begins(p) ==
  /\ proc[p].at = "idle" /\ UNCHANGED <<files, rows, past, faults>>
  /\ proc'[p].at \in {"save_files", "dis_read", "choose", "rep_read", "guard", "startup"}
  /\ proc'[p].alone => \A q \in Process : proc[q].at = "idle"
  /\ proc'[p].had = Loaded /\ (proc'[p].several <=> Cardinality(active) > 1)
  /\ \A q \in Process \ {p} : Alike(proc'[q], proc[q]) /\ ~proc'[q].alone

\* Files are lost: nothing is alone any more.
Loses ==
  /\ UNCHANGED <<trained, meta, pointer, rows, past>>
  /\ faults' = faults + 1
  /\ \A q \in Process : Alike(proc'[q], proc[q]) /\ ~proc'[q].alone

\* p reads and goes on.
Looks(p) ==
  /\ Turn(p, TRUE) /\ UNCHANGED <<files, rows, past, faults>>
  /\ \/ proc'[p].at = "idle"
     \/ /\ proc[p].at = "act_read" /\ Keeps(p)
        /\ proc'[p].at \in {"act_pointer", "upd_read"}
     \/ proc[p].at = "upd_read" /\ Keeps(p) /\ proc'[p].at = "dis_pointer"
     \/ /\ proc[p].at = "upd_read" /\ Keeps(p) /\ proc'[p].at = "upd_meta"
        /\ KnownStatus(proc[p].version) # Absent
        /\ proc[p].mark = "keep" => proc'[p].status = KnownStatus(proc[p].version)
     \/ /\ proc[p].at = "upd_look" /\ Keeps(p) /\ proc'[p].status = proc[p].status
        /\ proc'[p].at \in {"upd_row", "upd_pointer"}
        /\ proc'[p].at = "upd_row" => pointer.version # proc[p].version
     \/ /\ proc[p].at = "dis_read" /\ proc'[p].next = proc[p].next
        /\ proc'[p].at = "dis_pointer"
             \/ (proc'[p].at = "upd_read" /\ proc'[p].mark = "disabled")
     \/ /\ proc[p].at = "choose"
        /\ proc'[p].at = "dis_read"
             \/ (proc'[p].at = "act_read" /\ proc'[p].version \in Previous)
     \/ /\ proc[p].at = "rep_read" /\ proc'[p].at = "rep_rows" /\ proc'[p].next = "idle"
        /\ proc'[p].todo = {v \in active : v \notin whole \/ v # Max(active)}
     \/ /\ proc[p].at = "rep_rows" /\ proc[p].todo = {}
        /\ IF Astray THEN proc'[p].at = "dis_pointer" /\ proc'[p].next = "rep_done"
                     ELSE proc'[p].at = "rep_done"
     \/ /\ proc[p].at = "rep_done" /\ proc'[p].at \in {"decide", "dis_read"}
        /\ proc'[p].next = "idle"
     \/ /\ proc[p].at \in {"guard", "rep_check"}
        /\ proc'[p].at \in {"decide", "rep_read"} /\ proc'[p].next = "idle"
     \/ /\ proc[p].at = "decide" /\ proc'[p].next = "idle"
        /\ proc'[p].at \in {"save_files", "dis_read"}
             \/ (proc'[p].at = "upd_read" /\ proc'[p].mark = "keep")
     \/ /\ proc[p].at = "startup"
        /\ IF Broken THEN proc'[p].at = "dis_pointer" /\ proc'[p].next = "rep_check"
                     ELSE proc'[p].at = "rep_check"

LEMMA BeginEffect ==
  ASSUME TypeInv, NEW p \in Process, NEW kind \in Kinds, Begin(p, kind)
  PROVE  TypeInv' /\ Begins(p)
<1> DEFINE lone == \A q \in Process : proc[q].at = "idle"
           first == CASE kind = "train" -> "save_files"
                      [] kind = "load_error" -> "dis_read"
                      [] kind = "rollback" -> "choose"
                      [] kind = "repair" -> "rep_read"
                      [] OTHER -> kind
           many == Cardinality(active) > 1
           r == [Idle EXCEPT !.kind = kind, !.at = first, !.alone = lone,
                             !.had = Loaded, !.several = many]
<1>1. /\ proc' = [q \in Process |-> IF q = p THEN r ELSE [proc[q] EXCEPT !.alone = FALSE]]
      /\ proc[p].at = "idle" /\ begun' = begun + 1 /\ begun < MaxOps
      /\ UNCHANGED <<files, rows, faults, past>>
  BY DEF Begin
<1>2. /\ first \in {"save_files", "dis_read", "choose", "rep_read", "guard", "startup"}
      /\ kind = "guard" => first = "guard"
  BY DEF Kinds
<1>3. Loaded \in 0 .. trained /\ Loaded \in 0 .. MaxVersion /\ trained \in Nat
  BY ReadersTyped, VersionAssumption DEF TypeInv, FilesTyped
<1>4. lone \in BOOLEAN /\ many \in BOOLEAN
  OBVIOUS
<1> HIDE DEF lone, first, many
<1>5. /\ r \in Operation /\ r.kind = kind /\ r.at = first /\ (r.alone <=> lone)
      /\ r.had = Loaded /\ (r.several <=> many)
      /\ r.version = None /\ r.next = "idle"
  BY <1>2, <1>3, <1>4, IdleTyped, IdleFields DEF Operation, Labels
<1> HIDE DEF r
<1>6. Sound(r, trained)
  BY <1>2, <1>3, <1>5
     DEF Sound, Saving, Activating, Writing, Disabling, None
<1>7. \A q \in Process \ {p} :
        /\ proc'[q] \in Operation /\ Alike(proc'[q], proc[q]) /\ ~proc'[q].alone
        /\ Sound(proc'[q], trained)
  <2>1. SUFFICES ASSUME NEW q \in Process \ {p}
                 PROVE  /\ proc'[q] \in Operation /\ Alike(proc'[q], proc[q])
                        /\ ~proc'[q].alone /\ Sound(proc'[q], trained)
    OBVIOUS
  <2>2. proc'[q] = [proc[q] EXCEPT !.alone = FALSE]
    BY <1>1
  <2>3. proc[q] \in Operation /\ Sound(proc[q], trained)
    BY Known
  <2>4. proc'[q] \in Operation /\ Alike(proc'[q], proc[q]) /\ ~proc'[q].alone
    BY <2>2, <2>3 DEF Operation, Alike
  <2>. QED
    BY <1>3, <2>3, <2>4, SoundAlike
<1>8. proc'[p] = r
  BY <1>1
<1>9. DOMAIN proc' = Process /\ proc' = [q \in Process |-> proc'[q]]
  BY <1>1
<1>10. proc' \in [Process -> Operation]
  <2>1. \A q \in Process : proc'[q] \in Operation
    BY <1>5, <1>7, <1>8
  <2>. QED
    BY <1>9, <2>1
<1>11. TypeInv'
  <2>1. trained' = trained /\ ProcTyped'
    BY <1>1, <1>6, <1>7, <1>8, <1>10 DEF ProcTyped, files
  <2>2. begun' \in 0 .. MaxOps
    BY <1>1, LimitAssumption DEF TypeInv, RowsTyped
  <2>. QED
    BY <1>1, <2>1, <2>2 DEF TypeInv, FilesTyped, stored, RowsTyped, files, rows, past
<1>. QED
  BY <1>1, <1>2, <1>5, <1>7, <1>8, <1>11 DEF Begins, lone, many

LEMMA LoseFileEffect ==
  ASSUME TypeInv, NEW v \in Versions, LoseFile(v)
  PROVE  TypeInv' /\ Loses
<1>1. /\ models' \subseteq models /\ schemas' \subseteq schemas
      /\ faults < MaxFaults /\ faults' = faults + 1
      /\ proc' = [q \in Process |-> [proc[q] EXCEPT !.alone = FALSE]]
      /\ UNCHANGED <<trained, meta, pointer, rows, begun, past>>
  BY DEF LoseFile
<1>2. \A q \in Process :
        /\ proc'[q] \in Operation /\ Alike(proc'[q], proc[q]) /\ ~proc'[q].alone
        /\ Sound(proc'[q], trained)
  <2>1. SUFFICES ASSUME NEW q \in Process
                 PROVE  /\ proc'[q] \in Operation /\ Alike(proc'[q], proc[q])
                        /\ ~proc'[q].alone /\ Sound(proc'[q], trained)
    OBVIOUS
  <2>2. proc'[q] = [proc[q] EXCEPT !.alone = FALSE]
    BY <1>1
  <2>3. proc[q] \in Operation /\ Sound(proc[q], trained) /\ trained \in Nat
    BY Known
  <2>4. proc'[q] \in Operation /\ Alike(proc'[q], proc[q]) /\ ~proc'[q].alone
    BY <2>2, <2>3 DEF Operation, Alike
  <2>. QED
    BY <2>3, <2>4, SoundAlike
<1>3. proc' \in [Process -> Operation]
  <2>1. proc' = [q \in Process |-> proc'[q]]
    BY <1>1
  <2>. QED
    BY <1>2, <2>1
<1>4. ProcTyped'
  BY <1>1, <1>2, <1>3 DEF ProcTyped
<1>5. faults' \in 0 .. MaxFaults
  BY <1>1, LimitAssumption DEF TypeInv, RowsTyped
<1>6. FilesTyped' /\ RowsTyped'
  BY <1>1, <1>5 DEF TypeInv, FilesTyped, stored, RowsTyped, rows, past
<1>. QED
  BY <1>1, <1>2, <1>4, <1>6 DEF TypeInv, Loses


\* What is known of the step of a reader that goes on as r.
LEMMA ReadSeen ==
  ASSUME TypeInv, NEW p \in Process, NEW r, ReadStep(p, r)
  PROVE  /\ TypeInv' /\ Turn(p, TRUE) /\ UNCHANGED <<files, rows, past, faults>>
         /\ proc'[p].at = r.at /\ proc'[p].version = r.version
         /\ proc'[p].mark = r.mark /\ proc'[p].next = r.next
         /\ proc'[p].status = r.status /\ proc'[p].todo = r.todo
BY ReadsEffect DEF Alike

LEMMA LooksEffect ==
  ASSUME TypeInv, NEW p \in Process,
         \/ SkipTraining(p) \/ ActRead(p) \/ UpdRead(p) \/ UpdLook(p) \/ DisRead(p)
         \/ Choose(p) \/ RepRead(p) \/ RepPointer(p) \/ RepDone(p)
         \/ Guard(p) \/ Decide(p) \/ Startup(p) \/ RepCheck(p)
  PROVE  TypeInv' /\ Looks(p)
<1>1. CASE SkipTraining(p)
  <2>1. PICK r : ReadStep(p, r) /\ Ends(r)
    BY <1>1, SkipTrainingStep
  <2>. QED
    BY <2>1, ReadSeen DEF Looks, Ends
<1>2. CASE ActRead(p)
  <2>1. PICK r : /\ ReadStep(p, r)
                 /\ \/ Ends(r)
                    \/ Stays(r, p) /\ r.at \in {"act_pointer", "upd_read"}
    BY <1>2, ActReadStep
  <2>2. proc[p].at = "act_read"
    BY <1>2 DEF ActRead
  <2>. QED
    BY <2>1, <2>2, ReadSeen DEF Looks, Ends, Stays, Keeps
<1>3. CASE UpdRead(p)
  <2>1. PICK r :
          /\ ReadStep(p, r)
          /\ \/ Ends(r)
             \/ Stays(r, p) /\ r.at = "dis_pointer"
             \/ /\ Stays(r, p) /\ r.at = "upd_meta"
                /\ KnownStatus(proc[p].version) # Absent
                /\ r.mark = "keep" => r.status = KnownStatus(proc[p].version)
    BY <1>3, UpdReadStep
  <2>2. proc[p].at = "upd_read"
    BY <1>3 DEF UpdRead
  <2>. QED
    BY <2>1, <2>2, ReadSeen DEF Looks, Ends, Stays, Keeps
<1>4. CASE UpdLook(p)
  <2>1. PICK r : /\ ReadStep(p, r) /\ Stays(r, p) /\ r.status = proc[p].status
                 /\ r.at \in {"upd_row", "upd_pointer"}
                 /\ r.at = "upd_row" => pointer.version # proc[p].version
    BY <1>4, UpdLookStep
  <2>2. proc[p].at = "upd_look"
    BY <1>4 DEF UpdLook
  <2>. QED
    BY <2>1, <2>2, ReadSeen DEF Looks, Stays, Keeps
<1>5. CASE DisRead(p)
  <2>1. PICK r : /\ ReadStep(p, r) /\ r.next = proc[p].next
                 /\ \/ r.at = "dis_pointer"
                    \/ r.at = "upd_read" /\ r.mark = "disabled"
    BY <1>5, DisReadStep
  <2>2. proc[p].at = "dis_read"
    BY <1>5 DEF DisRead
  <2>. QED
    BY <2>1, <2>2, ReadSeen DEF Looks
<1>6. CASE Choose(p)
  <2>1. PICK r : /\ ReadStep(p, r)
                 /\ \/ r.at = "dis_read"
                    \/ r.at = "act_read" /\ r.version \in Previous
    BY <1>6, ChooseStep
  <2>2. proc[p].at = "choose"
    BY <1>6 DEF Choose
  <2>. QED
    BY <2>1, <2>2, ReadSeen DEF Looks
<1>7. CASE RepRead(p)
  <2>1. PICK r : /\ ReadStep(p, r) /\ r.at = "rep_rows" /\ r.next = "idle"
                 /\ r.todo = {v \in active : v \notin whole \/ v # Max(active)}
    BY <1>7, RepReadStep
  <2>2. proc[p].at = "rep_read"
    BY <1>7 DEF RepRead
  <2>. QED
    BY <2>1, <2>2, ReadSeen DEF Looks
<1>8. CASE RepPointer(p)
  <2>1. PICK r : /\ ReadStep(p, r) /\ proc[p].todo = {} /\ proc[p].at = "rep_rows"
                 /\ IF Astray THEN r.at = "dis_pointer" /\ r.next = "rep_done"
                              ELSE r.at = "rep_done"
    BY <1>8, RepPointerStep
  <2>. QED
    BY <2>1, ReadSeen DEF Looks
<1>9. CASE RepDone(p)
  <2>1. PICK r : /\ ReadStep(p, r) /\ r.at \in {"idle", "decide", "dis_read"}
                 /\ r.next = "idle"
    BY <1>9, RepDoneStep
  <2>2. proc[p].at = "rep_done"
    BY <1>9 DEF RepDone
  <2>. QED
    BY <2>1, <2>2, ReadSeen DEF Looks
<1>10. CASE Guard(p)
  <2>1. PICK r : /\ ReadStep(p, r)
                 /\ r.at \in {"idle", "decide", "rep_read"} /\ r.next = "idle"
    BY <1>10, GuardStep
  <2>2. proc[p].at = "guard"
    BY <1>10 DEF Guard
  <2>. QED
    BY <2>1, <2>2, ReadSeen DEF Looks
<1>11. CASE Decide(p)
  <2>1. PICK r : /\ ReadStep(p, r)
                 /\ \/ r.at \in {"idle", "save_files", "dis_read"}
                    \/ r.at = "upd_read" /\ r.mark = "keep"
                 /\ r.next = "idle"
    BY <1>11, DecideStep
  <2>2. proc[p].at = "decide"
    BY <1>11 DEF Decide
  <2>. QED
    BY <2>1, <2>2, ReadSeen DEF Looks
<1>12. CASE Startup(p)
  <2>1. PICK r : /\ ReadStep(p, r) /\ proc[p].at = "startup"
                 /\ IF Broken THEN r.at = "dis_pointer" /\ r.next = "rep_check"
                              ELSE r.at = "rep_check"
    BY <1>12, StartupStep
  <2>. QED
    BY <2>1, ReadSeen DEF Looks
<1>13. CASE RepCheck(p)
  <2>1. PICK r : /\ ReadStep(p, r) /\ proc[p].at = "rep_check"
                 /\ r.at \in {"idle", "rep_read"} /\ r.next = "idle"
    BY <1>13, RepCheckStep
  <2>. QED
    BY <2>1, ReadSeen DEF Looks
<1>. QED
  BY <1>1, <1>2, <1>3, <1>4, <1>5, <1>6, <1>7, <1>8, <1>9, <1>10, <1>11, <1>12, <1>13

-----------------------------------------------------------------------------

\* The version in hand is given a status in a function of the versions, or not.
Given(now, then, v, status) == then \in {now, [now EXCEPT ![v] = status]}

\* p writes one thing and goes on, or the write fails.
Writes(p, done) ==
  /\ Turn(p, done)
  /\ \/ /\ proc[p].at = "save_files" /\ UNCHANGED <<meta, pointer, rows, past>>
        /\ \/ proc'[p].at = "idle"
           \/ proc'[p].at = "save_meta" /\ proc'[p].version = trained + 1
     \/ /\ proc[p].at = "save_meta" /\ UNCHANGED <<stored, pointer, rows, past>>
        /\ Given(meta, meta', proc[p].version, "fresh")
        /\ Keeps(p) /\ proc'[p].at = "save_row"
     \/ /\ proc[p].at = "save_row" /\ UNCHANGED <<files, active, past>>
        /\ Given(row, row', proc[p].version, "fresh")
        /\ \/ proc'[p].at = "idle"
           \/ /\ proc'[p].at \in {"act_read", "upd_read"}
              /\ proc'[p].version = proc[p].version
     \/ /\ proc[p].at = "act_pointer" /\ UNCHANGED <<stored, meta, rows, past>>
        /\ pointer' \in {pointer, [version |-> proc[p].version, status |-> proc[p].status]}
        /\ \/ proc'[p].at = "idle"
           \/ Keeps(p) /\ proc'[p].at \in {"act_meta", "upd_read"}
     \/ /\ proc[p].at = "act_meta" /\ UNCHANGED <<stored, pointer, rows, past>>
        /\ Given(meta, meta', proc[p].version, proc[p].status)
        /\ Keeps(p) /\ proc'[p].at = "act_clear"
     \/ /\ proc[p].at = "act_clear" /\ UNCHANGED <<files, row, retired>>
        /\ active' = IF done THEN {} ELSE active
        /\ raced' <=> raced \/ \E q \in Process \ {p} : proc[q].at = "act_row"
        /\ Keeps(p) /\ proc'[p].at = "act_row"
     \/ /\ proc[p].at = "act_row" /\ UNCHANGED <<files, past>>
        /\ active' = IF done THEN active \cup {proc[p].version} ELSE active
        /\ Given(row, row', proc[p].version, proc[p].status)
        /\ proc'[p].at = "idle" \/ (Keeps(p) /\ proc'[p].at = "upd_read")
     \/ /\ proc[p].at = "upd_meta" /\ UNCHANGED <<stored, pointer, rows, past>>
        /\ meta' = IF done /\ meta[proc[p].version] # Absent
                   THEN [meta EXCEPT ![proc[p].version] = proc[p].status] ELSE meta
        /\ Keeps(p) /\ proc'[p].at = "upd_look" /\ proc'[p].status = proc[p].status
     \/ /\ proc[p].at = "upd_pointer" /\ UNCHANGED <<stored, meta, rows, past>>
        /\ pointer' = IF done THEN [version |-> proc[p].version, status |-> proc[p].held]
                      ELSE pointer
        /\ Keeps(p) /\ proc'[p].at = "upd_row" /\ proc'[p].status = proc[p].status
     \/ /\ proc[p].at = "upd_row" /\ UNCHANGED <<files, active, raced>>
        /\ row' = IF done /\ row[proc[p].version] # Absent
                  THEN [row EXCEPT ![proc[p].version] = proc[p].status] ELSE row
        /\ retired' = IF done /\ proc[p].alone /\ proc[p].mark = "disabled"
                      THEN retired \cup {proc[p].version} ELSE retired
        /\ proc'[p].at = "idle" \/ (Keeps(p) /\ proc'[p].at = "dis_pointer")
     \/ /\ proc[p].at = "dis_pointer" /\ UNCHANGED <<stored, meta, rows, past>>
        /\ pointer' = IF done THEN [version |-> None, status |-> "fresh"] ELSE pointer
        /\ Keeps(p) /\ proc'[p].at = "dis_clear"
     \/ /\ proc[p].at = "dis_clear" /\ UNCHANGED <<files, row, past>>
        /\ active' = IF done THEN {} ELSE active
        /\ proc'[p].at \in {"idle", "rep_done", "rep_check"}
        /\ proc'[p].at = "idle" \/ (Keeps(p) /\ proc'[p].at = proc[p].next)
     \/ /\ proc[p].at = "rep_rows" /\ UNCHANGED <<files, row, past>>
        /\ Keeps(p) /\ proc'[p].at = "rep_rows"
        /\ \E v \in proc[p].todo :
             /\ proc'[p].todo = proc[p].todo \ {v}
             /\ active' = IF done THEN active \ {v} ELSE active
     \/ UNCHANGED <<files, rows, past>> /\ proc'[p].at = "idle"


\* What is known of a write after which p goes on as r.
LEMMA WriteSeen ==
  ASSUME TypeInv, NEW p \in Process, NEW r, NEW done, WriteStep(p, r, done),
         trained' \in {trained, trained + 1}
  PROVE  /\ ProcTyped' /\ faults' \in 0 .. MaxFaults
         /\ Turn(p, done) /\ done \in BOOLEAN
         /\ proc'[p].at = r.at /\ proc'[p].version = r.version
         /\ proc'[p].mark = r.mark /\ proc'[p].next = r.next
         /\ proc'[p].status = r.status /\ proc'[p].todo = r.todo
BY WriteEffect DEF Alike

\* What is known of a writer before it writes.
LEMMA WriterKnown ==
  ASSUME TypeInv, NEW p \in Process,
         proc[p].at \in Saving \cup Activating \cup Writing
  PROVE  /\ proc[p].version \in Versions /\ proc[p].version \in 1 .. trained
         /\ proc[p].status \in Status /\ proc[p].held \in Status
         /\ FilesTyped /\ RowsTyped
<1>1. proc[p].version \in 0 .. trained /\ proc[p].version # None /\ trained \in Nat
  BY Known DEF Sound
<1>. QED
  BY <1>1, Known DEF Operation, TypeInv, None

LEMMA SaveFilesEffect ==
  ASSUME TypeInv, NEW p \in Process, SaveFiles(p)
  PROVE  TypeInv' /\ \E done : Writes(p, done)
<1>1. PICK r, done : /\ WriteStep(p, r, done)
                     /\ \/ Ends(r)
                        \/ r.at = "save_meta" /\ r.version = trained + 1
  BY SaveFilesStep
<1>2. /\ proc[p].at = "save_files" /\ UNCHANGED <<meta, pointer, rows, begun, past>>
      /\ trained' = trained + 1 /\ trained < MaxVersion
      /\ models' \subseteq models \cup {trained + 1}
      /\ schemas' \subseteq schemas \cup {trained + 1}
  BY DEF SaveFiles
<1>3. TypeInv'
  <2>1. trained' \in 1 .. MaxVersion /\ 1 .. trained \subseteq 1 .. trained'
        /\ 0 .. trained \subseteq 0 .. trained'
        /\ models' \subseteq 1 .. trained' /\ schemas' \subseteq 1 .. trained'
    BY <1>2, VersionAssumption DEF TypeInv, FilesTyped
  <2>2. /\ FilesTyped'
    BY <1>2, <2>1 DEF TypeInv, FilesTyped
  <2>3. RowsTyped'
    BY <1>1, <1>2, <2>1, WriteSeen DEF TypeInv, RowsTyped, rows, past
  <2>. QED
    BY <1>1, <1>2, <2>2, <2>3, WriteSeen DEF TypeInv
<1>. QED
  BY <1>1, <1>2, <1>3, WriteSeen DEF Writes, Ends

LEMMA SaveMetaEffect ==
  ASSUME TypeInv, NEW p \in Process, SaveMeta(p)
  PROVE  TypeInv' /\ \E done : Writes(p, done)
<1>1. PICK r, done : WriteStep(p, r, done) /\ Stays(r, p) /\ r.at = "save_row"
  BY SaveMetaStep
<1>2. /\ proc[p].at = "save_meta"
      /\ UNCHANGED <<trained, stored, pointer, rows, begun, past>>
      /\ Given(meta, meta', proc[p].version, "fresh")
  BY DEF SaveMeta, Given
<1>3. TypeInv'
  <2>1. meta' \in [Versions -> Status \cup {Absent}]
    BY <1>2, WriterKnown DEF Saving, FilesTyped, Given, Status
  <2>. QED
    BY <1>1, <1>2, <2>1, WriteSeen DEF TypeInv, FilesTyped, stored, RowsTyped, rows, past
<1>. QED
  BY <1>1, <1>2, <1>3, WriteSeen DEF Writes, Stays, Keeps

LEMMA SaveRowEffect ==
  ASSUME TypeInv, NEW p \in Process, SaveRow(p)
  PROVE  TypeInv' /\ \E done : Writes(p, done)
<1>1. PICK r, done : /\ WriteStep(p, r, done)
                     /\ row' \in {row, [row EXCEPT ![proc[p].version] = "fresh"]}
                     /\ \/ Ends(r)
                        \/ /\ r.at \in {"act_read", "upd_read"}
                           /\ r.version = proc[p].version
  BY SaveRowStep
<1>2. /\ proc[p].at = "save_row" /\ UNCHANGED <<files, active, begun, past>>
  BY DEF SaveRow
<1>3. TypeInv'
  <2>1. row' \in [Versions -> Status \cup {Absent}]
    BY <1>1, <1>2, WriterKnown DEF Saving, RowsTyped, Status
  <2>. QED
    BY <1>1, <1>2, <2>1, WriteSeen DEF TypeInv, FilesTyped, stored, RowsTyped, files, past
<1>. QED
  BY <1>1, <1>2, <1>3, WriteSeen DEF Writes, Ends, Given, files

LEMMA ActPointerEffect ==
  ASSUME TypeInv, NEW p \in Process, ActPointer(p)
  PROVE  TypeInv' /\ \E done : Writes(p, done)
<1>1. PICK r, done : /\ WriteStep(p, r, done)
                     /\ \/ Ends(r)
                        \/ Stays(r, p) /\ r.at \in {"act_meta", "upd_read"}
  BY ActPointerStep
<1>2. /\ proc[p].at = "act_pointer"
      /\ UNCHANGED <<trained, stored, meta, rows, begun, past>>
      /\ pointer' \in {pointer, [version |-> proc[p].version, status |-> proc[p].status]}
  BY DEF ActPointer
<1>3. TypeInv'
  <2>1. pointer' \in [version : 0 .. trained, status : Status]
    BY <1>2, WriterKnown DEF Activating, FilesTyped
  <2>. QED
    BY <1>1, <1>2, <2>1, WriteSeen DEF TypeInv, FilesTyped, stored, RowsTyped, rows, past
<1>. QED
  BY <1>1, <1>2, <1>3, WriteSeen DEF Writes, Ends, Stays, Keeps

LEMMA ActMetaEffect ==
  ASSUME TypeInv, NEW p \in Process, ActMeta(p)
  PROVE  TypeInv' /\ \E done : Writes(p, done)
<1>1. PICK r, done : WriteStep(p, r, done) /\ Stays(r, p) /\ r.at = "act_clear"
  BY ActMetaStep
<1>2. /\ proc[p].at = "act_meta"
      /\ UNCHANGED <<trained, stored, pointer, rows, begun, past>>
      /\ Given(meta, meta', proc[p].version, proc[p].status)
  BY DEF ActMeta, Given
<1>3. TypeInv'
  <2>1. meta' \in [Versions -> Status \cup {Absent}]
    BY <1>2, WriterKnown DEF Activating, FilesTyped, Given
  <2>. QED
    BY <1>1, <1>2, <2>1, WriteSeen DEF TypeInv, FilesTyped, stored, RowsTyped, rows, past
<1>. QED
  BY <1>1, <1>2, <1>3, WriteSeen DEF Writes, Stays, Keeps

LEMMA ActClearEffect ==
  ASSUME TypeInv, NEW p \in Process, ActClear(p)
  PROVE  TypeInv' /\ \E done : Writes(p, done)
<1>1. PICK r, done : /\ WriteStep(p, r, done) /\ Stays(r, p) /\ r.at = "act_row"
                     /\ active' = IF done THEN {} ELSE active
  BY ActClearStep
<1>2. /\ proc[p].at = "act_clear" /\ UNCHANGED <<files, row, begun, retired>>
      /\ raced' = (raced \/ \E q \in Process \ {p} : proc[q].at = "act_row")
  BY DEF ActClear
<1>3. TypeInv'
  <2>1. active' \subseteq 1 .. trained /\ raced' \in BOOLEAN
    BY <1>1, <1>2 DEF TypeInv, RowsTyped
  <2>. QED
    BY <1>1, <1>2, <2>1, WriteSeen DEF TypeInv, FilesTyped, stored, RowsTyped, files
<1>4. /\ trained' = trained /\ Keeps(p) /\ proc'[p].at = "act_row" /\ Turn(p, done)
  BY <1>1, <1>2, WriteSeen DEF Stays, Keeps, files
<1>5. raced' <=> raced \/ \E q \in Process \ {p} : proc[q].at = "act_row"
  BY <1>2
<1>6. Writes(p, done)
  BY <1>1, <1>2, <1>4, <1>5 DEF Writes
<1>. QED
  BY <1>3, <1>6

LEMMA ActRowEffect ==
  ASSUME TypeInv, NEW p \in Process, ActRow(p)
  PROVE  TypeInv' /\ \E done : Writes(p, done)
<1>1. PICK r, done :
        /\ WriteStep(p, r, done)
        /\ active' = IF done THEN active \cup {proc[p].version} ELSE active
        /\ Ends(r) \/ (Stays(r, p) /\ r.at = "upd_read")
  BY ActRowStep
<1>2. /\ proc[p].at = "act_row" /\ UNCHANGED <<files, begun, past>>
      /\ Given(row, row', proc[p].version, proc[p].status)
  BY DEF ActRow, Given
<1>3. TypeInv'
  <2>1. row' \in [Versions -> Status \cup {Absent}] /\ active' \subseteq 1 .. trained
    BY <1>1, <1>2, WriterKnown DEF Activating, RowsTyped, Given
  <2>. QED
    BY <1>1, <1>2, <2>1, WriteSeen DEF TypeInv, FilesTyped, stored, RowsTyped, files, past
<1>. QED
  BY <1>1, <1>2, <1>3, WriteSeen DEF Writes, Ends, Stays, Keeps, files

LEMMA UpdMetaEffect ==
  ASSUME TypeInv, NEW p \in Process, UpdMeta(p)
  PROVE  TypeInv' /\ \E done : Writes(p, done)
<1>1. PICK r, done :
        /\ WriteStep(p, r, done) /\ Stays(r, p) /\ r.at = "upd_look"
        /\ r.status = proc[p].status
        /\ meta' = IF done /\ meta[proc[p].version] # Absent
                   THEN [meta EXCEPT ![proc[p].version] = proc[p].status] ELSE meta
  BY UpdMetaStep
<1>2. /\ proc[p].at = "upd_meta"
      /\ UNCHANGED <<trained, stored, pointer, rows, begun, past>>
  BY DEF UpdMeta
<1>3. TypeInv'
  <2>1. meta' \in [Versions -> Status \cup {Absent}]
    BY <1>1, <1>2, WriterKnown DEF Writing, FilesTyped
  <2>. QED
    BY <1>1, <1>2, <2>1, WriteSeen DEF TypeInv, FilesTyped, stored, RowsTyped, rows, past
<1>. QED
  BY <1>1, <1>2, <1>3, WriteSeen DEF Writes, Stays, Keeps

LEMMA UpdPointerEffect ==
  ASSUME TypeInv, NEW p \in Process, UpdPointer(p)
  PROVE  TypeInv' /\ \E done : Writes(p, done)
<1>1. PICK r, done :
        /\ WriteStep(p, r, done) /\ Stays(r, p) /\ r.at = "upd_row"
        /\ r.status = proc[p].status
        /\ pointer' = IF done THEN [version |-> proc[p].version, status |-> proc[p].held]
                      ELSE pointer
  BY UpdPointerStep
<1>2. /\ proc[p].at = "upd_pointer"
      /\ UNCHANGED <<trained, stored, meta, rows, begun, past>>
  BY DEF UpdPointer
<1>3. TypeInv'
  <2>1. pointer' \in [version : 0 .. trained, status : Status]
    BY <1>1, <1>2, WriterKnown DEF Writing, FilesTyped
  <2>. QED
    BY <1>1, <1>2, <2>1, WriteSeen DEF TypeInv, FilesTyped, stored, RowsTyped, rows, past
<1>. QED
  BY <1>1, <1>2, <1>3, WriteSeen DEF Writes, Stays, Keeps

LEMMA UpdRowEffect ==
  ASSUME TypeInv, NEW p \in Process, UpdRow(p)
  PROVE  TypeInv' /\ \E done : Writes(p, done)
<1>1. PICK r, done :
        /\ WriteStep(p, r, done)
        /\ Ends(r) \/ (Stays(r, p) /\ r.at = "dis_pointer")
        /\ row' = IF done /\ row[proc[p].version] # Absent
                  THEN [row EXCEPT ![proc[p].version] = proc[p].status] ELSE row
        /\ retired' = IF done /\ proc[p].alone /\ proc[p].mark = "disabled"
                      THEN retired \cup {proc[p].version} ELSE retired
  BY UpdRowStep
<1>2. proc[p].at = "upd_row" /\ UNCHANGED <<files, active, begun, raced>>
  BY DEF UpdRow
<1>3. TypeInv'
  <2>1. row' \in [Versions -> Status \cup {Absent}]
    BY <1>1, <1>2, WriterKnown DEF Writing, RowsTyped
  <2>2. retired' \subseteq 1 .. trained
    BY <1>1, <1>2, WriterKnown DEF Writing, RowsTyped
  <2>. QED
    BY <1>1, <1>2, <2>1, <2>2, WriteSeen DEF TypeInv, FilesTyped, stored, RowsTyped, files
<1>. QED
  BY <1>1, <1>2, <1>3, WriteSeen DEF Writes, Ends, Stays, Keeps, files

LEMMA DisPointerEffect ==
  ASSUME TypeInv, NEW p \in Process, DisPointer(p)
  PROVE  TypeInv' /\ \E done : Writes(p, done)
<1>1. PICK r, done :
        /\ WriteStep(p, r, done) /\ Stays(r, p) /\ r.at = "dis_clear"
        /\ pointer' = IF done THEN [version |-> None, status |-> "fresh"] ELSE pointer
  BY DisPointerStep
<1>2. /\ proc[p].at = "dis_pointer"
      /\ UNCHANGED <<trained, stored, meta, rows, begun, past>>
  BY DEF DisPointer
<1>3. TypeInv'
  <2>1. pointer' \in [version : 0 .. trained, status : Status]
    BY <1>1, <1>2, ReadersTyped DEF TypeInv, FilesTyped, Status, None
  <2>. QED
    BY <1>1, <1>2, <2>1, WriteSeen DEF TypeInv, FilesTyped, stored, RowsTyped, rows, past
<1>. QED
  BY <1>1, <1>2, <1>3, WriteSeen DEF Writes, Stays, Keeps

LEMMA DisClearEffect ==
  ASSUME TypeInv, NEW p \in Process, DisClear(p)
  PROVE  TypeInv' /\ \E done : Writes(p, done)
<1>1. PICK r, done :
        /\ WriteStep(p, r, done)
        /\ Ends(r) \/ (Stays(r, p) /\ r.at = proc[p].next)
        /\ r.at \in {"idle", "rep_done", "rep_check"}
        /\ active' = IF done THEN {} ELSE active
  BY DisClearStep
<1>2. proc[p].at = "dis_clear" /\ UNCHANGED <<files, row, begun, past>>
  BY DEF DisClear
<1>3. TypeInv'
  <2>1. active' \subseteq 1 .. trained
    BY <1>1 DEF TypeInv, RowsTyped
  <2>. QED
    BY <1>1, <1>2, <2>1, WriteSeen DEF TypeInv, FilesTyped, stored, RowsTyped, files, past
<1>. QED
  BY <1>1, <1>2, <1>3, WriteSeen DEF Writes, Ends, Stays, Keeps, files

LEMMA RepRowEffect ==
  ASSUME TypeInv, NEW p \in Process, RepRow(p)
  PROVE  TypeInv' /\ \E done : Writes(p, done)
<1>1. PICK v \in proc[p].todo : \E r, done :
        /\ WriteStep(p, r, done) /\ Stays(r, p) /\ r.at = "rep_rows"
        /\ r.todo = proc[p].todo \ {v}
        /\ active' = IF done THEN active \ {v} ELSE active
  BY RepRowStep
<1>2. PICK r, done :
        /\ WriteStep(p, r, done) /\ Stays(r, p) /\ r.at = "rep_rows"
        /\ r.todo = proc[p].todo \ {v}
        /\ active' = IF done THEN active \ {v} ELSE active
  BY <1>1
<1>3. proc[p].at = "rep_rows" /\ UNCHANGED <<files, row, begun, past>>
  BY DEF RepRow
<1>4. TypeInv'
  <2>1. active' \subseteq 1 .. trained
    BY <1>2 DEF TypeInv, RowsTyped
  <2>. QED
    BY <1>2, <1>3, <2>1, WriteSeen DEF TypeInv, FilesTyped, stored, RowsTyped, files, past
<1>5. /\ trained' = trained /\ Keeps(p) /\ proc'[p].at = "rep_rows" /\ Turn(p, done)
      /\ proc'[p].todo = proc[p].todo \ {v}
  BY <1>2, <1>3, WriteSeen DEF Stays, Keeps, files
<1>6. \E u \in proc[p].todo :
        /\ proc'[p].todo = proc[p].todo \ {u}
        /\ active' = IF done THEN active \ {u} ELSE active
  BY <1>2, <1>5
<1>7. Writes(p, done)
  BY <1>3, <1>5, <1>6 DEF Writes
<1>. QED
  BY <1>4, <1>7

LEMMA CrashEffect ==
  ASSUME TypeInv, NEW p \in Process, Crash(p)
  PROVE  TypeInv' /\ \E done : Writes(p, done)
<1>1. PICK r : WriteStep(p, r, FALSE) /\ Ends(r)
  BY CrashStep
<1>2. UNCHANGED <<files, rows, begun, past>>
  BY DEF Crash
<1>3. TypeInv'
  BY <1>1, <1>2, WriteSeen DEF TypeInv, FilesTyped, stored, RowsTyped, files, rows, past
<1>4. Writes(p, FALSE)
  BY <1>1, <1>2, <1>3, WriteSeen DEF Writes, Ends, files
<1>. QED
  BY <1>3, <1>4, Zenon


\* Every step is one of these.
Moves ==
  \/ \E p \in Process : Begins(p) \/ Looks(p) \/ \E done : Writes(p, done)
  \/ Loses

LEMMA StepMoves ==
  ASSUME TypeInv, [Next]_vars
  PROVE  TypeInv' /\ (Moves \/ UNCHANGED vars)
<1>1. CASE UNCHANGED vars
  BY <1>1 DEF TypeInv, FilesTyped, stored, RowsTyped, ProcTyped, vars, files, rows, past
<1>2. ASSUME NEW p \in Process, NEW kind \in Kinds, Begin(p, kind)
      PROVE  TypeInv' /\ Begins(p)
  BY <1>2, BeginEffect
<1>3. ASSUME NEW p \in Process,
             SkipTraining(p) \/ ActRead(p) \/ UpdRead(p) \/ UpdLook(p) \/ DisRead(p)
               \/ Choose(p) \/ RepRead(p) \/ RepPointer(p) \/ RepDone(p)
               \/ Guard(p) \/ Decide(p) \/ Startup(p) \/ RepCheck(p)
      PROVE  TypeInv' /\ Looks(p)
  BY <1>3, LooksEffect
<1>4. ASSUME NEW p \in Process,
             SaveFiles(p) \/ SaveMeta(p) \/ SaveRow(p) \/ ActPointer(p) \/ ActMeta(p)
               \/ ActClear(p) \/ ActRow(p) \/ UpdMeta(p) \/ UpdPointer(p) \/ UpdRow(p)
               \/ DisPointer(p) \/ DisClear(p) \/ RepRow(p) \/ Crash(p)
      PROVE  TypeInv' /\ \E done : Writes(p, done)
  BY <1>4, SaveFilesEffect, SaveMetaEffect, SaveRowEffect, ActPointerEffect,
     ActMetaEffect, ActClearEffect, ActRowEffect, UpdMetaEffect, UpdPointerEffect,
     UpdRowEffect, DisPointerEffect, DisClearEffect, RepRowEffect, CrashEffect
<1>5. ASSUME NEW v \in Versions, LoseFile(v) PROVE TypeInv' /\ Loses
  BY <1>5, LoseFileEffect
<1>6. CASE Next
  <2>1. ASSUME NEW p \in Process,
               Train(p) \/ Activate(p) \/ Update(p) \/ Disable(p) \/ Repair(p)
                 \/ Govern(p) \/ Crash(p)
        PROVE  TypeInv' /\ (Looks(p) \/ \E done : Writes(p, done))
    BY <2>1, <1>3, <1>4 DEF Train, Activate, Update, Disable, Repair, Govern
  <2>. QED
    BY <1>2, <1>5, <1>6, <2>1 DEF Next, Moves
<1>. QED
  BY <1>1, <1>6

LEMMA InitTyped == Init => TypeInv
<1> SUFFICES ASSUME Init PROVE TypeInv
  OBVIOUS
<1>1. FilesTyped /\ RowsTyped
  <2>1. meta \in [Versions -> Status \cup {Absent}] /\ row = meta
    BY DEF Init, Status
  <2>2. pointer \in [version : 0 .. 1, status : Status]
    BY DEF Init, Status
  <2>3. trained = 1 /\ 1 \in 1 .. MaxVersion
    BY VersionAssumption DEF Init
  <2>4. 0 \in 0 .. MaxOps /\ 0 \in 0 .. MaxFaults
    BY LimitAssumption
  <2>5. models = {1} /\ schemas = {1} /\ active = {1} /\ retired = {} /\ {1} \subseteq 1 .. 1
    BY DEF Init
  <2>6. FilesTyped
    BY <2>1, <2>2, <2>3, <2>5 DEF FilesTyped
  <2>7. begun = 0 /\ faults = 0 /\ raced = FALSE
    BY DEF Init
  <2>. QED
    BY <2>1, <2>3, <2>4, <2>5, <2>6, <2>7 DEF RowsTyped
<1>2. \A p \in Process : proc[p] = Idle /\ Sound(proc[p], trained)
  BY IdleSound DEF Init
<1>3. proc \in [Process -> Operation]
  BY IdleTyped DEF Init
<1>. QED
  BY <1>1, <1>2, <1>3 DEF TypeInv, ProcTyped

LEMMA TypeInvariance == Spec => []TypeInv
<1>1. TypeInv /\ [Next]_vars => TypeInv'
  BY StepMoves
<1>. QED
  BY <1>1, InitTyped, PTL DEF Spec

LEMMA TypeInvImplies == TypeInv => TypeOK
<1> SUFFICES ASSUME TypeInv PROVE TypeOK
  OBVIOUS
<1>1. /\ trained \in 1 .. MaxVersion /\ 1 .. trained \subseteq Versions
      /\ 0 .. trained \subseteq 0 .. MaxVersion
  BY ReadersTyped, VersionAssumption DEF TypeInv, FilesTyped
<1>2. trained \in 0 .. MaxVersion
  BY <1>1
<1>3. pointer \in [version : 0 .. MaxVersion, status : Status]
  BY <1>1 DEF TypeInv, FilesTyped
<1>4. /\ models \subseteq Versions /\ schemas \subseteq Versions
      /\ active \subseteq Versions /\ retired \subseteq Versions
  BY <1>1 DEF TypeInv, FilesTyped, RowsTyped
<1>. QED
  BY <1>2, <1>3, <1>4 DEF TypeInv, FilesTyped, RowsTyped, ProcTyped, TypeOK

\* The registry keeps its types, for any number of processes and versions.
THEOREM TypeCorrect == Spec => []TypeOK
BY TypeInvariance, TypeInvImplies, PTL

-----------------------------------------------------------------------------
(* An operation that is alone.                                             *)

AloneInv ==
  \A p, q \in Process : p # q /\ proc[p].alone => proc[q].at = "idle"

\* After a step of p nobody else is alone, and p is only if it was.
LEMMA TurnAlone ==
  ASSUME AloneInv, NEW p \in Process, NEW done, Turn(p, done)
  PROVE  /\ \A q \in Process \ {p} : ~proc'[q].alone
         /\ proc'[p].alone => proc[p].alone /\ done
         /\ AloneInv'
<1>1. \A q \in Process \ {p} : ~proc'[q].alone
  BY DEF Turn, AloneInv
<1>2. proc'[p].alone => proc[p].alone /\ done
  BY DEF Turn
<1>3. \A q \in Process \ {p} : proc'[q].at = proc[q].at
  BY DEF Turn, Alike
<1>. QED
  BY <1>1, <1>2, <1>3 DEF AloneInv

LEMMA AloneStep == TypeInv /\ AloneInv /\ [Next]_vars => AloneInv'
<1> SUFFICES ASSUME TypeInv, AloneInv, [Next]_vars PROVE AloneInv'
  OBVIOUS
<1>1. CASE UNCHANGED vars
  BY <1>1 DEF AloneInv, vars
<1>2. ASSUME NEW p \in Process, Begins(p) PROVE AloneInv'
  BY <1>2 DEF Begins, Alike, AloneInv
<1>3. ASSUME NEW p \in Process, NEW done, Turn(p, done) PROVE AloneInv'
  BY <1>3, TurnAlone
<1>4. CASE Loses
  BY <1>4 DEF Loses, AloneInv
<1>5. ASSUME NEW p \in Process, Looks(p) PROVE AloneInv'
  <2>1. Turn(p, TRUE)
    BY <1>5 DEF Looks
  <2>. QED
    BY <2>1, <1>3
<1>6. ASSUME NEW p \in Process, NEW done, Writes(p, done) PROVE AloneInv'
  BY <1>6, <1>3 DEF Writes
<1>. QED
  BY <1>1, <1>2, <1>4, <1>5, <1>6, StepMoves DEF Moves

LEMMA AloneInvariance == Spec => []AloneInv
<1>1. Init => AloneInv
  BY DEF Init, AloneInv, Idle
<1>. QED
  BY <1>1, AloneStep, TypeInvariance, PTL DEF Spec


-----------------------------------------------------------------------------
(* Several active rows have an explanation.                                *)

Setting(p) == proc[p].at = "act_row"

\* Without faults and without a race one activation at a time has cleared the rows
\* and not set its own; until it does no row is active, and then only that one.
SeveralInv ==
  faults = 0 /\ ~raced =>
    /\ \A p, q \in Process : Setting(p) /\ Setting(q) => p = q
    /\ (\E p \in Process : Setting(p)) => active = {}
    /\ \A v, w \in active : v = w

\* Sets with one member at most, and the count that the registry asks for.
LEMMA FewIsOne ==
  ASSUME NEW n \in Nat, NEW S \in SUBSET (1 .. n)
  PROVE  /\ Cardinality(S) <= 1 => \A v, w \in S : v = w
         /\ (\A v, w \in S : v = w) => Cardinality(S) <= 1
         /\ IsFiniteSet(S) /\ Cardinality(S) \in Nat
<1>1. IsFiniteSet(S)
  <2>1. IsFiniteSet(1 .. n)
    BY FS_Interval
  <2>. QED
    BY <2>1, FS_Subset
<1>2. Cardinality(S) \in Nat
  BY <1>1, FS_CardinalityType
<1>3. ASSUME Cardinality(S) <= 1, NEW v \in S, NEW w \in S, v # w PROVE FALSE
  <2>1. IsFiniteSet(S \ {v}) /\ Cardinality(S \ {v}) = Cardinality(S) - 1
    BY <1>1, FS_RemoveElement
  <2>2. Cardinality(S \ {v}) = 0
    BY <1>2, <1>3, <2>1, FS_CardinalityType
  <2>3. S \ {v} = {}
    BY <2>1, <2>2, FS_EmptySet
  <2>. QED
    BY <1>3, <2>3
<1>4. ASSUME \A v, w \in S : v = w PROVE Cardinality(S) <= 1
  <2>1. CASE S = {}
    BY <2>1, FS_EmptySet
  <2>2. CASE S # {}
    <3>1. PICK v \in S : S = {v}
      BY <1>4, <2>2
    <3>. QED
      BY <3>1, FS_Singleton
  <2>. QED
    BY <2>1, <2>2
<1>. QED
  BY <1>1, <1>2, <1>3, <1>4

LEMMA SeveralStep == TypeInv /\ SeveralInv /\ [Next]_vars => SeveralInv'
<1> SUFFICES ASSUME TypeInv, SeveralInv, [Next]_vars, faults' = 0, ~raced'
             PROVE  /\ \A p, q \in Process : Setting(p)' /\ Setting(q)' => p = q
                    /\ (\E p \in Process : Setting(p)') => active' = {}
                    /\ \A v, w \in active' : v = w
  BY DEF SeveralInv
<1> DEFINE Goal == /\ \A p, q \in Process : Setting(p)' /\ Setting(q)' => p = q
                   /\ (\E p \in Process : Setting(p)') => active' = {}
                   /\ \A v, w \in active' : v = w
<1>0. faults \in Nat
  BY DEF TypeInv, RowsTyped
<1>1. CASE UNCHANGED vars
  BY <1>1 DEF SeveralInv, Setting, vars, rows, past
<1>2. CASE Loses
  BY <1>0, <1>2 DEF Loses
<1>3. ASSUME NEW p \in Process, Begins(p) PROVE Goal
  BY <1>3 DEF Begins, Alike, SeveralInv, Setting, rows, past
\* A step that brings nobody to its row and sets none.
<1>4. ASSUME NEW p \in Process, NEW done, Turn(p, done), ~Setting(p)',
             active' \subseteq active, raced' = raced
      PROVE  Goal
  <2>1. faults = 0
    BY <1>0, <1>4 DEF Turn
  <2>2. \A q \in Process \ {p} : Setting(q)' <=> Setting(q)
    BY <1>4 DEF Turn, Alike, Setting
  <2>3. \A q \in Process : Setting(q)' => Setting(q)
    BY <1>4, <2>2
  <2>. QED
    BY <1>4, <2>1, <2>3 DEF SeveralInv
<1>5. ASSUME NEW p \in Process, Looks(p) PROVE Goal
  <2>1. Turn(p, TRUE) /\ ~Setting(p)' /\ active' = active /\ raced' = raced
    BY <1>5 DEF Looks, Setting, rows, past
  <2>. QED
    BY <2>1, <1>4
<1>6. ASSUME NEW p \in Process, NEW done, Writes(p, done) PROVE Goal
  <2>1. Turn(p, done)
    BY <1>6 DEF Writes
  <2>2. \A q \in Process \ {p} : Setting(q)' <=> Setting(q)
    BY <2>1 DEF Turn, Alike, Setting
  <2>3. faults = 0 /\ done
    BY <1>0, <2>1 DEF Turn
  <2>4. CASE proc[p].at = "act_clear" /\ Setting(p)'
    <3>1. active' = {} /\ ~raced /\ \A q \in Process \ {p} : ~Setting(q)
      BY <1>6, <2>3, <2>4 DEF Writes, Setting
    <3>. QED
      BY <2>2, <3>1
  <2>5. CASE proc[p].at = "act_row" /\ ~Setting(p)'
    <3>1. /\ active' \in {active \cup {proc[p].version}, active}
          /\ ~raced
      BY <1>6, <2>5 DEF Writes, past, rows
    <3>2. active = {} /\ \A q \in Process \ {p} : ~Setting(q)
      BY <2>3, <2>5, <3>1 DEF SeveralInv, Setting
    <3>. QED
      BY <2>2, <2>5, <3>1, <3>2
  <2>6. CASE ~Setting(p)' /\ active' \subseteq active /\ raced' = raced
    BY <2>1, <2>6, <1>4
  <2>7. \/ proc[p].at = "act_clear" /\ Setting(p)'
        \/ proc[p].at = "act_row" /\ ~Setting(p)'
        \/ ~Setting(p)' /\ active' \subseteq active /\ raced' = raced
    BY <1>6 DEF Writes, Setting, rows, past
  <2>. QED
    BY <2>4, <2>5, <2>6, <2>7
<1>. QED
  BY <1>1, <1>2, <1>3, <1>5, <1>6, StepMoves DEF Moves

\* Several rows are active only after a fault, or after two activations had both
\* cleared the rows before either set its own.
THEOREM SeveralIsExplained == Spec => []SeveralActiveIsExplained
<1>1. Init => SeveralInv
  BY DEF Init, SeveralInv, Setting, Idle
<1>2. TypeInv /\ SeveralInv => SeveralActiveIsExplained
  <2> SUFFICES ASSUME TypeInv, SeveralInv, Cardinality(active) > 1, ~raced, faults = 0
               PROVE  FALSE
    <3>1. TypeInv => faults > 0 \/ faults = 0
      BY LimitAssumption DEF TypeInv, RowsTyped
    <3>. QED
      BY <3>1 DEF SeveralActiveIsExplained
  <2>1. Cardinality(active) <= 1 /\ Cardinality(active) \in Nat
    BY FewIsOne, ReadersTyped DEF SeveralInv, TypeInv, RowsTyped
  <2>. QED
    BY <2>1
<1>. QED
  BY <1>1, <1>2, SeveralStep, TypeInvariance, PTL DEF Spec

-----------------------------------------------------------------------------
(* What a repair leaves behind when nothing disturbs it.                   *)

\* An operation that is alone after a step was alone before it, and its write
\* happened, or it has just begun.
LEMMA AloneMoves ==
  ASSUME TypeInv, AloneInv, [Next]_vars, NEW p \in Process, proc'[p].alone
  PROVE  \/ UNCHANGED vars
         \/ Begins(p)
         \/ proc[p].alone /\ Looks(p)
         \/ proc[p].alone /\ \E done : done /\ Writes(p, done)
<1>1. ASSUME NEW q \in Process, NEW done, Turn(q, done)
      PROVE  p = q /\ proc[p].alone /\ done
  BY <1>1, TurnAlone
<1>2. ASSUME NEW q \in Process, Begins(q) PROVE p = q
  BY <1>2 DEF Begins
<1>3. ASSUME NEW q \in Process, Looks(q) PROVE p = q /\ proc[p].alone
  <2>1. Turn(q, TRUE)
    BY <1>3 DEF Looks
  <2>. QED
    BY <2>1, <1>1
<1>4. ASSUME NEW q \in Process, NEW done, Writes(q, done)
      PROVE  p = q /\ proc[p].alone /\ done
  <2>1. Turn(q, done)
    BY <1>4 DEF Writes
  <2>. QED
    BY <2>1, <1>1
<1>5. ~ Loses
  BY DEF Loses
<1>. QED
  BY <1>2, <1>3, <1>4, <1>5, StepMoves DEF Moves

\* The rows that a repair has still to clear are all but one at most, whose files
\* are there; a disable that clears the rows has cleared the pointer.
RepairPart(p) ==
  /\ proc[p].at = "rep_rows" =>
       /\ proc[p].todo \subseteq active /\ active \ proc[p].todo \subseteq whole
       /\ \A v, w \in active \ proc[p].todo : v = w
  /\ proc[p].at = "dis_clear" => pointer.version = None
  /\ proc[p].at = "rep_done" => Consistent

RepairInv == \A p \in Process : proc[p].alone => RepairPart(p)

\* One active row at most, and every version named is there.
LEMMA ConsistentIf ==
  ASSUME TypeInv, \A v, w \in active : v = w, active \subseteq whole,
         pointer.version # None => pointer.version \in whole \cap active
  PROVE  Consistent
<1>1. trained \in Nat /\ active \in SUBSET (1 .. trained)
  BY ReadersTyped DEF TypeInv, RowsTyped
<1>2. Cardinality(active) <= 1
  BY <1>1, FewIsOne
<1>. QED
  BY <1>2 DEF Consistent, Broken

LEMMA RepairStep == TypeInv /\ AloneInv /\ RepairInv /\ [Next]_vars => RepairInv'
<1> SUFFICES ASSUME TypeInv, AloneInv, RepairInv, [Next]_vars,
                    NEW p \in Process, proc'[p].alone
             PROVE  RepairPart(p)'
  BY DEF RepairInv
<1>0. TypeInv'
  BY StepMoves
<1>1. CASE UNCHANGED vars
  BY <1>1 DEF RepairInv, RepairPart, vars, files, stored, whole, rows, Consistent, Broken
<1>2. CASE Begins(p)
  BY <1>2 DEF Begins, RepairPart
<1>3. CASE proc[p].alone /\ Looks(p)
  <2>1. UNCHANGED <<whole, active, pointer>>
    BY <1>3 DEF Looks, files, stored, whole, rows
  <2>2. CASE proc'[p].at = "rep_rows"
    <3>1. proc'[p].todo = {v \in active : v \notin whole \/ v # Max(active)}
      BY <1>3, <2>2 DEF Looks
    <3>. QED
      BY <2>1, <2>2, <3>1 DEF RepairPart
  <2>3. CASE proc'[p].at = "rep_done"
    <3>1. proc[p].at = "rep_rows" /\ proc[p].todo = {} /\ ~ Astray
      BY <1>3, <2>3 DEF Looks
    <3>2. active \subseteq whole /\ \A v, w \in active : v = w
      BY <1>3, <3>1 DEF RepairInv, RepairPart
    <3>3. Consistent
      BY <3>1, <3>2, ConsistentIf DEF Astray
    <3>. QED
      BY <2>1, <2>3, <3>3 DEF RepairPart, Consistent, Broken
  <2>4. proc'[p].at # "dis_clear"
    BY <1>3 DEF Looks
  <2>. QED
    BY <2>2, <2>3, <2>4 DEF RepairPart
<1>4. ASSUME NEW done, done, proc[p].alone, Writes(p, done)
      PROVE  RepairPart(p)'
  <2>0. RepairPart(p)
    BY <1>4 DEF RepairInv
  <2>1. CASE proc'[p].at = "rep_rows"
    <3>1. /\ proc[p].at = "rep_rows" /\ whole' = whole
          /\ \E v \in proc[p].todo :
               /\ proc'[p].todo = proc[p].todo \ {v} /\ active' = active \ {v}
      <4>1. /\ proc[p].at = "rep_rows" /\ UNCHANGED files
            /\ \E v \in proc[p].todo :
                 /\ proc'[p].todo = proc[p].todo \ {v}
                 /\ active' = IF done THEN active \ {v} ELSE active
        BY <1>4, <2>1 DEF Writes
      <4>. QED
        BY <1>4, <4>1 DEF files, stored, whole
    <3>. QED
      BY <2>0, <2>1, <3>1 DEF RepairPart
  <2>2. CASE proc'[p].at = "dis_clear"
    <3>1. pointer'.version = None
      BY <1>4, <2>2 DEF Writes
    <3>. QED
      BY <2>2, <3>1 DEF RepairPart
  <2>3. CASE proc'[p].at = "rep_done"
    <3>1. proc[p].at = "dis_clear" /\ UNCHANGED pointer /\ active' = {}
      BY <1>4, <2>3 DEF Writes, files
    <3>2. pointer'.version = None
      BY <2>0, <3>1 DEF RepairPart
    <3>3. Consistent'
      <4>1. TypeInv' => Consistent'
        BY <3>1, <3>2, FS_EmptySet DEF Consistent, Broken
      <4>. QED
        BY <1>0, <4>1
    <3>. QED
      BY <2>3, <3>3 DEF RepairPart
  <2>. QED
    BY <2>1, <2>2, <2>3 DEF RepairPart
<1>. QED
  BY <1>1, <1>2, <1>3, <1>4, AloneMoves

\* A repair nothing disturbs leaves the task consistent.
THEOREM RepairIsComplete == Spec => []RepairConverges
<1>1. Init => RepairInv
  BY DEF Init, RepairInv, Idle
<1>2. RepairInv => RepairConverges
  BY DEF RepairInv, RepairPart, RepairConverges
<1>. QED
  BY <1>1, <1>2, RepairStep, TypeInvariance, AloneInvariance, PTL DEF Spec


\* An operation that began when one row was active and its model could be loaded has
\* changed nothing by the time it comes to a repair, and the repair changes nothing
\* if the schema file is there.
LoadedPart(p) ==
  proc[p].had # None /\ ~proc[p].several /\ proc[p].had \in schemas =>
    /\ proc[p].at \in {"guard", "startup", "rep_check", "rep_read", "rep_rows", "rep_done"}
         => active = {proc[p].had} /\ Loaded = proc[p].had
    /\ proc[p].at = "rep_rows" => proc[p].todo = {}
    /\ proc[p].at \in Disabling => proc[p].next = "idle"

LoadedInv == \A p \in Process : proc[p].alone => LoadedPart(p)

LEMMA LoadedStep == TypeInv /\ AloneInv /\ LoadedInv /\ [Next]_vars => LoadedInv'
<1> SUFFICES ASSUME TypeInv, AloneInv, LoadedInv, [Next]_vars,
                    NEW p \in Process, proc'[p].alone,
                    proc'[p].had # None, ~proc'[p].several, proc'[p].had \in schemas'
             PROVE  LoadedPart(p)'
  BY DEF LoadedInv, LoadedPart
<1> DEFINE Plain == active = {proc'[p].had} /\ Loaded = proc'[p].had
           Early == {"guard", "startup", "rep_check", "rep_read"}
<1>0. TypeInv' /\ Sound(proc'[p], trained') /\ Sound(proc[p], trained)
  BY StepMoves, Known DEF TypeInv, ProcTyped
<1>1. CASE UNCHANGED vars
  BY <1>1 DEF LoadedInv, LoadedPart, vars, files, stored, rows, Loaded
<1>2. CASE Begins(p)
  <2>1. /\ proc'[p].had = Loaded /\ Loaded # None /\ ~ (Cardinality(active) > 1)
        /\ UNCHANGED <<models, schemas, active, pointer>>
        /\ proc'[p].at \in {"save_files", "dis_read", "choose", "rep_read", "guard", "startup"}
    BY <1>2 DEF Begins, files, stored, rows
  <2>2. trained \in Nat /\ active \in SUBSET (1 .. trained)
    BY ReadersTyped DEF TypeInv, RowsTyped
  <2>3. Cardinality(active) <= 1
    <3>1. Cardinality(active) \in Nat
      BY <2>2, FewIsOne
    <3>. QED
      BY <2>1, <3>1
  <2>4. Loaded \in active /\ \A v, w \in active : v = w
    BY <2>1, <2>2, <2>3, FewIsOne DEF Loaded
  <2>5. active' = {proc'[p].had} /\ Loaded' = proc'[p].had
    BY <2>1, <2>4 DEF Loaded
  <2>. QED
    BY <2>1, <2>5 DEF LoadedPart, Disabling
<1>3. CASE proc[p].alone /\ Looks(p)
  <2>1. UNCHANGED <<models, schemas, active, pointer>>
    BY <1>3 DEF Looks, files, stored, rows
  <2>2. Loaded' = Loaded
    BY <2>1 DEF Loaded
  <2>3. LoadedPart(p)
    BY <1>3 DEF LoadedInv
  <2>4. CASE proc'[p].at = "idle"
    BY <2>4 DEF LoadedPart, Disabling
  <2>5. CASE proc'[p].at # "idle"
    <3>1. /\ proc'[p].had = proc[p].had /\ proc'[p].several = proc[p].several
          /\ proc[p].had \in schemas
      BY <1>3, <2>1, <2>5 DEF Looks, Turn
    <3>2. /\ proc[p].at \in Early \cup {"rep_rows", "rep_done"} => Plain
          /\ proc[p].at = "rep_rows" => proc[p].todo = {}
          /\ proc[p].at \in Disabling => proc[p].next = "idle"
      BY <2>3, <3>1 DEF LoadedPart
    <3>3. Plain => ~ Broken /\ ~ Astray
      BY <3>1 DEF Loaded, Broken, Astray, None, whole
    <3>4. CASE proc'[p].at = "rep_rows"
      <4>1. /\ proc[p].at = "rep_read"
            /\ proc'[p].todo = {v \in active : v \notin whole \/ v # Max(active)}
        BY <1>3, <3>4 DEF Looks
      <4>2. Plain
        BY <3>2, <4>1
      <4>3. Max(active) = proc'[p].had /\ proc'[p].had \in whole
        <5>1. Loaded \in whole /\ active # {}
          BY <3>1, <4>2 DEF Loaded, whole
        <5>2. Current = Max(active)
          BY <5>1 DEF Current
        <5>. QED
          BY <4>2, <5>1, <5>2, ReadersTyped DEF TypeInv
      <4>. QED
        BY <2>1, <2>2, <3>4, <4>1, <4>2, <4>3 DEF LoadedPart, Disabling
    <3>5. CASE proc'[p].at \in Early \cup {"rep_done"}
      <4>1. proc[p].at \in Early \cup {"rep_rows"}
        BY <1>3, <3>5 DEF Looks
      <4>. QED
        BY <2>1, <2>2, <3>2, <3>5, <4>1 DEF LoadedPart, Disabling
    <3>6. CASE proc'[p].at \in Disabling
      <4>1. proc'[p].next = "idle"
        <5>1. CASE proc[p].at \in {"rep_rows", "startup"}
          <6>1. ~ Broken /\ ~ Astray
            BY <3>2, <3>3, <5>1
          <6>. QED
            BY <1>3, <3>6, <5>1, <6>1 DEF Looks, Disabling
        <5>2. CASE proc[p].at = "dis_read"
          BY <1>0, <1>3, <3>6, <5>2 DEF Looks, Disabling, Sound
        <5>3. CASE proc[p].at = "upd_read"
          BY <1>0, <1>3, <3>6, <5>3 DEF Looks, Disabling, Sound, Keeps
        <5>4. proc[p].at \in {"rep_rows", "startup", "dis_read", "upd_read"}
          BY <1>3, <3>6 DEF Looks, Disabling
        <5>. QED
          BY <5>1, <5>2, <5>3, <5>4
      <4>. QED
        BY <3>6, <4>1 DEF LoadedPart, Disabling
    <3>. QED
      BY <3>4, <3>5, <3>6 DEF LoadedPart
  <2>. QED
    BY <2>4, <2>5
<1>4. ASSUME NEW done, done, proc[p].alone, Writes(p, done)
      PROVE  LoadedPart(p)'
  <2>1. LoadedPart(p)
    BY <1>4 DEF LoadedInv
  <2>2. CASE proc'[p].at = "idle"
    BY <2>2 DEF LoadedPart, Disabling
  <2>3. CASE proc[p].at = "save_files"
    <3>1. proc'[p].at \in {"idle", "save_meta"}
      BY <1>4, <2>3 DEF Writes
    <3>. QED
      BY <3>1 DEF LoadedPart, Disabling
  <2>4. CASE proc'[p].at # "idle" /\ proc[p].at # "save_files"
    <3>0. schemas' = schemas
      BY <1>4, <2>4 DEF Writes, files, stored
    <3>1. /\ proc'[p].had = proc[p].had /\ proc'[p].several = proc[p].several
          /\ proc[p].had \in schemas
      BY <1>4, <2>4, <3>0 DEF Writes, Turn
    <3>2. /\ proc[p].at = "rep_rows" => proc[p].todo = {}
          /\ proc[p].at \in Disabling => proc[p].next = "idle"
      BY <2>1, <3>1 DEF LoadedPart
    <3>3. proc[p].at # "rep_rows"
      BY <1>4, <2>4, <3>2 DEF Writes
    <3>4. proc[p].at # "dis_clear"
      BY <1>4, <2>4, <3>2 DEF Writes, Disabling
    <3>5. proc'[p].at \notin Early \cup {"rep_rows", "rep_done"}
      BY <1>4, <2>4, <3>3, <3>4 DEF Writes
    <3>6. proc'[p].at \in Disabling => proc'[p].next = "idle"
      <4>1. CASE proc[p].at = "dis_pointer"
        BY <1>4, <3>2, <4>1, <2>4 DEF Writes, Disabling, Keeps
      <4>2. CASE proc[p].at = "upd_row"
        BY <1>0, <1>4, <4>2, <2>4 DEF Writes, Disabling, Keeps, Sound
      <4>3. proc'[p].at \in Disabling => proc[p].at \in {"dis_pointer", "upd_row"}
        BY <1>4, <3>4 DEF Writes, Disabling
      <4>. QED
        BY <4>1, <4>2, <4>3
    <3>. QED
      BY <3>5, <3>6 DEF LoadedPart
  <2>. QED
    BY <2>2, <2>3, <2>4
<1>. QED
  BY <1>1, <1>2, <1>3, <1>4, AloneMoves

\* A repair nothing disturbs takes away the model that could be loaded only if
\* several rows were active or its schema file is gone.
THEOREM RepairIsSparing == Spec => []RepairLosesOnlyAmbiguous
<1>1. Init => LoadedInv
  BY DEF Init, LoadedInv, Idle
<1>2. LoadedInv => RepairLosesOnlyAmbiguous
  BY DEF LoadedInv, LoadedPart, RepairLosesOnlyAmbiguous
<1>. QED
  BY <1>1, <1>2, LoadedStep, TypeInvariance, AloneInvariance, PTL DEF Spec


-----------------------------------------------------------------------------
(* A disabled version stays out.                                           *)

Out == {"disabled", Absent}

\* Wherever a retired version is named it is disabled: in its metadata and its row,
\* one of which is there, and in the pointer; no operation saves or activates it, and
\* an update of it keeps its status or disables it again.
RetiredPart(v) ==
  /\ meta[v] \in Out /\ row[v] \in Out /\ ~ (meta[v] = Absent /\ row[v] = Absent)
  /\ pointer.version = v => pointer.status = "disabled"

OutPart(v, p) ==
  proc[p].version = v =>
    /\ proc[p].at \notin Saving \cup Activating
    /\ proc[p].at \in Writing => proc[p].status = "disabled"
    /\ proc[p].at = "upd_read" => proc[p].mark \in {"keep", "disabled"}

RetiredInv == \A v \in retired : RetiredPart(v) /\ \A p \in Process : OutPart(v, p)

\* A disable that is alone has found its version and leaves it disabled in the
\* metadata, then in the pointer, before it comes to the row.
MarkPart(p) ==
  proc[p].mark = "disabled" /\ proc[p].at \in Writing =>
    /\ KnownStatus(proc[p].version) # Absent
    /\ proc[p].at # "upd_meta" => meta[proc[p].version] \in Out
    /\ proc[p].at = "upd_row" /\ pointer.version = proc[p].version
         => pointer.status = "disabled"

MarkInv == \A p \in Process : proc[p].alone => MarkPart(p)

LEMMA MarkStep == TypeInv /\ AloneInv /\ MarkInv /\ [Next]_vars => MarkInv'
<1> SUFFICES ASSUME TypeInv, AloneInv, MarkInv, [Next]_vars,
                    NEW p \in Process, proc'[p].alone,
                    proc'[p].mark = "disabled", proc'[p].at \in Writing
             PROVE  MarkPart(p)'
  BY DEF MarkInv, MarkPart
<1>0. /\ Sound(proc[p], trained) /\ Sound(proc'[p], trained') /\ TypeInv'
      /\ FilesTyped /\ RowsTyped
  BY StepMoves, Known DEF TypeInv, ProcTyped
<1>1. CASE UNCHANGED vars
  BY <1>1 DEF MarkInv, MarkPart, vars, files, rows, KnownStatus
<1>2. CASE Begins(p)
  BY <1>2 DEF Begins, Writing
<1>3. CASE proc[p].alone /\ Looks(p)
  <2>1. UNCHANGED <<meta, row, pointer>>
    BY <1>3 DEF Looks, files, rows
  <2>2. /\ Keeps(p) /\ proc[p].at \in {"upd_read", "upd_look"}
        /\ proc[p].at = "upd_read" =>
             proc'[p].at = "upd_meta" /\ KnownStatus(proc[p].version) # Absent
        /\ proc[p].at = "upd_look" => proc'[p].at \in {"upd_row", "upd_pointer"}
        /\ proc[p].at = "upd_look" /\ proc'[p].at = "upd_row" =>
             pointer.version # proc[p].version
    BY <1>3 DEF Looks, Writing
  <2>3. MarkPart(p)
    BY <1>3 DEF MarkInv
  <2>. QED
    BY <2>1, <2>2, <2>3 DEF MarkPart, Keeps, KnownStatus, Writing
<1>4. ASSUME NEW done, done, proc[p].alone, Writes(p, done)
      PROVE  MarkPart(p)'
  <2>1. proc[p].at \in {"upd_meta", "upd_pointer"} /\ Keeps(p)
    BY <1>0, <1>4 DEF Writes, Writing, Sound
  <2>2. MarkPart(p) /\ proc[p].mark = "disabled" /\ proc[p].at \in Writing
    BY <1>4, <2>1 DEF MarkInv, Keeps, Writing
  <2>3. /\ proc[p].status = "disabled" /\ proc[p].version \in Versions
        /\ proc[p].at = "upd_pointer" => proc[p].held = "disabled"
    BY <1>0, <2>2, WriterKnown DEF Sound
  <2>4. CASE proc[p].at = "upd_meta"
    <3>1. /\ proc'[p].at = "upd_look" /\ row' = row
          /\ meta' = IF done /\ meta[proc[p].version] # Absent
                     THEN [meta EXCEPT ![proc[p].version] = "disabled"] ELSE meta
      BY <1>4, <2>3, <2>4 DEF Writes, Writing, rows
    <3>2. meta'[proc[p].version] = IF meta[proc[p].version] # Absent THEN "disabled"
                                   ELSE Absent
      BY <1>0, <1>4, <2>3, <3>1 DEF FilesTyped
    <3>. QED
      BY <2>1, <2>2, <3>1, <3>2 DEF MarkPart, Keeps, KnownStatus, Out, Absent
  <2>5. CASE proc[p].at = "upd_pointer"
    <3>1. /\ proc'[p].at = "upd_row" /\ row' = row /\ meta' = meta
          /\ pointer' = [version |-> proc[p].version, status |-> "disabled"]
      BY <1>4, <2>3, <2>5 DEF Writes, Writing, rows
    <3>. QED
      BY <2>1, <2>2, <2>5, <3>1 DEF MarkPart, Keeps, KnownStatus
  <2>. QED
    BY <2>1, <2>4, <2>5
<1>. QED
  BY <1>1, <1>2, <1>3, <1>4, AloneMoves


\* A retired version stays as it is when p reads.
LEMMA RetiredLooks ==
  ASSUME TypeInv, RetiredInv, [Next]_vars, NEW p \in Process, Looks(p),
         NEW v \in retired
  PROVE  RetiredPart(v)' /\ OutPart(v, p)'
<1>1. RetiredPart(v) /\ OutPart(v, p)
  BY DEF RetiredInv
<1>2. UNCHANGED <<meta, row, pointer>>
  BY DEF Looks, files, rows
<1>3. /\ Sound(proc'[p], trained') /\ v \in Versions
  BY StepMoves, ReadersTyped DEF TypeInv, ProcTyped, RowsTyped
<1>4. ASSUME proc'[p].version = v, proc'[p].at \in Saving \cup Activating PROVE FALSE
  <2>1. \/ proc[p].at = "act_read" /\ Keeps(p)
        \/ proc[p].at = "choose" /\ proc'[p].version \in Previous
    BY <1>4 DEF Looks, Saving, Activating
  <2>2. v \notin Previous
    BY <1>1 DEF Previous, RetiredPart, Out
  <2>. QED
    BY <1>1, <1>4, <2>1, <2>2 DEF OutPart, Keeps, Activating
<1>5. ASSUME proc'[p].version = v, proc'[p].at \in Writing
      PROVE  proc'[p].status = "disabled"
  <2>1. \/ /\ proc[p].at = "upd_read" /\ Keeps(p)
           /\ proc[p].mark = "keep" => proc'[p].status = KnownStatus(v)
           /\ KnownStatus(v) # Absent
        \/ proc[p].at = "upd_look" /\ Keeps(p) /\ proc'[p].status = proc[p].status
    BY <1>5 DEF Looks, Writing, Keeps
  <2>2. CASE proc[p].at = "upd_read"
    <3>1. KnownStatus(v) = "disabled" /\ proc[p].mark \in {"keep", "disabled"}
      BY <1>1, <1>5, <2>1, <2>2 DEF RetiredPart, OutPart, KnownStatus, Out, Keeps
    <3>. QED
      BY <1>3, <1>5, <2>1, <2>2, <3>1 DEF Sound, Keeps
  <2>3. CASE proc[p].at = "upd_look"
    BY <1>1, <1>5, <2>1, <2>3 DEF OutPart, Keeps, Writing
  <2>. QED
    BY <2>1, <2>2, <2>3
<1>6. ASSUME proc'[p].version = v, proc'[p].at = "upd_read"
      PROVE  proc'[p].mark \in {"keep", "disabled"}
  <2>1. \/ proc[p].at = "act_read" /\ Keeps(p)
        \/ proc'[p].mark \in {"keep", "disabled"}
    BY <1>6 DEF Looks
  <2>. QED
    BY <1>1, <1>6, <2>1 DEF OutPart, Keeps, Activating
<1>7. OutPart(v, p)'
  BY <1>4, <1>5, <1>6 DEF OutPart
<1>. QED
  BY <1>1, <1>2, <1>7 DEF RetiredPart

\* And when p writes.
LEMMA RetiredWrites ==
  ASSUME TypeInv, RetiredInv, [Next]_vars, NEW p \in Process, NEW done, Writes(p, done),
         NEW v \in retired
  PROVE  RetiredPart(v)' /\ OutPart(v, p)'
<1>1. RetiredPart(v) /\ OutPart(v, p)
  BY DEF RetiredInv
<1>2. /\ Sound(proc[p], trained) /\ v \in Versions /\ v # trained + 1 /\ v # None
      /\ FilesTyped /\ RowsTyped
  BY Known, ReadersTyped DEF TypeInv, RowsTyped, None
<1>3. meta'[v] = meta[v]
        \/ (proc[p].at = "upd_meta" /\ meta'[v] = "disabled" /\ meta[v] # Absent)
  <2>1. \/ meta' = meta
        \/ /\ proc[p].at \in {"save_meta", "act_meta", "upd_meta"}
           /\ proc[p].at = "upd_meta" => meta[proc[p].version] # Absent
           /\ \E s : /\ meta' = [meta EXCEPT ![proc[p].version] = s]
                     /\ proc[p].at = "upd_meta" => s = proc[p].status
    BY DEF Writes, Given, files
  <2>2. CASE proc[p].version # v
    BY <1>2, <2>1, <2>2 DEF FilesTyped
  <2>3. CASE proc[p].version = v
    <3>1. /\ proc[p].at \notin {"save_meta", "act_meta"}
          /\ proc[p].at = "upd_meta" => proc[p].status = "disabled"
      BY <1>1, <2>3 DEF OutPart, Saving, Activating, Writing
    <3>. QED
      BY <1>2, <2>1, <2>3, <3>1 DEF FilesTyped
  <2>. QED
    BY <2>2, <2>3
<1>4. row'[v] = row[v]
        \/ (proc[p].at = "upd_row" /\ row'[v] = "disabled" /\ row[v] # Absent)
  <2>1. \/ row' = row
        \/ /\ proc[p].at \in {"save_row", "act_row", "upd_row"}
           /\ proc[p].at = "upd_row" => row[proc[p].version] # Absent
           /\ \E s : /\ row' = [row EXCEPT ![proc[p].version] = s]
                     /\ proc[p].at = "upd_row" => s = proc[p].status
    BY DEF Writes, Given, rows
  <2>2. CASE proc[p].version # v
    BY <1>2, <2>1, <2>2 DEF RowsTyped
  <2>3. CASE proc[p].version = v
    <3>1. /\ proc[p].at \notin {"save_row", "act_row"}
          /\ proc[p].at = "upd_row" => proc[p].status = "disabled"
      BY <1>1, <2>3 DEF OutPart, Saving, Activating, Writing
    <3>. QED
      BY <1>2, <2>1, <2>3, <3>1 DEF RowsTyped
  <2>. QED
    BY <2>2, <2>3
<1>5. pointer'.version = v => pointer'.status = "disabled"
  <2>1. \/ pointer' = pointer
        \/ pointer'.version = None
        \/ proc[p].at = "act_pointer" /\ pointer'.version = proc[p].version
        \/ /\ proc[p].at = "upd_pointer" /\ pointer'.version = proc[p].version
           /\ pointer'.status = proc[p].held
    BY DEF Writes, files
  <2>2. proc[p].version = v => /\ proc[p].at # "act_pointer"
                               /\ proc[p].at = "upd_pointer" => proc[p].held = "disabled"
    BY <1>1, <1>2 DEF OutPart, Activating, Writing, Sound
  <2>. QED
    BY <1>1, <1>2, <2>1, <2>2 DEF RetiredPart
<1>6. ASSUME proc'[p].version = v PROVE OutPart(v, p)'
  <2>1. CASE proc'[p].at \in Saving \cup Activating \cup {"upd_read"}
    <3>1. \/ proc[p].at \in Saving \cup Activating /\ proc[p].version = proc'[p].version
          \/ proc'[p].version = trained + 1
      BY <2>1 DEF Writes, Saving, Activating, Keeps, Sound, Disabling
    <3>. QED
      BY <1>1, <1>2, <1>6, <3>1 DEF OutPart
  <2>2. CASE proc'[p].at \in Writing
    <3>1. /\ proc[p].at \in Writing /\ Keeps(p) /\ proc'[p].status = proc[p].status
      BY <2>2, <1>2 DEF Writes, Writing, Sound, Disabling
    <3>. QED
      BY <1>1, <1>6, <2>2, <3>1 DEF OutPart, Keeps, Writing, Saving, Activating
  <2>3. CASE proc'[p].at \notin Saving \cup Activating \cup {"upd_read"} \cup Writing
    BY <2>3 DEF OutPart
  <2>. QED
    BY <2>1, <2>2, <2>3
<1>7. OutPart(v, p)'
  BY <1>6 DEF OutPart
<1>. QED
  BY <1>1, <1>3, <1>4, <1>5, <1>7 DEF RetiredPart, Out

\* A version that is retired now was marked by an operation that was alone.
LEMMA NewlyRetired ==
  ASSUME TypeInv, AloneInv, MarkInv, NEW p \in Process, NEW done, Writes(p, done),
         NEW v \in retired', v \notin retired
  PROVE  RetiredPart(v)' /\ \A q \in Process : OutPart(v, q)'
<1>1. /\ proc[p].at = "upd_row" /\ proc[p].alone /\ proc[p].mark = "disabled"
      /\ v = proc[p].version /\ UNCHANGED <<files, active>>
      /\ row' = IF done /\ row[v] # Absent THEN [row EXCEPT ![v] = proc[p].status] ELSE row
      /\ done
      /\ proc'[p].at \in {"idle", "dis_pointer"}
  BY DEF Writes, past
<1>2. /\ proc[p].status = "disabled" /\ v \in Versions
      /\ FilesTyped /\ RowsTyped
  BY <1>1, Known, WriterKnown DEF Sound, Writing
<1>3. /\ KnownStatus(v) # Absent /\ meta[v] \in Out
      /\ pointer.version = v => pointer.status = "disabled"
  BY <1>1 DEF MarkInv, MarkPart, Writing
<1>4. row'[v] = IF row[v] # Absent THEN "disabled" ELSE Absent
  BY <1>1, <1>2 DEF RowsTyped
<1>5. RetiredPart(v)'
  BY <1>1, <1>3, <1>4 DEF RetiredPart, KnownStatus, Out, files, Absent
<1>6. \A q \in Process \ {p} : proc[q].at = "idle"
  BY <1>1 DEF AloneInv
<1>7. \A q \in Process : proc'[q].at \in {"idle", "dis_pointer"}
  BY <1>1, <1>6 DEF Writes, Turn, Alike
<1>. QED
  BY <1>5, <1>7 DEF OutPart, Saving, Activating, Writing

LEMMA RetiredStep ==
  TypeInv /\ AloneInv /\ MarkInv /\ RetiredInv /\ [Next]_vars => RetiredInv'
<1> SUFFICES ASSUME TypeInv, AloneInv, MarkInv, RetiredInv, [Next]_vars
             PROVE  RetiredInv'
  OBVIOUS
<1>1. CASE UNCHANGED vars
  BY <1>1 DEF RetiredInv, RetiredPart, OutPart, vars, files, rows, past
<1>2. CASE Loses
  BY <1>2 DEF Loses, Alike, RetiredInv, RetiredPart, OutPart, rows, past
<1>3. ASSUME NEW p \in Process, Begins(p) PROVE RetiredInv'
  BY <1>3 DEF Begins, Alike, RetiredInv, RetiredPart, OutPart, files, rows, past,
     Saving, Activating, Writing
<1>4. ASSUME NEW p \in Process, NEW done, Turn(p, done), NEW v \in retired,
             NEW q \in Process \ {p}
      PROVE  OutPart(v, q)'
  BY <1>4 DEF Turn, Alike, RetiredInv, OutPart
<1>5. ASSUME NEW p \in Process, Looks(p) PROVE RetiredInv'
  <2>1. Turn(p, TRUE) /\ retired' = retired
    BY <1>5 DEF Looks, past
  <2>2. \A v \in retired : RetiredPart(v)' /\ OutPart(v, p)'
    BY <1>5, RetiredLooks
  <2>3. \A v \in retired : \A q \in Process \ {p} : OutPart(v, q)'
    BY <2>1, <1>4
  <2>. QED
    BY <2>1, <2>2, <2>3 DEF RetiredInv
<1>6. ASSUME NEW p \in Process, NEW done, Writes(p, done) PROVE RetiredInv'
  <2>1. Turn(p, done)
    BY <1>6 DEF Writes
  <2>2. \A v \in retired : RetiredPart(v)' /\ OutPart(v, p)'
    BY <1>6, RetiredWrites
  <2>3. \A v \in retired : \A q \in Process \ {p} : OutPart(v, q)'
    BY <2>1, <1>4
  <2>4. \A v \in retired' \ retired : RetiredPart(v)' /\ \A q \in Process : OutPart(v, q)'
    BY <1>6, NewlyRetired
  <2>. QED
    BY <2>2, <2>3, <2>4 DEF RetiredInv
<1>. QED
  BY <1>1, <1>2, <1>3, <1>5, <1>6, StepMoves DEF Moves

\* A version that an undisturbed disable has marked is never loaded again, whatever
\* runs, fails or dies afterwards.
THEOREM DisabledForGood == Spec => []DisabledStaysOut
<1>1. Init => MarkInv /\ RetiredInv
  BY DEF Init, MarkInv, RetiredInv, Idle
<1>2. TypeInv /\ RetiredInv => DisabledStaysOut
  <2> SUFFICES ASSUME TypeInv, RetiredInv, Loaded \in retired PROVE FALSE
    BY DEF DisabledStaysOut
  <2>1. Loaded # None
    BY DEF TypeInv, RowsTyped, None
  <2>2. pointer.version = Loaded /\ pointer.status # "disabled"
    BY <2>1 DEF Loaded
  <2>. QED
    BY <2>2 DEF RetiredInv, RetiredPart
<1>. QED
  BY <1>1, <1>2, MarkStep, RetiredStep, TypeInvariance, AloneInvariance, PTL DEF Spec


-----------------------------------------------------------------------------
(* The safety gate.                                                        *)

\* Before the check, an active row that has not changed is that of the version the
\* gate approves, or there is none beside it; after the check it is that version's.
GatePart ==
  /\ gate.at = "check" => \/ active \subseteq gate.since
                          \/ gate.version \in active \cup gate.since
  /\ gate.at = "load" => \/ gate.version \in gate.since
                         \/ active \ gate.since \subseteq {gate.version}
  /\ gate.at = "done" => \/ gate.loaded = gate.version
                         \/ {gate.loaded, gate.version} \cap gate.since # {}

GateInv == GateOK /\ GatePart

LEMMA GateInitial == GateInit => GateInv
BY VersionAssumption DEF GateInit, NoGate, GateInv, GateOK, Gate, GatePart, None

\* A row that is active after a step of the others and was not touched since the
\* first read was active before it.
LEMMA OthersStep ==
  ASSUME TypeInv, TypeInv', GateInv, Watched
  PROVE  GateInv'
<1>1. active \subseteq Versions /\ active' \subseteq Versions
  <2>1. TypeInv => active \subseteq Versions
    BY ReadersTyped DEF TypeInv, RowsTyped
  <2>2. TypeInv' => active' \subseteq Versions
    BY VersionAssumption DEF TypeInv, FilesTyped, RowsTyped, Versions
  <2>. QED
    BY <2>1, <2>2
<1>2. CASE gate.at \in {"check", "load"}
  <2> DEFINE moved == (active \ active') \cup (active' \ active)
  <2>1. gate' = [gate EXCEPT !.since = @ \cup moved] /\ gate \in Gate
    BY <1>2 DEF Watched, GateInv, GateOK
  <2>2. gate' \in Gate
    BY <1>1, <2>1 DEF Gate
  <2>3. /\ gate'.at = gate.at /\ gate'.version = gate.version
        /\ gate'.since = gate.since \cup moved
    BY <2>1 DEF Gate
  <2>. QED
    BY <1>2, <2>2, <2>3 DEF GateInv, GateOK, GatePart
<1>3. CASE gate.at \notin {"check", "load"}
  BY <1>3 DEF Watched, GateInv, GateOK, GatePart
<1>. QED
  BY <1>2, <1>3

\* What the gate reads first: the newest active row, if there is one.
LEMMA GateMetaStep == TypeInv /\ GateMeta => GateInv'
<1> SUFFICES ASSUME TypeInv, GateMeta PROVE GateInv'
  OBVIOUS
<1>1. /\ gate' = [NoGate EXCEPT !.at = "check", !.version = Current]
      /\ active' = active
  BY DEF GateMeta, vars, rows
<1>2. Current \in 0 .. MaxVersion /\ (active # {} => Current \in active)
  BY ReadersTyped, VersionAssumption DEF TypeInv, FilesTyped
<1>3. gate' = [at |-> "check", version |-> Current, loaded |-> None, since |-> {}]
  BY <1>1 DEF NoGate
<1>. QED
  BY <1>1, <1>2, <1>3, VersionAssumption DEF GateInv, GateOK, Gate, GatePart, None

\* The check finds one active row at most.
LEMMA GateCheckStep == TypeInv /\ GateInv /\ GateCheck => GateInv'
<1> SUFFICES ASSUME TypeInv, GateInv, GateCheck PROVE GateInv'
  OBVIOUS
<1>1. /\ gate.at = "check" /\ gate' = [gate EXCEPT !.at = "load"]
      /\ active' = active /\ gate \in Gate /\ Cardinality(active) <= 1
  BY DEF GateCheck, GateInv, GateOK, vars, rows, Consistent
<1>2. \A v, w \in active : v = w
  <2>1. trained \in Nat /\ active \in SUBSET (1 .. trained)
    BY ReadersTyped DEF TypeInv, RowsTyped
  <2>. QED
    BY <1>1, <2>1, FewIsOne
<1>3. /\ gate' \in Gate /\ gate'.at = "load"
      /\ gate'.version = gate.version /\ gate'.since = gate.since
  BY <1>1 DEF Gate
<1>4. active \ gate.since # {} /\ gate.version \notin gate.since => gate.version \in active
  BY <1>1 DEF GateInv, GatePart
<1>. QED
  BY <1>1, <1>2, <1>3, <1>4 DEF GateInv, GateOK, GatePart

\* What the gate loads has an active row.
LEMMA GateLoadStep == TypeInv /\ GateInv /\ GateLoad => GateInv'
<1> SUFFICES ASSUME TypeInv, GateInv, GateLoad PROVE GateInv'
  OBVIOUS
<1>1. /\ gate.at = "load" /\ gate' = [gate EXCEPT !.at = "done", !.loaded = Loaded]
      /\ gate \in Gate /\ Loaded \in active
  BY DEF GateLoad, GateInv, GateOK, Loaded
<1>2. Loaded \in 0 .. MaxVersion
  BY ReadersTyped, VersionAssumption DEF TypeInv, FilesTyped
<1>3. /\ gate' \in Gate /\ gate'.at = "done" /\ gate'.loaded = Loaded
      /\ gate'.version = gate.version /\ gate'.since = gate.since
  BY <1>1, <1>2 DEF Gate
<1>. QED
  BY <1>1, <1>3 DEF GateInv, GateOK, GatePart

\* Beside the gate the registry does what it does without it.
LEMMA GateWatches == GateSpec => Spec
<1>1. GateInit => Init
  BY DEF GateInit
<1>2. [GateNext]_<<vars, gate>> => [Next]_vars
  BY DEF GateNext, Others, GateMeta, GateCheck, GateLoad, GateEnds
<1>. QED
  BY <1>1, <1>2, PTL DEF GateSpec, Spec

LEMMA GateStep == TypeInv /\ TypeInv' /\ GateInv /\ [GateNext]_<<vars, gate>> => GateInv'
<1> SUFFICES ASSUME TypeInv, TypeInv', GateInv, [GateNext]_<<vars, gate>> PROVE GateInv'
  OBVIOUS
<1>1. CASE Others
  BY <1>1, OthersStep DEF Others
<1>2. CASE GateMeta \/ GateCheck \/ GateLoad
  BY <1>2, GateMetaStep, GateCheckStep, GateLoadStep
<1>3. CASE GateEnds
  BY <1>3, VersionAssumption DEF GateEnds, NoGate, GateInv, GateOK, Gate, GatePart, None
<1>4. CASE UNCHANGED <<vars, gate>>
  BY <1>4 DEF vars, rows, GateInv, GateOK, GatePart
<1>. QED
  BY <1>1, <1>2, <1>3, <1>4 DEF GateNext

\* The gate approves one version and loads another only if the row of one of the two
\* changed between its first read and its last.
THEOREM GateIsSound == GateSpec => []GateApprovesTheLoaded
<1>1. GateInit => GateInv
  BY GateInitial
<1>2. GateInv => GateApprovesTheLoaded
  BY DEF GateInv, GatePart, GateApprovesTheLoaded
<1>3. GateSpec => []TypeInv
  BY GateWatches, TypeInvariance, PTL
<1>. QED
  BY <1>1, <1>2, <1>3, GateStep, PTL DEF GateSpec

=============================================================================
