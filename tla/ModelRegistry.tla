----------------------------- MODULE ModelRegistry -----------------------------
(* The registry of trained models and its governance: learning/ml/              *)
(* model_registry.py, governance/ (registry_adapter.py, long_term_guard.py,     *)
(* retrain_scheduler.py, service.py), the trainers and the startup check of     *)
(* app/healthcheck.py.  SafetyGate adds the gate that reads the registry.       *)
(*                                                                              *)
(* What a task may load is spread over three places that no lock and no         *)
(* transaction joins: the pointer file active_model.json, the metadata.json of  *)
(* each version and the rows of ml_model_registry.  The workflow, the training  *)
(* and the repair tools are processes of their own on the same files, so a step *)
(* here is one write, or the reads before it; any write may fail and any        *)
(* process may die.  One task is modelled; dates, weights and metrics are left  *)
(* out, and what the validation and the online evaluation say is left open.     *)
EXTENDS Naturals, FiniteSets, FiniteSetsExt

CONSTANTS
  Process,
  MaxVersion,   \* BOUND: versions ever trained
  MaxOps,       \* BOUND: operations begun
  MaxFaults     \* BOUND: failed writes, dead processes and lost files

ASSUME VersionAssumption == MaxVersion \in Nat \ {0}
ASSUME LimitAssumption == MaxOps \in Nat /\ MaxFaults \in Nat

Versions == 1..MaxVersion    \* in the order of created_at
None == 0
Status == {"fresh", "shadow", "limited", "disabled"}   \* "fresh": no lifecycle_status
Absent == "absent"

VARIABLES
  trained,   \* number of the version trained last
  models,    \* versions whose model.joblib exists
  schemas,   \* versions whose feature_schema.json exists
  meta,      \* lifecycle_status in metadata.json
  row,       \* lifecycle_status in the row of the version
  active,    \* versions whose row has is_active = 1
  pointer,   \* active_model.json; version None: absent or disabled
  proc,      \* the operation each process is in
  begun, faults,
  raced,     \* history: two activations had cleared the rows, neither its own set
  retired    \* history: versions an undisturbed operation marked disabled

stored == <<models, schemas>>
files == <<trained, stored, meta, pointer>>
rows == <<row, active>>
past == <<raced, retired>>
vars == <<files, rows, proc, begun, faults, past>>

Kinds == {"train", "guard", "load_error", "rollback", "startup", "repair"}
Labels == {"idle", "save_files", "save_meta", "save_row", "act_read", "act_pointer",
           "act_meta", "act_clear", "act_row", "upd_read", "upd_meta", "upd_look",
           "upd_pointer", "upd_row", "dis_read", "dis_pointer", "dis_clear", "choose",
           "guard", "decide", "startup", "rep_check", "rep_read", "rep_rows",
           "rep_pointer", "rep_done"}

\* An operation of a process: where it is, the version it is about, the status it
\* has read or will write, and of its past whether it was alone, the version that
\* could be loaded and whether several rows were active when it began.
Operation == [kind : Kinds, at : Labels, version : 0..MaxVersion, status : Status,
              held : Status, mark : Status \cup {"keep"}, ok : BOOLEAN,
              todo : SUBSET Versions, next : Labels, alone : BOOLEAN,
              had : 0..MaxVersion, several : BOOLEAN]

TypeOK ==
  /\ trained \in 0..MaxVersion /\ models \subseteq Versions /\ schemas \subseteq Versions
  /\ meta \in [Versions -> Status \cup {Absent}]
  /\ row \in [Versions -> Status \cup {Absent}] /\ active \subseteq Versions
  /\ pointer \in [version : 0..MaxVersion, status : Status]
  /\ proc \in [Process -> Operation]
  /\ begun \in 0..MaxOps /\ faults \in 0..MaxFaults
  /\ raced \in BOOLEAN /\ retired \subseteq Versions

Idle == [kind |-> "train", at |-> "idle", version |-> None, status |-> "fresh",
         held |-> "fresh", mark |-> "keep", ok |-> TRUE, todo |-> {}, next |-> "idle",
         alone |-> FALSE, had |-> None, several |-> FALSE]

\* The first version was trained and activated.
Init ==
  /\ trained = 1 /\ models = {1} /\ schemas = {1} /\ active = {1}
  /\ meta = [v \in Versions |-> IF v = 1 THEN "fresh" ELSE Absent]
  /\ row = meta
  /\ pointer = [version |-> 1, status |-> "fresh"]
  /\ proc = [p \in Process |-> Idle]
  /\ begun = 0 /\ faults = 0
  /\ raced = FALSE /\ retired = {}

(* ----- what the readers see ------------------------------------------------- *)

whole == models \cap schemas

\* load_active_model: the version it returns.  Of its files it needs the model: the
\* pointer holds the schema, or the default one if there was none to copy.
Loaded ==
  IF /\ pointer.version \in models \cap active
     /\ pointer.status # "disabled"
  THEN pointer.version ELSE None

\* get_active_metadata: the newest active row, else the pointer
Current == IF active # {} THEN Max(active) ELSE pointer.version

\* check_registry_consistency, without the count of active rows and with it
Broken ==
  \/ ~(active \subseteq whole)
  \/ pointer.version # None /\ pointer.version \notin whole \cap active
Consistent == ~Broken /\ Cardinality(active) <= 1

\* get_model_metadata: the file, else the row
KnownStatus(v) == IF meta[v] # Absent THEN meta[v] ELSE row[v]

\* Mutant: a model of any status may be rolled back to.
PreviousOfAnyStatus == {v \in models : row[v] # Absent /\ v # Current}

\* list_valid_previous_models, which asks for the model file only
Previous == {v \in models : row[v] # Absent /\ row[v] # "disabled" /\ v # Current}

(* ----- how a process steps -------------------------------------------------- *)

\* p goes on as r.  Its write happened (done) or failed, which every process that
\* counts on being alone notices.
Goes(p, r, done) ==
  /\ faults' = IF done THEN faults ELSE faults + 1
  /\ proc' = [q \in Process |->
                LET now == IF q = p THEN r ELSE proc[q]
                IN [now EXCEPT !.alone = @ /\ done]]

Outcomes == IF faults < MaxFaults THEN BOOLEAN ELSE {TRUE}
To(p, label) == IF label = "idle" THEN Idle ELSE [proc[p] EXCEPT !.at = label]
Reads(p, r) == Goes(p, r, TRUE) /\ UNCHANGED <<files, rows, begun, past>>

Begin(p, kind) ==
  /\ proc[p].at = "idle" /\ begun < MaxOps
  /\ begun' = begun + 1
  /\ LET alone == \A q \in Process : proc[q].at = "idle"
         first == CASE kind = "train" -> "save_files"
                    [] kind = "load_error" -> "dis_read"
                    [] kind = "rollback" -> "choose"
                    [] kind = "repair" -> "rep_read"
                    [] OTHER -> kind
     IN proc' = [q \in Process |->
                   IF q = p
                   THEN [Idle EXCEPT !.kind = kind, !.at = first, !.alone = alone,
                           !.had = Loaded, !.several = Cardinality(active) > 1]
                   ELSE [proc[q] EXCEPT !.alone = FALSE]]
  /\ UNCHANGED <<files, rows, faults, past>>

(* ----- save_model_version, called by a trainer ------------------------------ *)

\* model.joblib, then feature_schema.json of a new version; either may fail
SaveFiles(p) ==
  /\ proc[p].at = "save_files"
  /\ trained < MaxVersion
  /\ trained' = trained + 1
  /\ \E done \in Outcomes, half \in BOOLEAN :
       /\ models' = IF done \/ half THEN models \cup {trained + 1} ELSE models
       /\ schemas' = IF done THEN schemas \cup {trained + 1} ELSE schemas
       /\ Goes(p, IF done THEN [To(p, "save_meta") EXCEPT !.version = trained + 1]
                  ELSE To(p, "idle"), done)
  /\ UNCHANGED <<meta, pointer, rows, begun, past>>

\* There is nothing to train from: too few samples, no library.
SkipTraining(p) ==
  /\ proc[p].at = "save_files"
  /\ Reads(p, To(p, "idle"))

\* evaluation.json and metadata.json, one of which may fail
SaveMeta(p) ==
  /\ proc[p].at = "save_meta"
  /\ \E done \in Outcomes, last \in {"evaluation", "metadata"} :
       /\ meta' = IF done \/ last = "evaluation"
                  THEN [meta EXCEPT ![proc[p].version] = "fresh"] ELSE meta
       /\ Goes(p, [To(p, "save_row") EXCEPT !.ok = done], done)
  /\ UNCHANGED <<trained, stored, pointer, rows, begun, past>>

\* validation_gate over the metrics of the model: either way
Validation == BOOLEAN

\* The new row; a complete save whose evaluation passes the gate is activated.
SaveRow(p) ==
  /\ proc[p].at = "save_row"
  /\ \E done \in Outcomes, passed \in Validation :
       /\ row' = IF done THEN [row EXCEPT ![proc[p].version] = "fresh"] ELSE row
       /\ LET saved == proc[p].ok /\ done
              after == CASE saved /\ passed -> "act_read"
                         [] saved /\ ~passed /\ proc[p].kind = "guard" -> "upd_read"
                         [] OTHER -> "idle"
          IN Goes(p, [To(p, after) EXCEPT !.ok = TRUE, !.mark = "shadow"], done)
  /\ UNCHANGED <<files, active, begun, past>>

(* ----- activate_model ------------------------------------------------------- *)

\* run_retrain marks what it trained, rollback_to_version what it activated.
Activated(p, ok) ==
  IF proc[p].kind = "guard" \/ (proc[p].kind = "rollback" /\ ok)
  THEN [To(p, "upd_read") EXCEPT !.ok = TRUE] ELSE To(p, "idle")

ActRead(p) ==
  /\ proc[p].at = "act_read"
  /\ LET status == KnownStatus(proc[p].version)
     IN Reads(p, IF status = Absent THEN Activated(p, FALSE)
                 ELSE [To(p, "act_pointer") EXCEPT !.status = status, !.ok = TRUE])

ActPointer(p) ==
  /\ proc[p].at = "act_pointer"
  /\ \E done \in Outcomes :
       /\ pointer' = IF done THEN [version |-> proc[p].version, status |-> proc[p].status]
                     ELSE pointer
       /\ Goes(p, IF done THEN To(p, "act_meta") ELSE Activated(p, FALSE), done)
  /\ UNCHANGED <<trained, stored, meta, rows, begun, past>>

ActMeta(p) ==
  /\ proc[p].at = "act_meta"
  /\ \E done \in Outcomes :
       /\ meta' = IF done THEN [meta EXCEPT ![proc[p].version] = proc[p].status] ELSE meta
       /\ Goes(p, [To(p, "act_clear") EXCEPT !.ok = @ /\ done], done)
  /\ UNCHANGED <<trained, stored, pointer, rows, begun, past>>

\* Mutant: only the version's own row is cleared before it is set.
ActClearOwn(p) ==
  /\ proc[p].at = "act_clear"
  /\ active' = active \ {proc[p].version}
  /\ Goes(p, To(p, "act_row"), TRUE)
  /\ raced' = (raced \/ \E q \in Process \ {p} : proc[q].at = "act_row")
  /\ UNCHANGED <<files, row, begun, retired>>

ActClear(p) ==
  /\ proc[p].at = "act_clear"
  /\ \E done \in Outcomes :
       /\ active' = IF done THEN {} ELSE active
       /\ Goes(p, [To(p, "act_row") EXCEPT !.ok = @ /\ done], done)
  /\ raced' = (raced \/ \E q \in Process \ {p} : proc[q].at = "act_row")
  /\ UNCHANGED <<files, row, begun, retired>>

ActRow(p) ==
  /\ proc[p].at = "act_row"
  /\ \E done \in Outcomes :
       /\ active' = IF done THEN active \cup {proc[p].version} ELSE active
       /\ row' = IF done THEN [row EXCEPT ![proc[p].version] = proc[p].status] ELSE row
       /\ Goes(p, Activated(p, proc[p].ok /\ done), done)
  /\ UNCHANGED <<files, begun, past>>

(* ----- _update_raw_payload: a mark, or a weight and the status as it was ----- *)

\* Where an operation goes that has marked its version.
Marked(p) == IF proc[p].mark = "disabled" THEN To(p, "dis_pointer") ELSE To(p, "idle")

UpdRead(p) ==
  /\ proc[p].at = "upd_read"
  /\ LET status == KnownStatus(proc[p].version)
     IN Reads(p, IF status = Absent THEN Marked(p)
                 ELSE [To(p, "upd_meta") EXCEPT
                         !.status = IF proc[p].mark = "keep" THEN status ELSE proc[p].mark])

UpdMeta(p) ==
  /\ proc[p].at = "upd_meta"
  /\ \E done \in Outcomes :
       /\ meta' = IF done /\ meta[proc[p].version] # Absent
                  THEN [meta EXCEPT ![proc[p].version] = proc[p].status] ELSE meta
       /\ Goes(p, To(p, "upd_look"), done)
  /\ UNCHANGED <<trained, stored, pointer, rows, begun, past>>

\* The pointer is read, and written back if it names the version.
UpdLook(p) ==
  /\ proc[p].at = "upd_look"
  /\ Reads(p, IF pointer.version # proc[p].version THEN To(p, "upd_row")
              ELSE [To(p, "upd_pointer") EXCEPT
                      !.held = IF proc[p].status # "fresh" THEN proc[p].status
                               ELSE pointer.status])

UpdPointer(p) ==
  /\ proc[p].at = "upd_pointer"
  /\ \E done \in Outcomes :
       /\ pointer' = IF done THEN [version |-> proc[p].version, status |-> proc[p].held]
                     ELSE pointer
       /\ Goes(p, To(p, "upd_row"), done)
  /\ UNCHANGED <<trained, stored, meta, rows, begun, past>>

UpdRow(p) ==
  /\ proc[p].at = "upd_row"
  /\ \E done \in Outcomes :
       /\ row' = IF done /\ row[proc[p].version] # Absent
                 THEN [row EXCEPT ![proc[p].version] = proc[p].status] ELSE row
       /\ Goes(p, Marked(p), done)
       /\ retired' = IF done /\ proc[p].alone /\ proc[p].mark = "disabled"
                     THEN retired \cup {proc[p].version} ELSE retired
  /\ UNCHANGED <<files, active, begun, raced>>

(* ----- disable_active_model ------------------------------------------------- *)

\* The adapter marks the version the rows name before the registry disables.
DisRead(p) ==
  /\ proc[p].at = "dis_read"
  /\ Reads(p, IF Current = None THEN To(p, "dis_pointer")
              ELSE [To(p, "upd_read") EXCEPT !.version = Current, !.mark = "disabled"])

DisPointer(p) ==
  /\ proc[p].at = "dis_pointer"
  /\ \E done \in Outcomes :
       /\ pointer' = IF done THEN [version |-> None, status |-> "fresh"] ELSE pointer
       /\ Goes(p, To(p, "dis_clear"), done)
  /\ UNCHANGED <<trained, stored, meta, rows, begun, past>>

DisClear(p) ==
  /\ proc[p].at = "dis_clear"
  /\ \E done \in Outcomes :
       /\ active' = IF done THEN {} ELSE active
       /\ Goes(p, To(p, proc[p].next), done)
  /\ UNCHANGED <<files, row, begun, past>>

(* ----- rollback_to_previous_active ------------------------------------------ *)

Choose(p) ==
  /\ proc[p].at = "choose"
  /\ Reads(p, IF Previous = {} THEN To(p, "dis_read")
              ELSE [To(p, "act_read") EXCEPT !.version = Max(Previous), !.mark = "limited"])

(* ----- repair_registry ------------------------------------------------------ *)

\* Mutant: the newest version is kept, not the newest active row.
RepReadNewestVersion(p) ==
  /\ proc[p].at = "rep_read"
  /\ Reads(p, [To(p, "rep_rows") EXCEPT
                 !.todo = {v \in active : v \notin whole \/ v # trained}])

\* All active rows but the newest, and those whose files are gone
RepRead(p) ==
  /\ proc[p].at = "rep_read"
  /\ Reads(p, [To(p, "rep_rows") EXCEPT
                 !.todo = {v \in active : v \notin whole \/ v # Max(active)}])

\* One row at a time; the order of the two loops is left open.
RepRow(p) ==
  /\ proc[p].at = "rep_rows"
  /\ \E v \in proc[p].todo, done \in Outcomes :
       /\ active' = IF done THEN active \ {v} ELSE active
       /\ Goes(p, [proc[p] EXCEPT !.todo = @ \ {v}], done)
  /\ UNCHANGED <<files, row, begun, past>>

\* Mutant: the pointer is only asked for its files.
RepPointerFilesOnly(p) ==
  /\ proc[p].at = "rep_rows" /\ proc[p].todo = {}
  /\ Reads(p, IF pointer.version # None /\ pointer.version \notin whole
              THEN [To(p, "dis_pointer") EXCEPT !.next = "rep_done"]
              ELSE To(p, "rep_done"))

RepPointer(p) ==
  /\ proc[p].at = "rep_rows" /\ proc[p].todo = {}
  /\ Reads(p, IF pointer.version # None /\ pointer.version \notin whole \cap active
              THEN [To(p, "dis_pointer") EXCEPT !.next = "rep_done"]
              ELSE To(p, "rep_done"))

\* check_task disables what a repair left inconsistent, and goes on otherwise.
RepDone(p) ==
  /\ proc[p].at = "rep_done"
  /\ Reads(p, [To(p, IF proc[p].kind # "guard" THEN "idle"
                     ELSE IF Consistent THEN "decide" ELSE "dis_read")
                  EXCEPT !.next = "idle"])

(* ----- check_task and the startup check ------------------------------------- *)

Guard(p) ==
  /\ proc[p].at = "guard"
  /\ Reads(p, IF Current = None THEN To(p, "idle")
              ELSE [To(p, IF Consistent THEN "decide" ELSE "rep_read")
                      EXCEPT !.version = Current])

\* evaluate_task: what the recent predictions of the task recommend is left open;
\* keep_active, keep_shadow and force_legacy change nothing in the registry, and
\* the evaluation recommends neither a rollback nor a retraining.
Recommendation == {"keep", "reduce_weight", "disable_model"}

\* apply_model_action on the version read first: an expired model is retrained, any
\* other does as the evaluation recommends.
Decide(p) ==
  /\ proc[p].at = "decide"
  /\ \/ Reads(p, To(p, "save_files"))
     \/ \E action \in Recommendation :
          Reads(p, [To(p, CASE action = "keep" -> "idle"
                            [] action = "reduce_weight" -> "upd_read"
                            [] action = "disable_model" -> "dis_read")
                      EXCEPT !.mark = "keep"])

\* The health check disables a broken task, then the governance service checks.
Startup(p) ==
  /\ proc[p].at = "startup"
  /\ Reads(p, IF Broken THEN [To(p, "dis_pointer") EXCEPT !.next = "rep_check"]
              ELSE To(p, "rep_check"))

RepCheck(p) ==
  /\ proc[p].at = "rep_check"
  /\ Reads(p, [To(p, IF Consistent THEN "idle" ELSE "rep_read") EXCEPT !.next = "idle"])

(* ----- faults --------------------------------------------------------------- *)

Crash(p) ==
  /\ proc[p].at # "idle" /\ faults < MaxFaults
  /\ Goes(p, Idle, FALSE)
  /\ UNCHANGED <<files, rows, begun, past>>

\* A file of a version is deleted or cannot be read any more.
LoseFile(v) ==
  /\ faults < MaxFaults
  /\ \/ v \in models /\ models' = models \ {v} /\ UNCHANGED schemas
     \/ v \in schemas /\ schemas' = schemas \ {v} /\ UNCHANGED models
  /\ faults' = faults + 1
  /\ proc' = [q \in Process |-> [proc[q] EXCEPT !.alone = FALSE]]
  /\ UNCHANGED <<trained, meta, pointer, rows, begun, past>>

Train(p) == SaveFiles(p) \/ SkipTraining(p) \/ SaveMeta(p) \/ SaveRow(p)
Activate(p) == ActRead(p) \/ ActPointer(p) \/ ActMeta(p) \/ ActClear(p) \/ ActRow(p)
Update(p) == UpdRead(p) \/ UpdMeta(p) \/ UpdLook(p) \/ UpdPointer(p) \/ UpdRow(p)
Disable(p) == DisRead(p) \/ DisPointer(p) \/ DisClear(p)
Repair(p) == RepRead(p) \/ RepRow(p) \/ RepPointer(p) \/ RepDone(p)
Govern(p) == Guard(p) \/ Decide(p) \/ Choose(p) \/ Startup(p) \/ RepCheck(p)

Next ==
  \/ \E p \in Process :
       \/ \E kind \in Kinds : Begin(p, kind)
       \/ Train(p) \/ Activate(p) \/ Update(p) \/ Disable(p) \/ Repair(p) \/ Govern(p)
       \/ Crash(p)
  \/ \E v \in Versions : LoseFile(v)

Spec == Init /\ [][Next]_vars

(* ----- properties ----------------------------------------------------------- *)

\* A version that a disable marked while nothing else ran and no write failed is
\* never loaded again, whatever activations, rollbacks, weight updates and repairs
\* follow: governance/registry_adapter.py 200-238 against load_active_model.
DisabledStaysOut == Loaded \notin retired

\* Several rows are active only after a failed write or after two activations had
\* both cleared the rows before either set its own (model_registry.py 203-204).
SeveralActiveIsExplained == Cardinality(active) > 1 => raced \/ faults > 0

\* A repair nothing disturbs leaves the task consistent: at most one active row,
\* its files there, and a pointer that is disabled or names it.
RepairConverges ==
  \A p \in Process : proc[p].at = "rep_done" /\ proc[p].alone => Consistent

\* It takes away a model that could be loaded only for one of two reasons: several
\* rows were active, of which it keeps the newest, and a pointer to another is
\* disabled; or the schema file is gone, which loading does not need (the pointer
\* holds a copy, model_registry.py 262-268) and the repair asks for (535, 546).
RepairLosesOnlyAmbiguous ==
  \A p \in Process :
    proc[p].at = "rep_done" /\ proc[p].alone /\ proc[p].had # None
      => \/ Loaded = proc[p].had
         \/ proc[p].several
         \/ proc[p].had \notin schemas
================================================================================
