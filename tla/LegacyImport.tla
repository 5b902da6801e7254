--------------------------- MODULE LegacyImport ---------------------------
(***************************************************************************)
(* The import of the legacy memories into the evolution tables             *)
(* (storage/legacy_full_importer.py), as EvolutionOrchestrator.bootstrap   *)
(* runs it at the start of every template until it has once completed,     *)
(* with the smaller import of PopulationEngine.bootstrap_from_legacy that  *)
(* follows it and the live results that after_backtest writes to the same  *)
(* tables.                                                                 *)
(*                                                                         *)
(* A legacy record stands for the alpha it is about: the importer keeps    *)
(* one record per expression.  A source is a table, a file or a log; one   *)
(* that cannot be read is an error of the run, but the two JSON files are  *)
(* read by safe_json_read, which answers with an empty list and no error.  *)
(* A source may also hold rows without an expression, which are seen and   *)
(* never imported.  Rewards are abstracted to how often an alpha has been  *)
(* counted; every alpha has one parent and one mutation.                   *)
(***************************************************************************)
EXTENDS Naturals, FiniteSets

CONSTANTS
  Alpha,       \* the alphas
  Legacy,      \* those with a legacy record before the first start
  Source,      \* the sources of legacy records
  Silent,      \* those read by safe_json_read: the JSON pool, the lineage file
  SourcesOf,   \* the sources the record of an alpha is written to
  BatchSize,   \* legacy_full_import_batch_size
  MaxFaults    \* bound: failed reads, damaged files, failed statements and crashes

ASSUME ImportAssumption ==
  /\ IsFiniteSet(Alpha) /\ Legacy \subseteq Alpha /\ Silent \subseteq Source
  /\ SourcesOf \in [Alpha -> (SUBSET Source) \ {{}}]
  /\ BatchSize \in Nat \ {0} /\ MaxFaults \in Nat

VARIABLES
  pc,        \* where process_one_template is
  db,        \* what is committed: population rows, counts, completion
  tx,        \* what the connection of an open transaction sees
  todo,      \* records read by this run and not yet in a batch
  batch,     \* records of the open transaction still to be written
  stats,     \* of this run: something seen, imported, failed
  held,      \* the sources that hold the record of an alpha
  nameless,  \* sources with rows that have no expression
  lived,     \* alphas whose own result was written by after_backtest
  legacy,    \* history: the alphas recorded before the first start
  unread,    \* history: alphas no source told this run of, and none reported
  failed,    \* history: runs that imported and failed, or were cut
  unfinished,\* history: a run ended with the import incomplete
  unseen,    \* history: a run that saw no record at all came to its conclusion
  blind,     \* history: the population or the meta row could not be read
  faults     \* faults that happened

sources == <<held, nameless, legacy>>
ended   == <<failed, unfinished>>
vars == <<pc, db, tx, todo, batch, stats, sources, lived, unread, ended, unseen, blind, faults>>

Row == {"none", "legacy", "live"}

\* The tables of the evolution repository.
Tables == [member : [Alpha -> Row],    \* evolution_population
           edge   : [Alpha -> Nat],    \* alpha_graph_edges: the count of its parent's edge
           policy : [Alpha -> Nat],    \* evolution_policy_actions, context legacy_full_import
           completed : BOOLEAN]        \* evolution_meta: legacy_full_import_completed

NoStats == [seen |-> FALSE, imported |-> FALSE, errors |-> FALSE]

TypeOK ==
  /\ pc \in {"idle", "batches", "transaction", "bootstrap", "work"}
  /\ db \in Tables /\ tx \in Tables
  /\ todo \subseteq Alpha /\ batch \subseteq Alpha
  /\ stats \in [seen : BOOLEAN, imported : BOOLEAN, errors : BOOLEAN]
  /\ held \in [Alpha -> SUBSET Source] /\ nameless \subseteq Source
  /\ legacy \subseteq Legacy /\ lived \subseteq Alpha /\ unread \subseteq Alpha
  /\ failed \in Nat /\ faults \in Nat
  /\ unfinished \in BOOLEAN /\ unseen \in BOOLEAN /\ blind \in BOOLEAN

Empty == [member |-> [a \in Alpha |-> "none"],
          edge   |-> [a \in Alpha |-> 0],
          policy |-> [a \in Alpha |-> 0],
          completed |-> FALSE]

\* There may be legacy records or none, and rows without an expression anywhere.
Init ==
  /\ pc = "idle" /\ db = Empty /\ tx = Empty
  /\ todo = {} /\ batch = {} /\ stats = NoStats
  /\ legacy \in {Legacy, {}} /\ nameless \in SUBSET Source
  /\ held = [a \in Alpha |-> IF a \in legacy THEN SourcesOf[a] ELSE {}]
  /\ lived = {} /\ unread = {}
  /\ failed = 0 /\ unfinished = FALSE /\ unseen = FALSE /\ blind = FALSE /\ faults = 0

Fault == faults < MaxFaults /\ faults' = faults + 1

-----------------------------------------------------------------------------
(* One run of the importer. *)

\* Mutant: the completion is not looked at.
RunAlways == TRUE

\* Mutant: a partial import is not taken up again.
RunOnce == ~db.completed /\ failed = 0

\* should_run with the shipped configuration (once, not forced).
ShouldRun == ~db.completed

\* The alphas with a record.
recorded == {a \in Alpha : held[a] # {}}

\* The records of the sources that can be read, once per expression, and those that
\* were read before a source failed.
Readable(bad) == {a \in Alpha : held[a] \ bad # {}}
Partly(bad)   == {a \in Alpha : held[a] \cap bad # {}}

\* run_once: the sources are read.  Of those that fail the quiet ones look empty, and
\* any other counts as an error, before or after some of its rows.
Read(bad, quiet) ==
  /\ pc = "idle" /\ ShouldRun
  /\ pc' = "batches"
  /\ \E part \in SUBSET Partly(bad \ quiet), rows \in SUBSET (nameless \cap (bad \ quiet)) :
       /\ todo' = Readable(bad) \cup part
       /\ stats' = [seen |-> todo' # {} \/ (nameless \ bad) \cup rows # {},
                    imported |-> FALSE, errors |-> bad \ quiet # {}]
  /\ batch' = {}
  /\ unread' = {a \in Alpha : held[a] \subseteq quiet}
  /\ UNCHANGED <<db, tx, sources, lived, ended, unseen, blind>>

ReadAll  == Read({}, {}) /\ UNCHANGED faults
ReadSome ==
  /\ \E bad \in (SUBSET Source) \ {{}} : \E quiet \in SUBSET (bad \cap Silent) : Read(bad, quiet)
  /\ Fault

SkipRun ==
  /\ pc = "idle" /\ ~ShouldRun
  /\ pc' = "bootstrap"
  /\ UNCHANGED <<db, tx, todo, batch, stats, sources, lived, unread, ended, unseen, blind, faults>>

\* The completion row cannot be read: bootstrap gives up for this template.
SkipBootstrap ==
  /\ pc = "idle" /\ Fault
  /\ pc' = "work" /\ blind' = TRUE
  /\ UNCHANGED <<db, tx, todo, batch, stats, sources, lived, unread, ended, unseen>>

Slice == {b \in SUBSET todo : \/ Cardinality(b) = BatchSize
                              \/ b = todo /\ Cardinality(b) < BatchSize}

\* BEGIN IMMEDIATE.
Begin ==
  /\ pc = "batches" /\ todo # {}
  /\ \E b \in Slice : batch' = b /\ todo' = todo \ b
  /\ pc' = "transaction" /\ tx' = db
  /\ UNCHANGED <<db, stats, sources, lived, unread, ended, unseen, blind, faults>>

\* The failure of a batch is counted in the errors of the run.
BatchLost == stats' = [stats EXCEPT !.errors = TRUE]

\* The database stays locked: the batch is given up.
BeginFails ==
  /\ pc = "batches" /\ todo # {} /\ Fault
  /\ \E b \in Slice : todo' = todo \ b
  /\ BatchLost
  /\ UNCHANGED <<pc, db, tx, batch, sources, lived, unread, ended, unseen, blind>>

\* The statements of one record: its population row, its edge, its mutation.
Member(t, a) == [t EXCEPT !.member = [t.member EXCEPT ![a] = "legacy"]]
Edge(t, a)   == [t EXCEPT !.edge = [t.edge EXCEPT ![a] = @ + 1]]
Policy(t, a) == [t EXCEPT !.policy = [t.policy EXCEPT ![a] = @ + 1]]
Written(t, a) == Policy(Edge(Member(t, a), a), a)

Write(a) ==
  /\ pc = "transaction" /\ a \in batch
  /\ tx' = Written(tx, a) /\ batch' = batch \ {a}
  /\ stats' = [stats EXCEPT !.imported = TRUE]
  /\ UNCHANGED <<pc, db, todo, sources, lived, unread, ended, unseen, blind, faults>>

\* A statement or the COMMIT fails: the transaction is rolled back, and what was
\* counted as imported stays counted, be it of the record that failed.
TransactionFails ==
  /\ pc = "transaction" /\ Fault
  /\ pc' = "batches" /\ batch' = {}
  /\ \/ BatchLost
     \/ batch # {} /\ stats' = [stats EXCEPT !.imported = TRUE, !.errors = TRUE]
  /\ UNCHANGED <<db, tx, todo, sources, lived, unread, ended, unseen, blind>>

Commit ==
  /\ pc = "transaction" /\ batch = {}
  /\ pc' = "batches" /\ db' = tx
  /\ UNCHANGED <<tx, todo, batch, stats, sources, lived, unread, ended, unseen, blind, faults>>

\* Mutant: the errors of the run are not looked at.
CompleteByCount == ~stats.seen \/ stats.imported

\* _finalize_import: nothing seen is complete, nothing imported is not (be it that
\* no row seen had an expression), and neither is a run with an error.
Complete == ~stats.seen \/ (stats.imported /\ ~stats.errors)

Conclude ==
  /\ pc = "batches" /\ todo = {}
  /\ unseen' = (unseen \/ ~stats.seen)
  /\ UNCHANGED <<tx, todo, batch, stats, sources, lived, unread, blind>>

Finalize ==
  /\ Conclude
  /\ pc' = "bootstrap"
  /\ db' = [db EXCEPT !.completed = Complete]
  /\ failed' = IF Complete \/ ~stats.imported THEN failed ELSE failed + 1
  /\ unfinished' = (unfinished \/ ~Complete)
  /\ UNCHANGED faults

\* A row of the conclusion, before or after the completion, is not written: by
\* a crash, or by an error, after which _mark_failed_attempt takes the
\* completion back if it can.
FinalizeFails ==
  /\ Conclude /\ Fault
  /\ \E c \in {db.completed, Complete, FALSE} : db' = [db EXCEPT !.completed = c]
  /\ pc' \in {"bootstrap", "idle"}
  /\ failed' = failed + 1 /\ unfinished' = TRUE

-----------------------------------------------------------------------------
(* PopulationEngine.bootstrap_from_legacy, in the same call. *)

Populated == \E a \in Alpha : db.member[a] # "none"

Repopulated(S) ==
  [db EXCEPT !.member = [a \in Alpha |-> IF a \in S THEN "legacy" ELSE db.member[a]]]

\* Mutant: the smaller import runs whatever the full one has done.
BootstrapAlways(sighted) == TRUE

\* A completed import is not repeated, unless it left no population; a row that
\* cannot be read is taken for an incomplete import or for an empty population.
BootstrapDue(sighted) == ~sighted \/ ~db.completed \/ ~Populated

Bootstrap ==
  /\ pc = "bootstrap" /\ pc' = "work"
  /\ db' = IF BootstrapDue(TRUE) THEN Repopulated(recorded) ELSE db
  /\ UNCHANGED <<tx, todo, batch, stats, sources, lived, unread, ended, unseen, blind, faults>>

\* The rows that tell cannot be read, or an upsert is skipped.
BootstrapBlind ==
  /\ pc = "bootstrap" /\ pc' = "work" /\ Fault
  /\ \E sighted \in BOOLEAN, S \in SUBSET recorded :
       /\ db' = IF BootstrapDue(sighted) THEN Repopulated(S) ELSE db
       /\ blind' = (blind \/ ~sighted)
  /\ UNCHANGED <<tx, todo, batch, stats, sources, lived, unread, ended, unseen>>

-----------------------------------------------------------------------------
(* The template's work, its end, and a crash. *)

\* after_backtest: a new alpha's own row and edge; reward engine and pool give it a
\* legacy record too, and maybe rows without an expression.  Its policy update has a
\* context of its own.
AfterBacktest(a) ==
  /\ pc = "work" /\ a \notin legacy \cup lived
  /\ held' = [held EXCEPT ![a] = SourcesOf[a]]
  /\ nameless' \in {nameless, nameless \cup SourcesOf[a]}
  /\ lived' = lived \cup {a}
  /\ db' = [Edge(db, a) EXCEPT !.member = [db.member EXCEPT ![a] = "live"]]
  /\ UNCHANGED <<pc, tx, todo, batch, stats, legacy, unread, ended, unseen, blind, faults>>

EndTemplate ==
  /\ pc = "work" /\ pc' = "idle"
  /\ UNCHANGED <<db, tx, todo, batch, stats, sources, lived, unread, ended, unseen, blind, faults>>

Crash ==
  /\ pc # "idle" /\ pc' = "idle" /\ Fault
  /\ IF pc \in {"batches", "transaction"}
     THEN failed' = failed + 1 /\ unfinished' = TRUE
     ELSE UNCHANGED ended
  /\ todo' = {} /\ batch' = {}
  /\ UNCHANGED <<db, tx, stats, sources, lived, unread, unseen, blind>>

\* A damaged JSON file is renamed away by whoever reads it first.
Damage(s) ==
  /\ Fault
  /\ held' = [a \in Alpha |-> held[a] \ {s}] /\ nameless' = nameless \ {s}
  /\ UNCHANGED <<pc, db, tx, todo, batch, stats, legacy, lived, unread, ended, unseen, blind>>

Step ==
  \/ ReadAll \/ SkipRun \/ Begin \/ Commit \/ Finalize \/ Bootstrap \/ EndTemplate
  \/ \E a \in Alpha : Write(a)

Faulty ==
  \/ ReadSome \/ SkipBootstrap \/ BeginFails \/ TransactionFails \/ FinalizeFails
  \/ BootstrapBlind \/ Crash \/ \E s \in Silent : Damage(s)

Next == Step \/ Faulty \/ \E a \in Alpha : AfterBacktest(a)

\* The main loop goes on with the next template; faults are never owed.
Spec == Init /\ [][Next]_vars /\ WF_vars(Step)

-----------------------------------------------------------------------------
Lives(a) == IF a \in lived THEN 1 ELSE 0

\* A legacy record is counted in the policy and graph statistics once, and once
\* more at most for every run that imported and failed or was cut short (run_once
\* starts again with the first record, and the upserts add to a count).
CountedOncePerRun ==
  \A a \in Alpha : /\ db.policy[a] <= 1 + failed
                   /\ db.edge[a] <= 1 + failed + Lives(a)

\* Once the import is completed every record there was at the start has been
\* imported, but for two cases: a run saw no row at all, be it that its sources
\* failed, or the JSON files that alone held the record were damaged or answered an
\* OSError with an empty list (safe_json.py 29-44), which is no error of the run.
CompletedIsImported ==
  db.completed => unseen \/ \A a \in legacy \ unread : db.policy[a] > 0

\* The row that an alpha's own backtest wrote is replaced by its legacy record
\* only after a run that left the import incomplete, which one without any error
\* does that sees no expression, or when the database could not be read.
LiveRowsStay == \A a \in lived : db.member[a] = "live" \/ unfinished \/ blind

\* There are rows and none has an expression: failed_no_population, in every run.
NothingUsable == recorded = {} /\ nameless # {}

\* However often a read, a statement or a conclusion fails, the import is completed
\* in the end if the failures end, unless all it finds are rows without expression:
\* then it is tried again at every template (legacy_full_importer.py 330-335).
EventuallyCompleted == <>[](db.completed \/ NothingUsable)

=============================================================================
