# A verification project for the AlphaForge workflow

TLA+ models of the parts of `wq_workflow` whose correctness depends on the order
of things: one backtest request against a browser that fails, the loop over one
template, the queue under the storage manager, the asynchronous evolution memory,
the JSON files with their locks and backups, the wait for a result, the delayed
rewards, the move to a new reward, the import of the legacy records and the registry
of trained models. Every definition follows the source; `PROJECT.json` (`map`) gives the lines it stands
for. TLC checks small instances, TLAPS proves the theorems for every value of the
constants.

Contents: 1 the system · 2 the modules and the code · 3 the runs · 4 fairness ·
5 the proofs · 6 disagreements between the code and what it says · 7 other
observations · 8 what is not modelled · 9 the plan.

## 1. The system

The program takes alpha templates (expressions), submits them to a simulation
platform through a browser, reads the result page, and lets a language model
repair or mutate the code until one passes or the limits are reached. All of it
runs in one process: one asyncio event loop for the workflow, a few daemon threads
for storage, and files shared with the dashboard and with later runs.

| Component | State it keeps | Operations | Interacts with |
|---|---|---|---|
| Backtest attempt (`simulate.py`, `workflow_state.py`, `watchdog.py`, `browser_supervisor.py`, `favorites.py`, `correlation.py`) | driver counters, FSM state and retry count, page, browser, session | 13 states with timeout, retry and recovery level; browser watchdog; 25-minute timer; session rebuild, browser restart | called by the template loop; writes the favorites log and the alpha library; the page is the outside world |
| Waiting for the result (`simulate.py`, `run_validator.py`) | baseline, progress, stable reads, freshness score | the polling loop, the final recovery, three validation attempts | states WAIT_RESULT and PARSE_RESULT of the attempt |
| Template loop (`orchestrator.py`, `alpha_simulator.py`) | about fifteen counters and fingerprints local to `process_one_template` | syntax, correlation, skip and duplicate checks; submission; retry, repair, mutation; final recovery | calls the attempt, the model client, the reward and evolution memory |
| Storage queue and manager (`storage/`, `safe_io.py`) | FIFO queue, unfinished count, writer thread, SQLite table, JSONL file, degraded flag | append, flush, read the tail, close | every component logs through it; the dashboard reads |
| Evolution memory (`core/evolution/versioned_memory.py`) | pending payload, file, flushing thread | load, save, flush, close | survival memory, pending rewards, template population |
| Atomic JSON files (`safe_io.py`, `utils/safe_json.py`) | file, backup, lock file | locked atomic write, read with quarantine and backup | everything that persists a JSON file |
| Reward engine, survival memory, pending rewards (`reward_engine.py`, `core/evolution/`) | two memories of the kind above, the metadata of the last calculation | calculate with settlement, record survival, register | the template loop, one engine per template over the same files |
| Reward migration (`reward_migration/`) | phase, streaks, weights, state file, shadow history | one decision per generation, rollback | the reward engine |
| Legacy import and population (`storage/legacy_full_importer.py`, `core/evolution/`) | population, graph, policy and meta tables | import in batches, completion, smaller import, live results | run at the start of each template |
| Model registry and governance (`learning/ml/`, `governance/`) | pointer file, metadata files, rows | train, activate, disable, roll back, repair, gate | workflow, training and repair are processes of their own |
| The rest: scoring, DOM operations, model client, other SQL repositories, V2 engine, strategy, offline replay, dashboards, shadow pipeline, CLI, tools | see `PROJECT.json`, `components` | | |

What is hard in it:

* **Effects that cannot be taken back**, inside handlers that time out, raise or
  are cancelled: a click on Run, a row in the favorites log. The retry, the rebuilt
  session and the restarted browser nest around them.
* **Reads at different moments of a page that changes**: the bar, the text, the
  text again.
* **Threads that hand data over in two critical sections**: `flush` of the
  evolution memory, `_ensure_queue` and `put_event` of the storage manager.
* **Files without transactions**: lock files that outlive their holder, a backup
  rewritten in place, a quarantine rename by a reader that takes no lock.
* **Counters reset at different places** of a loop of eight hundred lines, and
  streaks that rollbacks, restarts and failed saves must end.
* **One fact in three places**: the model in use is named by a pointer file, by a
  metadata file and by rows, written one after the other by several processes.
* **Work taken up again** at the next template, over rows that were written since.

What makes each component correct: a click on Run submits this alpha and happens a
bounded number of times; a passed alpha is favorited once, an alpha rejected is
not; every request ends. A mutation is rewarded once; the platform does not get
the same code twice in a row. An accepted event is stored at most once, in order,
or given up with degraded mode set. The last save is never lost and updates
accumulate. A saved file stays whole and its backup stands in for a damaged one.
The result accepted is stable and belongs to this run. A delayed reward is settled
once and is the alpha's own. V2 comes back slowly after a rollback. An import that
says it is complete is. A disabled model is not loaded again.

## 2. The modules and the code

    EventStore  <--- implements --- EventQueue
    TemplateLoop       BacktestAttempt   WaitResult          (SubmissionProofs)
    EventQueue         AtomicJson        EvolutionMemory     (each with its ...Proofs)
    PendingRewards     RewardMigration   LegacyImport        (likewise)
    SafetyGate  --- extends --> ModelRegistry                (ModelRegistryProofs)
    MC<module>: the instance TLC checks

The names of TemplateLoop and WaitResult that would clash with another module begin
with `Loop` and `Wait` (`LoopSpec`, `WaitSpec`), since SubmissionProofs extends all
three.

**BacktestAttempt** is one call of `run_platform_backtest_attempt`. `pc` is the
driver, `alpha` the FSM task, `state`/`retry` the FSM, `browser`/`unhealthy` the
browser and the future its watchdog sets. All of them share one event loop, so an
action is what runs between two awaits. A handler with an outside effect is split
at the effect (`WriteCode`, `WriteName`, `ClickRun`, `ParseResult`, `AddFavorite`),
so that a timeout may fall on either side; what follows is `StateExit`, one of
`StateRaises`, `StateRejects`, or `AlphaTimeout`. `Recover` is `fsm_recover` with
`restore_page_for_state_retry`; `Resume` is the return of `asyncio.wait`;
`ReturnResult`, `RetrySession` and `RestartBrowser` are the tail of the driver's
`while True`. The policy tables `MaxRetry` and `Level` are the code's. A click is
one call of `click_run_button`; its two ways to click, and `ensure_alpha_name`'s
four ways to type, are one step. `name` means "written as far as the page has the
field": `ensure_alpha_name` accepts a page without it. A login that is lost in the
middle of a handler always raises (`ensure_simulate_auth`), so an editor wiped by
it is followed by the recovery of the state, which is an ordinary `StateRaises`.

**WaitResult** opens the two states BacktestAttempt leaves to chance. The page is
an actor: its panel moves from the old result over nothing and first numbers to
the final result, the bar and the time stamps change, the panel collapses. The
loop reads the bar (`ReadProgress`), later the text (`Accept`, `KeepCounting`,
`OldResult`, `NotYet`), and after an accepted reading the text again (`Reread`).
`Fingerprint` is the fingerprint of what is read, without its time stamps; `same` says that the
final result repeats the old one's, as that of a code simulated again does.
`Ready` is `result_ready_for_current_run`, `Counted` the count of equal stable
fingerprints, `CalledOld` the two checks for an old result, `Cancelled` the
timeout of the state. Whether the result then passes the freshness score is
`Validate`.

**TemplateLoop** is `process_one_template`. Each action is one way through a turn:
`LocalRepair`, `CorrelationRepair`, `RegenerateSkipped`, `DuplicateRepair`,
`SimulatorSkip`, `Submit`, then one per kind of result. The language model may
return any code, the platform any result. `submissions` and `credited` are history.

**EventQueue** is `append_jsonl` → `StorageManager.write_event` →
`SQLiteWriteQueue`, and `read_jsonl_tail` after a flush. A producer fetches the
queue under a lock (`EnsureQueue`) and puts after releasing it (`PutEvent`); the
writer thread connects, collects, begins, commits, exports and reports
(`Connect` ... `TaskDone`); `CloseStarts`, `SetStop` and `ForgetQueue` are `close`,
after which the next append creates a second queue whose thread may run beside the
first. `ReadTail` asks for every event appended so far and is answered at once when the
manager has no queue. **EventStore** is what is promised: an event has at most one row, is lost
only in degraded mode, and degraded mode is never left.

**EvolutionMemory** is the store in its asynchronous mode (paths under the
workflow root): `Load`, `Save`, the two halves of `flush` (`Take`, `Write`) by the
worker and by `close`. A payload is the set of updates in it and the number of the
save that made it.

**AtomicJson** is one file with its backup and lock file. Each step between two
file-system calls is an action: `Open`, `Stat`, `Unlink`, `Deadline` and `Exit` are
`FileLock`; `PreBackup`, `FillPreBackup`, `WriteTemp`, `Replace`, `PostBackup` and
`FillPostBackup` the write; `Read`, `Quarantine` and `ReadBackup` the reader. `Crash`,
`OpenFails`, `BackupFails` and `Skip` are what goes wrong, `Damage` is anything that
writes the file without this code, `LockAges` is 120 seconds.

**PendingRewards** is the evolution layer of `RewardEngine` over the survival memory
and the pending rewards, driven by `record_pending_mutation_result`. A result is
recorded in three steps: `CalculateReward` (with `Settle`) or `Untracked`,
`RecordSurvival`, `RegisterPendingReward`. Each store is what its engine has
buffered, the file, and the payloads of workers that are still to be written
(`late`); `NextTemplate` makes a new engine and leaves the threads of the old one
running. Amounts are abstracted to their sign.

**RewardMigration** is one `blend_reward` per generation (`Blend`): streaks
(`WithStreaks`), rollback, hold or next phase (`Moved`), weights (`Weights`), save. In
`BlendFails` something raises before the save is done and the legacy reward is
returned. The monitors are abstracted to a verdict and the two sample counts.
`calm`, `since` and `forgotten` are history.

**LegacyImport** is `EvolutionOrchestrator.bootstrap` at the start of every template:
`Read`, then batches (`Begin`, `Write`, `Commit`), the conclusion (`Finalize`) and the
smaller import (`Bootstrap`), followed by the template's own results
(`AfterBacktest`). `held` says which sources hold the record of an alpha, `nameless` which
hold rows without an expression, seen and never imported. A source that fails is an error
of the run; one of `Silent` (the JSON pool and the lineage file, read by
`safe_json_read`) may look empty instead, and `Damage` is its quarantine. `tx` is what an
open transaction sees. The sidecar evolution and
the SQLite mode are assumed to be on; `AfterBacktest` writes at once what the storage
manager queues.

**ModelRegistry** is one task of the registry: `SaveFiles` ... `SaveRow` train and save,
`ActRead` ... `ActRow` are `activate_model`, `UpdRead` ... `UpdRow` the adapter's
`_update_raw_payload`, `DisRead` ... `DisClear` a disable, `RepRead` ... `RepDone` a
repair, `Guard` and `Decide` the guard, `Startup` and `RepCheck` the start. Each label
is the next write of a process. A failed write leaves the old contents. `models` and
`schemas` are the two files of a version: loading needs the first only, since the pointer
holds a copy of the schema; check and repair ask for both. Either may be lost.

**SafetyGate** adds the gate of a workflow that starts (`apply_config_safety_gate`): it
reads the metadata (`GateMeta`), the consistency (`GateCheck`) and the model (`GateLoad`)
at three moments, and the processes of ModelRegistry step in between (`Others`).

## 3. The runs

| Run | States | What it shows |
|---|---|---|
| BacktestAttempt | 144,638 | what is submitted (`RunCarriesAlpha`), how often (`RunsBounded`), what is favorited (`LibraryAtMostOnce`, `PassedIsFavorited`), how a favorite can end as rejected (`RejectedIsExplained`), that the request ends (`Terminates`) |
| EventQueue | 155,739 | order, what a flush promises, which events are stranded; `StoreSpec`: the queue implements `EventStore`; `EventuallySettled`: an accepted event is stored, given up or left to a dead thread |
| EvolutionMemory | 1,997 | the last save is kept, the file never goes back, every save reaches the disk |
| TemplateLoop | 232,568 | one reward per mutation, no two skips in a row, repeats only after a skip |
| AtomicJson | 244,548 | exclusion before a lock is stale, backups in step, a saved file stays whole, lock files go away |
| WaitResult | 10,025,293 | stable means unchanged, an old result is accepted only where the fingerprint cannot tell, a finished result is not given up unless it repeats the old one |
| PendingRewards | 4,424,076 | no reward is ever released, the layer adds nothing, a registered reward is the alpha's own |
| RewardMigration | 482,472 | V2 comes back slowly and gradually, a flagged generation is rewarded by the legacy reward, an advance is earned |
| LegacyImport | 686,067 | how often a record is counted, what "completed" means, which live rows stay, that the import completes unless all it finds are rows without expression |
| ModelRegistry | 2,463,164 | a disabled version stays out, how several rows become active, what a repair restores and gives up; with the gate of SafetyGate, when it judges another model than it loads |
| EvolutionMemoryAccumulate, AtomicJsonBackup | | end in a violation; see section 6 |

The bounds, and why they are enough:

* *BacktestAttempt* uses the code's own limits, two rebuilt contexts and one
  browser restart; `runs`, `favLog` and `library` need no bound.
* *EventQueue*: two producers and two events, which make one batch of two, or a batch
  of one beside an event that waits; two generations let an abandoned writer
  overlap the next; two attempts instead of five, because only the last one
  differs. The same run checks the liveness, so no symmetry is used; a third event
  repeats these cases.
* *EvolutionMemory*: four updates put one payload in the file, one in the worker's
  hands, one in `pending` and one in the making.
* *TemplateLoop*: three codes, one invalid: a code, its mutation, and one to
  repair. Five turns; retry limit 3, page reload after 2, no-progress limit 3 and
  skip limit 3 stand for 9, 3, 8 and 3, so that five turns reach each of them
  separately. The rare case that exhausts one after another needs no more.
* *AtomicJson*: two writers and a reader; one crash or refused call and one damage
  per behaviour. Refused replaces are not bounded. Further processes
  repeat the same steps on the same file; the proofs cover any number.
* *WaitResult*: one unit is a poll interval of two seconds, and a turn of the loop
  takes one or two. Three reads over a window of two units as configured; 20 s,
  75 s, the activity span, the deadline and the state's timeout are shortened to
  1, 3, 4, 7 and 8 in the same order. Seven is the first deadline at which a finished result
  that is never counted is given up later than its readings would have taken. The deadline is before the state's timeout, as with
  `wait_result_max_seconds` 240; with the shipped value both are 300 seconds (see
  section 7). `MaxPoll` bounds a turn.
* *PendingRewards*: two templates of two iterations, settled after one and released
  after two rounds (5 and 5 in the code), so that both limits are within reach: with
  a name kept over two iterations, or a parent credited, a release happens. The
  proofs cover the code's limits. One payload may be late.
* *RewardMigration*: the code's limits (8, 12 and a streak of 3); the history is cut
  at 12 rows, beyond which no threshold looks, healthy generations are counted to 10,
  one more than the longest streak asked for, and three rollbacks raise the adaptive
  controller's legacy floor to 70 of its 85 (the fourth would reach it). Any phase can be reached, left and reached again.
* *LegacyImport*: three legacy records in two sources, batches of two, so that one
  batch is full and one is not: one record in both sources, one in the table only, one in
  the JSON pool only, which fails silently. A fourth alpha gets a live result. Two faults
  cut an import and its repetition, or blind a read and the conclusion.
* *ModelRegistry*: the gate, two processes, two versions (the one in use, and one to
  replace it and to fall back from), three operations and one fault. Three operations let
  one process run a second operation into the middle of another process's first, and train,
  roll back and activate around a gate. The proofs cover any number of each.

Deadlock checking is off where the system really stops: a request that returned, a
template that ended, a process that exited, a wait that is over, and the bounded
number of events, operations, iterations. AtomicJson, RewardMigration and LegacyImport
never stop and are checked for deadlock.

For every property of a passing run, `PROJECT.json` (`mutants`) names a plausible
bug, written in the module beside the definition it replaces, under which TLC finds
the property violated.

## 4. Fairness

* *BacktestAttempt*: weak fairness of the driver and of the alpha task. The event
  loop runs what is ready and every handler is bounded by `asyncio.wait_for`, so
  something of `AlphaStep` happens. Nothing makes the browser die, the watchdog
  fire or the 25 minutes end.
* *EventQueue*: weak fairness of each writer thread; nothing of producers, readers
  or close.
* *EvolutionMemory*: weak fairness of the flushing thread, which polls every
  quarter of a second; nothing makes the main thread save or exit.
* *AtomicJson*: a writer inside the code goes on, and time passes. Beginning a
  save is not owed, nor is any fault; `LockIsFreed` assumes that some writer keeps
  coming, since nobody else looks at a lock file.
* *LegacyImport*: weak fairness of the program's own steps, one template after the
  other; no fault is owed, and neither is a live result.
* *TemplateLoop*, *WaitResult*, *PendingRewards*, *RewardMigration* and *ModelRegistry* state
  no liveness and no fairness: what they promise is what a step may not do.

## 5. The proofs

TLAPS checks these for all values of the constants, under the named assumptions of
the modules (the limits are natural numbers; `Missing` and `Corrupt` are no writers).
One theorem, `FinishedIsNotGivenUp`, has a hypothesis of its own. Every invariant and
every action property a passing run checks is stated by a theorem, and so is the
implementation of `EventStore`. Their inductive
invariants were checked with TLC on the instances of the runs as well.

**SubmissionProofs, BacktestAttempt.** Each property has a part of the inductive invariant.

* `TypeCorrect` needs `Room`: while a request goes on, neither counter is beyond its
  limit. With it the increments stay in `TypeOK`.
* `RunsCarryTheAlpha`: the property says nothing of the page before a click.
  `PageReady` does: past WRITE_CODE, or after it acted, the page holds the code, and
  likewise the name. The only hard case is a reload, where `Restored` gives back just
  what the state being retried needs.
* `RunsAreBounded`: `ClicksInv` counts per session: none before CLICK_RUN, one more
  for each retry used, at most two after it, on top of two for each session before.
* `OneFavoritePerSession`: `FavoriteInv` allows a row in this session only once
  ADD_FAVORITE has acted, or when the task has ended; the policy level 3 of that
  state, which raises instead of retrying, is what makes it hold.
* `LibraryHasItOnce`: `AddFavorite` is the only writer and its guard is the check
  against the library.
* `PassedIsKept`: `KeptInv` carries "passed implies both rows" from ADD_FAVORITE over
  FINISHED to the result that is returned.
* `RejectionIsExplained`: in the first session the library has this request's row
  only once ADD_FAVORITE has acted, while the correlation check rejects before it
  has (`RejectedInv`). So a favorite that ends as rejected took a second session.

**SubmissionProofs, TemplateLoop.** The loop's lists grow without a bound, and the
lemmas say what `Append` and a change of the last member do to them.

* `LoopTypeCorrect` needs `Within`: a loop that goes on has reached none of its limits.
* `NoTwoSkipsInARow`: a skip takes the pending mutation away, a new one needs a
  submission, and a submission sets the count back (`SkipInv`).
* `MutationIsCreditedOnce`: rewards carry the turn that made the mutation. They rise,
  and a pending mutation is of a later turn than all of them (`CreditInv`).
* `RepeatNeedsSkip`: before any skip, the fingerprint the loop compares with is the
  code of the last submission as soon as that had a dependable result (`RepeatInv`);
  the submission that waits is the last one and of the present code (`WaitsInv`).

**SubmissionProofs, WaitResult.**

* `WaitTypeCorrect` needs `Paced`: a count was begun no longer ago than the
  clock says, with a poll for each reading.
* `StaleHasAReason`: whatever may be accepted next is explained if it is old
  (`StaleInv`). The page never goes back to the old result, and what explains an old
  one, a new time stamp or progress of 15 and more, stays explained (`ExplainedStays`).
* `StableIsUnchanged`: since the first of the equal readings the panel has not
  changed (`ReadInv`): it only moves up, so what it showed before never comes back. Only a
  final result that repeats the old one can be counted with the readings of the old one.
* `FinishedIsNotGivenUp`: while a finished result is shown, each turn adds a reading,
  so the time used is at most that of the readings counted (`PatientInv`), and the
  deadline leaves room for all of them. The result must be one the fingerprint can tell from
  the baseline. Its hypothesis is `Window < StableReads`: the
  readings alone fill the window. The code's values satisfy it (three reads,
  `simulate.py:67`; 4 seconds, that is two poll intervals, `simulate.py:69`), and
  without it the count may be complete while the window is still open.

**EventQueueProofs.** `IInv` follows an event from the put over queue and batch to the
table, or to being given up. `Apart` says that it is in one of these at a time, in one
generation only; `Sorted` and `InOrder` compare the places; `Counted` makes
`unfinished_tasks` the number of what waits, which is what `flush` trusts; `Settled` and
`Answered` turn that into what a reader was told, with a queue or without one: all
events but those a forgotten queue still holds (`Left`) are in the table or storage is
degraded; `Explained` keeps the reason of what is lost or stranded. The parts hold each
other up. `QueueImplementsStore`: a commit moves a batch whose events had no row
(`Apart`), so that each row of the store goes from none to one; giving up a batch is the
store's loss, every other step a stutter.

**EvolutionMemoryProofs.** `InOrder` orders the three places a payload can be in:
file before worker's hands before pending. Inductive is `InOrder` together with
`LastSaveKept`, while the store is open; `FileIsNeverOlder` follows for each write.

**AtomicJsonProofs.** `WritersExclude`: until a lock is stale a lock file exists while
anyone is inside, nobody is about to unlink a stale one, and at most one is inside
(`LockInv`). `FileStaysWhole`: a reader is at the quarantine, or the file damaged,
only after outside damage (`DamageInv`). `BackupFollows`: `SaveInv` says, for a save
that nothing disturbed, what file and backup hold at each place of the writer that
is inside. For this `LockInv` is needed: the backup is rewritten in place.

**RewardMigrationProofs.** `StreakCounts` says what the streak in the state file is
worth: it counts generations that happened, since the last unhealthy one that was
saved and since the last rollback, and SHADOW after a rollback follows a whole streak.
`ReturnsSlowly` and `AdvancesAreEarned` follow from it, for every limit.
`RecoversGradually` and `FlaggedAreLegacy` need the arithmetic of the scheduler
(`ScheduledRollback`): ten at most, and five more per healthy generation.

**PendingRewardsProofs.** The inductive invariant speaks of every content of the two
stores, wherever it is: an alpha without a result is in none, and one with a result
has survived at most one round. So it does not matter in which order late payloads are
written, and `NothingReleased`, `LayerIsSilent` and `BasesAreOwn` hold for any number of
templates, iterations and rounds of two or more. `OneRoundEach` is the reason by itself:
no alpha survives twice, whatever is late.

**LegacyImportProofs.** `CountsOK` and `WholeOK` follow a record through the run: while
it waits it has been counted by earlier runs only, and its edge is counted with its
mutation. `LossOK`: a run without an error loses no record there was at the start but
those only silent sources held (`unread`), hence `CompletionIsTrue`. `LiveOK`: without an
unfinished run or a failed read, no backtest writes before the completion, hence
`LiveRowsAreKept`. The sets are finite but of any size.

**ModelRegistryProofs.** `Sound` types the record of an operation at each label, so that
an operation is never at a label its kind does not have. Every step then is one of four
(`StepMoves`): it begins an operation (`Begins`), only looks (`Looks`), makes one write
(`Writes`) or loses files, after which nothing is alone (`Loses`). The invariants are
shown for these.

* `SeveralIsExplained`: without a fault and without two activations that have both
  cleared the rows, at most one is between clearing and setting, and until it sets its
  own no row is active (`SeveralInv`).
* `RepairIsComplete`, `RepairIsSparing`: for an operation that was alone from its
  beginning to now, all others are idle (`AloneInv`), so what it read still holds when
  it writes. `RepairInv` and `LoadedInv` say at each label of a repair what it has
  restored, and what of the model in use is left.
* `DisabledForGood`: `MarkInv` follows the disable that retires a version,
  `RetiredInv` what the version looks like afterwards in row, metadata and pointer, and
  `OutPart` that no operation under way, however interleaved, saves or activates it.
* `RepairIsSparing`: the model that loads needs no schema file, so the repair may give it up
  for that reason, and for no other while a single row is active.
* `GateIsSound` is about GateSpec, whose steps leave the registry alone or are its own.
  `GateInv`: once the check has passed, either the row of the version judged has changed
  since the first read, or every active row that has not changed is that version's; for
  at the check there was one active row at most.

Only model-checked, because ENABLED and fairness are out of the prover's reach: the
liveness properties `Terminates`, `EventuallySettled`, `EventuallyOnDisk`, `LockIsFreed` and
`EventuallyCompleted`. The two runs of section 6 are counterexamples and stay with TLC.
The type invariant of each of the ten models is proved, which is why no run lists it.
No recursive definition is reasoned about by induction: the models use sequences and
sets, and their lemmas are about one `Append`, one concatenation, one changed member.

## 6. Where the code disagrees with what it says

Each is a run that ends in a violation of one property; `PROJECT.json` (`findings`)
quotes the line and describes the behaviour.

1. *EvolutionMemoryAccumulate*. A test expects fifteen updates to accumulate, on a
   path where the store writes through. On the runtime paths `flush` clears the
   pending payload and writes it in two critical sections; a load in between reads
   the old file, and the save based on it drops the update before.
2. *AtomicJsonBackup*. The backup stands in for a damaged file once. The file was
   renamed away and nothing restored, so the next read returns the default.

## 7. Other observations

Worth a look, each met while modelling. The first three are exceptions to what a
comment, an assertion or a test says, and the runs above bound them:

* `favorites.py:29` asserts that the correlation red line forbids a favorite. A session
  that fails after the favorite was recorded is run again, meets its own row in the
  library (`simulate.py:884`) and is returned as rejected. `RejectedIsExplained`: this
  is the only way.
* `orchestrator.py:408` says a code identical to the previous round is adjusted first.
  The guard compares with a fingerprint that a simulator skip has replaced (447).
  `RepeatsOnlyAfterSkip`: this is the only way.
* `simulate.py:2761` says the result's fingerprint differs from the old result's. It
  contains the page's time stamps (2783-2786); when they change first, the old result
  is stable, "different", and accepted. `StaleIsExplained` names the ways.

The backtest, the loop and the files:

* `write_queue.py:145`: after a failed connection the thread ends and the manager
  keeps its queue; later appends are accepted and never written. Degraded mode is
  set, and nothing ever resets it. In the race with `close` events strand without it
  (`StrandedIsExplained` names exactly these two causes).
* `safe_io.py:194-196`: rows that fell back to the legacy file are not read any more
  once the table has a row of that file.
* `versioned_memory.py:93-98`: `flush` may return while the worker still holds a
  payload it has not written.
* `orchestrator.py:448`: a skip drops the pending mutation without which the next
  skip is not considered, so the limit of three consecutive skips is never reached
  (`SkipsNeverConsecutive`).
* `orchestrator.py:656-657`: the no-progress count is reset before a failed quality
  result is counted; that circuit breaker never counts past one.
* `orchestrator.py:157-166`: `main` catches `TemplateFailedError` only; an exception of
  the browser launch leaves the remaining templates untouched. Line 167 logs all
  templates as favorited although a `template_success` without a passed quality
  report is not.
* A pending mutation is credited with the result of code that was repaired after it.
* `safe_io.py:125`: the backup before a write copies a damaged file over a good
  backup; if the replace is then refused, both are bad. The mirror to SQLite (142-150)
  happens after the lock was released, so its order may differ.
* `simulate.py:2060` with the shipped `wait_result_max_seconds` of 300: the state's
  timeout is 300 seconds too, so the final recovery, which first sleeps 15, is cancelled.
* `simulate.py:2224-2226`: the first check for an old result does not look at the
  fingerprint; a fast result without baseline whose bar was never seen at 15 or
  more is called old after 75 seconds.
* `simulate.py:2258-2262`: the result of a code that is simulated again (a retried attempt)
  has the numbers of the one on the page. Unless the time stamps have changed its
  fingerprint is the baseline's (2705, 2776-2796), it is never ready, and with the bar at
  100 it is called old: a network retry can end in an automation error. `FinishedIsAccepted`:
  nothing else does that to a finished result.
* `manager.py:226-229`: `flush` answers TRUE without a queue and asks only the present one. A
  queue that `close` gave up on after its timeouts and forgot may still hold accepted
  events, which the table then lacks and nothing reports (`Left` in `FlushedIsSettled`).
* `simulate.py:532-534` sets `progress_complete` and `metrics_stable` whatever was read,
  so the freshness score is at least 90 as soon as metrics are found.

Delayed rewards (`NothingIsReleased`, `LayerAddsNothing` are theorems):

* An alpha is recorded once, as `name:iteration`, so `survival_rounds` is at most 1 and
  a release asks for 5: the delayed seven tenths of every reward are canceled, and the
  long-term score and the adjustment the layer adds are always zero.
* A result without a pending mutation registers the reward left by an earlier
  iteration's calculation (`reward_engine.py:174`).
* Each template makes new stores whose threads are never stopped; a late payload of an
  earlier one can overwrite a newer file. Generations restart with each template, so
  the age of a reward is counted in iterations of another one.

Reward migration:

* A transition does not reset the streak, so a phase can last a single generation when
  samples lag, and SHADOW does so after every rollback.
* A rollback whose save fails is forgotten (`forgotten`).
* ROLLBACK gives V2 up to a tenth of the reward while SHADOW gives it none. The adaptive
  controller is not ordered by phase, and pins V2 at 15 after four rollbacks.
* `rollback_to_legacy` and FULL_V2 are never used.

Legacy import:

* The import runs at every template until it has completed. A source that can never be
  read completely (one bad line of a log) repeats it each time: edges and policy
  actions are counted again, and rows of live results are overwritten, although the
  class calls itself a one-time importer.
* If no source could be read or had a record, the import completes as
  `no_records_found` even with errors (`unseen`), and the records are never imported.
* The JSON pool and the lineage file are read through `safe_json_read`, which answers an
  empty list for a damaged or unreadable file (`safe_json.py:29-44`). The run counts no
  error, completes with what the other sources gave, and the rest is never imported
  (`unread` in `CompletedIsImported`).
* Rows without an expression are seen and dropped (`legacy_full_importer.py:221-223`). If
  there are no others the run ends as `failed_no_population` (330-335) without any error,
  and so does every later one: the import is tried at each template and never completes.
  The smaller import then overwrites live rows (`LiveRowsStay`, `EventuallyCompleted`).
* `imported_population` counts records whose batch was rolled back.
* `bootstrap_from_legacy` takes rows it cannot read for an empty population and writes
  over live ones (`blind`); with `legacy_full_import_enabled` off it does so every time.

Model registry:

* A disable whose row was not updated still returns true, and a later rollback may bring
  the model back; `disable_active_model` of the adapter marks the version the rows
  name, not the one the pointer failed to load.
* A crash in an activation between pointer and rows makes the next start disable
  everything, the previous model that still works included.
* A model whose `feature_schema.json` alone is lost still loads, since the pointer holds the
  schema (`model_registry.py:262-268`); the repair, which asks for both files (535, 546),
  disables it at the next start, the only active model of the task.
* The gate reads the metadata, the consistency and the model one after the other
  (`policy_gate.py:46-47`, `config_guard.py:87`). A rollback in between leaves a hard decision
  on for a model that was never judged; `GateApprovesTheLoaded`: only a change of one of
  the two rows in that time does.
* The check passes with an active row and a missing or disabled pointer; a repair keeps
  the newest active row and disables a pointer to another (`RepairLosesOnlyAmbiguous`).
* `online_evaluation.py:161-189` judges a version by the task's last 500 predictions of
  every version, so a new one can be disabled for its predecessor's errors.

## 8. What is not modelled

The reasons are listed with the components in `PROJECT.json`. In short: numeric
scoring, text recognition and parsing (abstracted to what the panel shows or to valid
and invalid code); DOM operations (their outcomes are choices); SQL inside a
transaction (one step, except in LegacyImport); what runs alone (migrations, command
line, tools); what is read-only or shadow by the architecture document. Inside the modelled parts: what the
platform does with a second click on the favorite button (not known from the source),
`max_iterations = 0`, the learning records and sidecars of the template loop, JSONL rotation, the mirror of
snapshots to SQLite, and the success detection after the freshness validation; in
PendingRewards the amounts and `children_success`, in LegacyImport `max_records`, `force`
and the lineage values, in ModelRegistry expiry, weights and the audit tables.

## 9. The plan

1. WaitResult inside BacktestAttempt: the two states that succeed freely today
   replaced by the outcomes of the wait, with the theorem that a returned
   result was accepted by it.
2. Proofs: an abstract specification of a saved file (AtomicJson) and of the store
   that flushes it (EvolutionMemory), with every step shown to implement it.
3. PendingRewards over EvolutionMemory's own store, with the load between the two
   halves of `flush`.
4. The fallback rows of the legacy file as a second source of EventQueue's reader.
5. Champion and challenger of the strategy layer, once the workflow promotes by itself.
