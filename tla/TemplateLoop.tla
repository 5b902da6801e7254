---------------------------- MODULE TemplateLoop ----------------------------
(***************************************************************************)
(* process_one_template (orchestrator.py): the loop that checks the        *)
(* current code, submits it to the platform and, by the result, retries    *)
(* it, has it repaired, mutates it or returns it.  A turn of the loop is   *)
(* one action, or two when it submits: Submit and what the result does.    *)
(*                                                                         *)
(* The language model that writes code, the platform and the red line of   *)
(* self-correlation are the environment: any code may come back from the   *)
(* first, any result from the second.  The prompts, the rewards and the    *)
(* records kept for learning are left out but for one thing, which         *)
(* mutation a reward is recorded for.                                      *)
(***************************************************************************)
EXTENDS Integers, Sequences

CONSTANTS
  Code,            \* what the language model can write, up to code_fingerprint
  Invalid,         \* codes the placeholder or the syntax check refuses
  None,            \* no code
  MaxIterations,   \* max_iterations_per_template
  RetryLimit,      \* automation_retry_total_limit
  HardRecovery,    \* automation errors in a row before the page is reloaded
  NoProgressLimit, \* no_progress_limit
  SkipLimit        \* simulator_max_consecutive_skips_per_template

ASSUME LoopAssumption ==
  /\ Invalid \subseteq Code /\ None \notin Code
  /\ {MaxIterations, RetryLimit, HardRecovery, NoProgressLimit, SkipLimit}
       \subseteq Nat \ {0}

VARIABLES
  stage,          \* "loop", "waiting", "success", "failed" or "raised"
  iteration,
  code,
  lastSubmitted,  \* last_submitted_fingerprint
  pending,        \* the turn that made pending_mutation, or 0
  skipped,        \* skipped_expression_fingerprints
  skips,          \* consecutive_simulator_skips
  skipDisabled,   \* simulator_skip_disabled_for_template
  retries,        \* automation_retry_count
  retryTotal,     \* automation_retry_total
  uncertain,      \* result_uncertain_count
  syntaxErrors,   \* syntax_error_count
  progress,       \* no_progress_key and no_progress_count
  submissions,    \* history: codes submitted, with the result each got
  credited        \* history: the turns whose mutation got a reward, in order

checkVars   == <<skipped, skips, skipDisabled>>
retryVars   == <<retries, retryTotal, uncertain>>
historyVars == <<submissions, credited>>
loopVars == <<stage, iteration, code, lastSubmitted, pending, checkVars, retryVars,
              syntaxErrors, progress, historyVars>>

\* max_syntax_errors follows max_iterations when that is set.
MaxSyntaxErrors == MaxIterations

NoProgress == [kind |-> "none", code |-> None, count |-> 0]

Results == {"waiting", "uncertain", "automation", "error", "passed", "quality_failed"}

LoopTypeOK ==
  /\ stage \in {"loop", "waiting", "success", "failed", "raised"}
  /\ iteration \in 0 .. MaxIterations
  /\ code \in Code /\ lastSubmitted \in Code \cup {None}
  /\ pending \in 0 .. MaxIterations
  /\ skipped \subseteq Code /\ skips \in 0 .. SkipLimit
  /\ skipDisabled \in BOOLEAN
  /\ retries \in 0 .. HardRecovery /\ retryTotal \in 0 .. RetryLimit
  /\ uncertain \in 0 .. RetryLimit
  /\ syntaxErrors \in 0 .. MaxSyntaxErrors
  /\ progress \in [kind : {"none", "local", "platform", "quality"},
                   code : Code \cup {None}, count : 0 .. NoProgressLimit]
  /\ submissions \in Seq([code : Code, result : Results])
  /\ credited \in Seq(1 .. MaxIterations)

LoopInit ==
  /\ stage = "loop" /\ iteration = 0 /\ code \in Code
  /\ lastSubmitted = None /\ pending = 0
  /\ skipped = {} /\ skips = 0 /\ skipDisabled = FALSE
  /\ retries = 0 /\ retryTotal = 0 /\ uncertain = 0 /\ syntaxErrors = 0
  /\ progress = NoProgress
  /\ submissions = <<>> /\ credited = <<>>

-----------------------------------------------------------------------------
(* The start of a turn, up to the submission.                              *)

Turn ==
  /\ stage = "loop" /\ iteration < MaxIterations
  /\ iteration' = iteration + 1

\* track_no_progress: how often in a row the same code met the same trouble.
Tracked(previous, kind) ==
  [kind |-> kind, code |-> code,
   count |-> IF previous.kind = kind /\ previous.code = code
             THEN previous.count + 1 ELSE 1]

Stuck == progress'.count >= NoProgressLimit

\* The model writes code, the same or another, or its client raises, which
\* nothing in the loop catches.
Rewritten == (code' \in Code /\ stage' = "loop") \/ (UNCHANGED code /\ stage' = "raised")

\* A placeholder or a syntax error is repaired before the platform sees it.
LocalRepair ==
  /\ Turn /\ code \in Invalid
  /\ progress' = Tracked(progress, "local")
  /\ syntaxErrors' = IF Stuck THEN syntaxErrors ELSE syntaxErrors + 1
  /\ IF Stuck \/ syntaxErrors' >= MaxSyntaxErrors
     THEN stage' = "failed" /\ UNCHANGED code
     ELSE Rewritten
  /\ UNCHANGED <<lastSubmitted, pending, checkVars, retryVars, historyVars>>

\* Too close to a favorited alpha: made different, locally or by the model.
CorrelationRepair ==
  /\ Turn /\ code \notin Invalid
  /\ Rewritten
  /\ UNCHANGED <<lastSubmitted, pending, checkVars, retryVars, syntaxErrors,
                 progress, historyVars>>

RegenerateSkipped ==
  /\ Turn /\ code \in skipped \ Invalid
  /\ Rewritten
  /\ pending' = IF stage' = "loop" THEN 0 ELSE pending
  /\ UNCHANGED <<lastSubmitted, checkVars, retryVars, syntaxErrors, progress,
                 historyVars>>

DuplicateRepair ==
  /\ Turn /\ code \notin Invalid \cup skipped
  /\ code = lastSubmitted
  /\ Rewritten
  /\ UNCHANGED <<lastSubmitted, pending, checkVars, retryVars, syntaxErrors,
                 progress, historyVars>>

\* Mutant: consecutive duplicates are not looked for.
SubmittableAlways == code \notin Invalid \cup skipped

Submittable == code \notin Invalid \cup skipped /\ code # lastSubmitted

\* Mutant: the simulator may skip what is not a pending mutation.
SkipsAnything == TRUE

\* should_skip skips pending mutations only.
MaySkip == pending # 0 /\ ~skipDisabled

\* The simulator of the experimental evolution mode keeps a mutation from the
\* platform.  last_submitted_fingerprint takes a code that was not submitted.
SimulatorSkip ==
  /\ Turn /\ Submittable /\ MaySkip
  /\ skipped' = skipped \cup {code}
  /\ skips' = skips + 1
  /\ skipDisabled' = (skips' >= SkipLimit)
  /\ pending' = 0
  /\ lastSubmitted' = code
  /\ UNCHANGED <<stage, code, retryVars, syntaxErrors, progress, historyVars>>

\* run_platform_backtest_attempt is called.
Submit ==
  /\ Turn /\ Submittable
  /\ skips' = 0
  /\ submissions' = Append(submissions, [code |-> code, result |-> "waiting"])
  /\ stage' = "waiting"
  /\ UNCHANGED <<code, lastSubmitted, pending, skipped, skipDisabled, retryVars,
                 syntaxErrors, progress, credited>>

-----------------------------------------------------------------------------
(* What the result does.                                                   *)

Result(r) ==
  /\ stage = "waiting"
  /\ submissions' = [submissions EXCEPT ![Len(submissions)].result = r]

\* The browser could not be opened, or another exception left the attempt.
AttemptRaises ==
  /\ stage = "waiting"
  /\ stage' = "raised"
  /\ UNCHANGED <<iteration, code, lastSubmitted, pending, checkVars, retryVars,
                 syntaxErrors, progress, historyVars>>

\* A backtest that did not show a dependable result, reported as an error or
\* not: the same code once more, and no feedback.
ResultUncertain(ok) ==
  /\ Result("uncertain")
  /\ uncertain' = uncertain + 1
  /\ IF uncertain' >= RetryLimit
     THEN stage' = "failed" /\ lastSubmitted' = code
     ELSE stage' = "loop" /\ lastSubmitted' = None
  /\ IF ok
     THEN retries' = 0 /\ retryTotal' = 0 /\ progress' = NoProgress /\ syntaxErrors' = 0
     ELSE UNCHANGED <<retries, retryTotal, progress, syntaxErrors>>
  /\ UNCHANGED <<iteration, code, pending, checkVars, credited>>

\* The browser failed: the same code once more.  After HardRecovery failures
\* in a row a page is reloaded first, which may raise.
AutomationError ==
  /\ Result("automation")
  /\ retryTotal' = retryTotal + 1
  /\ IF retryTotal' >= RetryLimit
     THEN stage' = "failed" /\ retries' = retries + 1 /\ lastSubmitted' = code
     ELSE IF retries + 1 < HardRecovery
     THEN stage' = "loop" /\ retries' = retries + 1 /\ lastSubmitted' = None
     ELSE \/ stage' = "loop" /\ retries' = 0 /\ lastSubmitted' = None
          \/ stage' = "raised" /\ retries' = retries + 1 /\ lastSubmitted' = code
  /\ UNCHANGED <<iteration, code, pending, checkVars, uncertain, syntaxErrors,
                 progress, credited>>

Credit == credited' = IF pending = 0 THEN credited ELSE Append(credited, pending)

\* Mutant: the mutation stays pending when the platform refused its code.
PendingAfterError == pending

PendingAfterFailure == 0

\* The platform refuses the code, or the correlation red line does at the last
\* moment: a pending mutation is recorded with a reward of -0.5, the code is
\* repaired.
PlatformError ==
  /\ Result("error")
  /\ lastSubmitted' = code
  /\ retries' = 0
  /\ \E syntax \in BOOLEAN :
       syntaxErrors' = IF syntax THEN syntaxErrors + 1 ELSE syntaxErrors
  /\ IF syntaxErrors' > syntaxErrors /\ syntaxErrors' >= MaxSyntaxErrors
     THEN stage' = "failed" /\ UNCHANGED <<code, progress, pending, credited>>
     ELSE /\ progress' = Tracked(progress, "platform")
          /\ IF Stuck
             THEN stage' = "failed" /\ UNCHANGED <<code, pending, credited>>
             ELSE Credit /\ pending' = PendingAfterFailure /\ Rewritten
  /\ UNCHANGED <<iteration, checkVars, retryTotal, uncertain>>

\* What every dependable result resets, and the reward it brings.
Feedback ==
  /\ lastSubmitted' = code
  /\ retries' = 0 /\ retryTotal' = 0 /\ uncertain' = 0 /\ syntaxErrors' = 0
  /\ Credit

\* quality.passed or template_success.
Passed ==
  /\ Result("passed")
  /\ Feedback
  /\ pending' = 0 /\ progress' = NoProgress
  /\ stage' = "success"
  /\ UNCHANGED <<iteration, code, checkVars>>

\* The quality fails: the code is mutated, or the mutation is refused twice and
\* the parent, which may be any code of the pool, is next.
QualityFailed ==
  /\ Result("quality_failed")
  /\ Feedback
  /\ progress' = Tracked(NoProgress, "quality")
  /\ IF Stuck
     THEN stage' = "failed" /\ pending' = 0 /\ UNCHANGED code
     ELSE /\ Rewritten
          /\ pending' \in IF stage' = "loop" THEN {0, iteration} ELSE {0}
  /\ UNCHANGED <<iteration, checkVars>>

\* The loop is over: success is looked for in the last result and then on the
\* platform's page, or the template has failed.
FinalRecovery ==
  /\ stage = "loop" /\ iteration = MaxIterations
  /\ stage' \in {"success", "failed", "raised"}
  /\ UNCHANGED <<iteration, code, lastSubmitted, pending, checkVars, retryVars,
                 syntaxErrors, progress, historyVars>>

Check ==
  \/ LocalRepair \/ CorrelationRepair \/ RegenerateSkipped \/ DuplicateRepair
  \/ SimulatorSkip \/ Submit

HandleResult ==
  \/ AttemptRaises \/ AutomationError \/ PlatformError \/ Passed \/ QualityFailed
  \/ \E ok \in BOOLEAN : ResultUncertain(ok)

LoopNext == Check \/ HandleResult \/ FinalRecovery

LoopSpec == LoopInit /\ [][LoopNext]_loopVars

-----------------------------------------------------------------------------
(* Properties.                                                             *)

\* A mutation is rewarded at most once, however often its code is retried,
\* repaired or refused before a result is dependable.
CreditedOnce ==
  \A i, j \in DOMAIN credited : i < j => credited[i] < credited[j]

\* The simulator never skips twice without a submission in between: a skip
\* leaves no pending mutation behind, and only a result makes the next one.
SkipsNeverConsecutive == skips <= 1

Dependable == {"error", "quality_failed", "passed"}

RepeatedAfter(i) ==
  /\ i < Len(submissions) /\ submissions[i].result \in Dependable
  /\ submissions[i].code = submissions[i + 1].code

\* Unless the simulator has skipped a code before, two submissions in a row
\* are of different codes, or the first one had no dependable result.
RepeatsOnlyAfterSkip ==
  (\E i \in DOMAIN submissions : RepeatedAfter(i)) => skipped # {}
=============================================================================
