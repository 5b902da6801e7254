-------------------------- MODULE RewardMigration --------------------------
(***************************************************************************)
(* The move from the legacy reward to the V2 reward (reward_migration/).   *)
(* Every mutation result is one generation: MigrationController.           *)
(* blend_reward reads the shadow history and the candidate pool, judges    *)
(* them healthy or not, counts streaks, moves the phase, chooses the       *)
(* weights, saves the snapshot to the state file and returns the blended   *)
(* reward.  An exception anywhere makes RewardEngine.calculate_reward fall *)
(* back to the legacy reward.                                              *)
(*                                                                         *)
(* Weights are in hundredths.  The monitors' numbers are abstracted to the *)
(* verdict they amount to: no risk flag, a moderate one, a flag that asks  *)
(* for a rollback, or one of those that rollback_snapshot calls severe.    *)
(***************************************************************************)
EXTENDS Integers

CONSTANTS
  MinSamples,       \* min_sample_size of both monitors (8)
  MinHybrid,        \* min_hybrid_samples (12)
  Advance,          \* healthy_streak_to_advance (3)
  HistoryLimit,     \* rows of the shadow history that are read (160)
  PoolSizes,        \* the sizes of the pool and the lineage tried
  AdaptiveWeights,  \* the legacy weights the adaptive controller may compute
  MaxHealthy,       \* bound: healthy generations that are counted
  MaxRollbacks      \* bound: rollbacks the state file counts

ASSUME MigrationAssumption ==
  /\ MinSamples \in Nat /\ MinHybrid \in Nat /\ HistoryLimit \in Nat
  /\ Advance \in Nat \ {0} /\ MaxHealthy \in Nat /\ MaxRollbacks \in Nat
  /\ PoolSizes \subseteq Nat
  /\ AdaptiveWeights \subseteq 15 .. 85 /\ 85 \in AdaptiveWeights

Hybrid == {"early_hybrid", "mid_hybrid", "late_hybrid"}
Phase  == Hybrid \cup {"shadow", "rollback"}
Verdict == {"clean", "moderate", "rollback", "severe"}

Flagged(v) == v \in {"rollback", "severe"}   \* _should_rollback

VARIABLES
  file,       \* the snapshot in the state file: phase, v2 weight, streak, rollbacks
  history,    \* rows of reward_shadow.jsonl, up to HistoryLimit
  adaptive,   \* enable_adaptive_legacy of the engine at work
  last,       \* the last generation: its verdict and the V2 weight of its reward
  calm,       \* history: consecutive healthy generations
  since,      \* history: healthy generations since a rollback was last saved
  forgotten   \* history: an unhealthy generation could not be saved, nor one after it

vars == <<file, history, adaptive, last, calm, since, forgotten>>

TypeOK ==
  /\ file \in [phase : Phase, v2 : 0 .. 100, healthy : Nat, rollbacks : Nat]
  /\ history \in 0 .. HistoryLimit
  /\ adaptive \in BOOLEAN
  /\ last \in [verdict : Verdict, v2 : 0 .. 100]
  /\ calm \in Nat /\ since \in Nat
  /\ forgotten \in BOOLEAN

LeastOf(a, b)    == IF a <= b THEN a ELSE b
GreatestOf(a, b) == IF a >= b THEN a ELSE b

\* MigrationSnapshot(), which load returns when there is no readable file.
Default == [phase |-> "shadow", v2 |-> 0, healthy |-> 0, rollbacks |-> 0]

Init ==
  /\ file = Default /\ history = 0 /\ adaptive \in BOOLEAN
  /\ last = [verdict |-> "clean", v2 |-> 0]
  /\ calm = 0 /\ since = 0 /\ forgotten = FALSE

-----------------------------------------------------------------------------
(* The verdict and the phase.                                              *)

\* What a generation sees: the verdict, the rows of the shadow history it can
\* read, and the samples of the population.  PopulationHealthMonitor and
\* RewardStabilityMonitor: healthy and stable.  With too few samples a
\* generation is unhealthy without any risk flag.
Healthy(seen) ==
  /\ seen.verdict = "clean"
  /\ seen.samples >= MinSamples /\ seen.rows >= MinSamples

\* Mutant: only what asks for a rollback ends a streak.
WithStreaksKept(s, seen) ==
  [s EXCEPT !.healthy = IF Healthy(seen) THEN @ + 1
                        ELSE IF ~Flagged(seen.verdict) THEN @ ELSE 0]

WithStreaks(s, seen) ==
  [s EXCEPT !.healthy = IF Healthy(seen) THEN @ + 1 ELSE 0]

\* _next_state.  The streak is not reset by a transition.
NextPhase(s, seen) ==
  LET rest == s.phase = "rollback" \/ ~Healthy(seen) \/ seen.samples < MinHybrid
      enough(k) == ~rest /\ s.healthy >= k * Advance
  IN  IF s.phase = "rollback" /\ s.healthy >= Advance THEN "shadow"
      ELSE IF s.phase = "shadow" /\ enough(1)         THEN "early_hybrid"
      ELSE IF s.phase = "early_hybrid" /\ enough(2)   THEN "mid_hybrid"
      ELSE IF s.phase = "mid_hybrid" /\ enough(3)     THEN "late_hybrid"
      ELSE s.phase

-----------------------------------------------------------------------------
(* The weights.                                                            *)

\* normalize_weights: SHADOW is all legacy, a hybrid legacy weight is between
\* 15 and 85, and the two weights add up to 100.
Normalize(legacy, v2, phase) ==
  LET share == (100 * v2) \div (legacy + v2)
  IN  IF phase = "shadow" THEN 0
      ELSE IF phase = "rollback" THEN share
      ELSE GreatestOf(15, LeastOf(85, share))

\* transition: default_weights_for_state of the phase entered.
TransitionWeight(phase, v2) ==
  LET legacy == 100 - v2
  IN  IF phase = "early_hybrid"
      THEN Normalize(GreatestOf(legacy, 90), GreatestOf(v2, 10), phase)
      ELSE IF phase = "mid_hybrid"
      THEN Normalize(LeastOf(GreatestOf(legacy, 45), 75), GreatestOf(v2, 25), phase)
      ELSE IF phase = "late_hybrid"
      THEN Normalize(LeastOf(GreatestOf(legacy, 15), 45), GreatestOf(v2, 55), phase)
      ELSE 0

Transition(s, phase) ==
  [s EXCEPT !.phase = phase, !.v2 = TransitionWeight(phase, s.v2)]

\* Mutant: the streak survives a rollback.
RollbackSnapshotKeepsStreak(s, severe) ==
  [phase |-> "rollback", v2 |-> IF severe THEN 0 ELSE GreatestOf(0, s.v2 - 25),
   healthy |-> s.healthy, rollbacks |-> s.rollbacks + 1]

RollbackSnapshot(s, severe) ==
  [phase |-> "rollback", v2 |-> IF severe THEN 0 ELSE GreatestOf(0, s.v2 - 25),
   healthy |-> 0, rollbacks |-> s.rollbacks + 1]

\* AdaptiveWeightScheduler.next_weights and _state_cap.  FULL_V2, which nothing
\* enters, is taken as LATE_HYBRID.
Floor == [shadow |-> 0, early_hybrid |-> 10, mid_hybrid |-> 30, late_hybrid |-> 60,
          full_v2 |-> 60, rollback |-> 0]

Cap == [shadow |-> 100, early_hybrid |-> 30, mid_hybrid |-> 60, late_hybrid |-> 85,
        full_v2 |-> 85, rollback |-> 10]

\* Mutant: the weight a rollback starts from is not limited.
StartUnlimited(s) == GreatestOf(s.v2, Floor[s.phase])

\* Where AdaptiveWeightScheduler starts from.
Start(s) ==
  IF s.phase = "rollback" THEN LeastOf(s.v2, Cap.rollback)
                          ELSE GreatestOf(s.v2, Floor[s.phase])

\* AdaptiveWeightScheduler.next_weights: every flag that asks for a rollback
\* is severe here.
Scheduled(s, seen) ==
  LET v2 == IF Flagged(seen.verdict) THEN GreatestOf(0, Start(s) - 25)
            ELSE IF seen.verdict = "moderate" THEN GreatestOf(0, Start(s) - 10)
            ELSE IF Healthy(seen) THEN LeastOf(Cap[s.phase], Start(s) + 5)
            ELSE Start(s)
  IN  Normalize(100 - v2, v2, s.phase)

\* AdaptiveLegacyController.compute_legacy_weight: 100 - 40 corr - 30 entropy -
\* 20 diversity + 20 per rollback, and more; the first three are at most one.
LegacyFloor(rollbacks) == GreatestOf(15, LeastOf(85, 10 + 20 * rollbacks))

Adapted(s) ==
  { Normalize(w, 100 - w, s.phase) :
      w \in {w \in AdaptiveWeights : w >= LegacyFloor(s.rollbacks)} }

\* Mutant: the adaptive controller also decides during a rollback.
WeightsAlwaysAdaptive(s, seen) ==
  IF s.phase = "shadow" THEN {0}
  ELSE IF ~adaptive THEN {Scheduled(s, seen)}
  ELSE Adapted(s)

\* _next_weights.
Weights(s, seen) ==
  IF s.phase = "shadow" THEN {0}
  ELSE IF s.phase = "rollback" \/ ~adaptive THEN {Scheduled(s, seen)}
  ELSE Adapted(s)

-----------------------------------------------------------------------------
(* The operations.                                                         *)

\* The snapshot after the streaks, and the rollback, the hold or the phase.
Moved(seen) ==
  LET s == WithStreaks(file, seen)
  IN  IF Flagged(seen.verdict)
      THEN IF s.phase = "rollback" THEN s ELSE RollbackSnapshot(s, seen.verdict = "severe")
      ELSE LET p == NextPhase(s, seen)
           IN  IF p = s.phase THEN s ELSE Transition(s, p)

Count(seen) ==
  calm' = IF Healthy(seen) THEN calm + 1 ELSE 0

\* blend_reward, to the end.  The row of the shadow history is appended after
\* the save, and a failure to append it is logged.
Blend(seen) ==
  LET s == Moved(seen)
  IN  /\ \E w \in Weights(s, seen) :
           /\ file' = [s EXCEPT !.v2 = w]
           /\ last' = [verdict |-> seen.verdict, v2 |-> w]
      /\ history' \in {history, LeastOf(history + 1, HistoryLimit)}
      /\ since' = IF Flagged(seen.verdict) THEN 0
                  ELSE IF Healthy(seen) THEN since + 1 ELSE since
      /\ forgotten' = (forgotten /\ Healthy(seen))
      /\ Count(seen)
      /\ UNCHANGED adaptive

\* The save is refused (OSError, lock timeout) or something before it raises:
\* the engine returns the legacy reward, and nothing of the generation is kept.
BlendFails(seen) ==
  /\ last' = [verdict |-> seen.verdict, v2 |-> 0]
  /\ since' = IF Healthy(seen) THEN since + 1 ELSE since
  /\ forgotten' = (forgotten \/ ~Healthy(seen))
  /\ Count(seen)
  /\ UNCHANGED <<file, history, adaptive>>

\* The rows are read from the event table or, when that fails, from the file,
\* which holds none of them.
Generation ==
  \E verdict \in Verdict, pool \in PoolSizes, rows \in {0, history} :
    LET seen == [verdict |-> verdict, rows |-> rows, samples |-> GreatestOf(pool, rows)]
    IN  /\ Healthy(seen) => calm < MaxHealthy /\ since < MaxHealthy
        /\ Flagged(seen.verdict) => file.rollbacks < MaxRollbacks
        /\ Blend(seen) \/ BlendFails(seen)

\* rollback_to_legacy, the manual guard; nothing of the workflow calls it.
RollbackToLegacy ==
  /\ file.rollbacks < MaxRollbacks
  /\ file' = RollbackSnapshot(file, TRUE)
  /\ since' = 0
  /\ UNCHANGED <<history, adaptive, last, calm, forgotten>>

\* The state file is gone, or neither it nor its backup can be read.
LoseFile ==
  /\ file # Default
  /\ file' = Default /\ forgotten' = FALSE
  /\ UNCHANGED <<history, adaptive, last, calm, since>>

\* The next template makes a new engine from the configuration.
NewEngine ==
  /\ adaptive' \in BOOLEAN
  /\ UNCHANGED <<file, history, last, calm, since, forgotten>>

Next == Generation \/ RollbackToLegacy \/ LoseFile \/ NewEngine

Spec == Init /\ [][Next]_vars

-----------------------------------------------------------------------------
(* Properties.                                                             *)

\* How many healthy generations in a row lead to a phase (_next_state:
\* 3, 6 and 9 with the default streak).
Need == [early_hybrid |-> Advance, mid_hybrid |-> 2 * Advance, late_hybrid |-> 3 * Advance]

\* A generation moves to a further hybrid phase only at the end of as many
\* healthy generations in a row as the phase needs, counted from the last
\* unhealthy one whatever was rolled back, lost or restarted in between.  Only
\* an unhealthy generation that could not be saved is not counted.
AdvanceEarned ==
  [][file'.phase \in Hybrid /\ file'.phase # file.phase /\ ~forgotten
       => calm' >= Need[file'.phase]]_vars

\* After a rollback the V2 reward comes back slowly: a hybrid phase is at least
\* one healthy generation more away than the streak that ends the rollback,
\* which itself passes through SHADOW.
ReturnIsSlow ==
  file.phase \in Hybrid /\ file.rollbacks > 0 => since >= Advance + 1

\* While the migration is rolled back V2 has at most a tenth of the reward,
\* and a twentieth for each healthy generation since the last flag, whatever
\* weight it had before and whoever chose it.
RecoveryIsGradual ==
  file.phase = "rollback" => file.v2 <= 10 /\ file.v2 <= 5 * since

\* The result of a generation that asks for a rollback is rewarded by the
\* legacy reward alone: the rollback, the hold and the failed save all leave
\* V2 without weight.
FlaggedIsLegacy == Flagged(last.verdict) => last.v2 = 0
=============================================================================
