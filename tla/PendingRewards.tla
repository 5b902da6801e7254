--------------------------- MODULE PendingRewards ---------------------------
(***************************************************************************)
(* The evolution layer of the reward: RewardEngine (reward_engine.py) over *)
(* SurvivalMemoryManager and PendingRewardManager (core/evolution/), as    *)
(* record_pending_mutation_result of the orchestrator drives it.  The      *)
(* result of a mutation settles the pending rewards that are old enough    *)
(* (released if their alpha has survived, canceled otherwise), is given    *)
(* three tenths of its reward at once, and after its survival is recorded  *)
(* leaves the other seven tenths pending under its own name.               *)
(*                                                                         *)
(* Both managers keep their data in a VersionedEvolutionMemory, abstracted *)
(* here to what a load can return: what this engine has buffered, or the   *)
(* file, which workers may still be about to overwrite with payloads they  *)
(* took earlier (module EvolutionMemory has the store itself).  Every      *)
(* template makes an engine and stores of its own over the same files.     *)
(* Amounts are abstracted to their sign.                                   *)
(***************************************************************************)
EXTENDS Integers, FiniteSets

CONSTANTS
  MaxTemplates,    \* bound: templates, each with a name of its own
  MaxIterations,   \* max_iterations of a template
  SettleAfter,     \* settle_after (5)
  ReleaseRounds,   \* release_survival_rounds (5)
  MaxLate          \* bound: payloads that workers have taken and not written

ASSUME RewardAssumption ==
  /\ MaxTemplates \in Nat \ {0} /\ MaxIterations \in Nat /\ MaxLate \in Nat
  /\ SettleAfter \in Nat \ {0} /\ ReleaseRounds \in Nat \ {0, 1}

\* alpha_id: the name of the template's alpha and the iteration; iteration 0
\* stands for the name alone, the parent of what has no other.
Key == (1 .. MaxTemplates) \X (0 .. MaxIterations)

\* What the survival memory knows of an alpha: whether it has a record, and the
\* survival_rounds in it.
Record   == [known : BOOLEAN, rounds : Nat]
Unknown  == [known |-> FALSE, rounds |-> 0]
Survival == [Key -> Record]

\* A pending reward: whose result its amount comes from, and whether the result
\* that registered it was that of a tracked mutation.
Nobody  == <<0, 0>>
Pending == [status : {"none", "pending", "released", "canceled"},
            owner : Key \cup {Nobody}, tracked : BOOLEAN]
NoReward == [status |-> "none", owner |-> Nobody, tracked |-> FALSE]
Rewards == [rows : [Key -> Pending], injected : Nat, decayed : 0 .. MaxIterations]

VARIABLES
  template,   \* the template at work
  iteration,  \* and its iteration, the generation of everything recorded in it
  step,       \* of record_pending_mutation_result: "idle", "calculated",
              \* "survived"
  result,     \* the result being recorded: tracked, passed, parent
  base,       \* last_evolution_metadata: the owner of a positive reward, or none
  layer,      \* what the last calculation took from the two memories
  pool,       \* alphas in the candidate pool
  surv,       \* the stores: [buffer, file, late]
  rewards

vars == <<template, iteration, step, result, base, layer, pool, surv, rewards>>

\* A store over contents C; buffer is empty when _pending_payload is None.
Store(C) == [buffer : SUBSET C, file : C, late : SUBSET C]

TypeOK ==
  /\ template \in 1 .. MaxTemplates /\ iteration \in 0 .. MaxIterations
  /\ step \in {"idle", "calculated", "survived"}
  /\ result \in [tracked : BOOLEAN, passed : BOOLEAN, parent : Key]
  /\ base \in Key \cup {Nobody}
  /\ layer \in [known : BOOLEAN, injected : Nat]
  /\ pool \subseteq Key
  /\ surv \in Store(Survival) /\ rewards \in Store(Rewards)

NoResult == [tracked |-> FALSE, passed |-> FALSE, parent |-> <<1, 0>>]

\* load_payload and save_payload.
Loaded(s)   == IF s.buffer = {} THEN s.file ELSE CHOOSE c \in s.buffer : TRUE
Saved(s, c) == [s EXCEPT !.buffer = {c}]

Init ==
  /\ template = 1 /\ iteration = 0 /\ step = "idle"
  /\ result = NoResult
  /\ base = Nobody /\ layer = [known |-> FALSE, injected |-> 0] /\ pool = {}
  /\ surv = [buffer |-> {}, file |-> [k \in Key |-> Unknown], late |-> {}]
  /\ rewards = [buffer |-> {}, late |-> {},
                file |-> [rows |-> [k \in Key |-> NoReward], injected |-> 0, decayed |-> 0]]

Id == <<template, iteration>>

-----------------------------------------------------------------------------
(* The orchestrator.                                                       *)

\* An iteration begins.  One that ends without a result records nothing.
Iterate ==
  /\ step = "idle" /\ iteration < MaxIterations
  /\ iteration' = iteration + 1
  /\ UNCHANGED <<template, step, result, base, layer, pool, surv, rewards>>

\* Mutant: the engine, and with it the metadata of its last calculation, is
\* kept for the next template.
KeptEngine == base' = base

NewEngine == base' = Nobody

Left(s) == [buffer |-> {}, file |-> s.file, late |-> s.late \cup s.buffer]

LateCount == Cardinality(surv.late) + Cardinality(rewards.late)

\* The next template, whatever ended this one, in the same process; the old
\* stores' threads still write what they hold.
NextTemplate ==
  /\ template < MaxTemplates
  /\ LateCount + Cardinality(surv.buffer) + Cardinality(rewards.buffer) <= MaxLate
  /\ template' = template + 1 /\ iteration' = 0 /\ step' = "idle" /\ result' = NoResult
  /\ NewEngine
  /\ surv' = Left(surv) /\ rewards' = Left(rewards)
  /\ UNCHANGED <<layer, pool>>

\* The process dies, and with it everything that is not in the files; the run
\* continues with the next template, under a new name.
Crash ==
  /\ template < MaxTemplates
  /\ template' = template + 1 /\ iteration' = 0 /\ step' = "idle" /\ result' = NoResult
  /\ NewEngine
  /\ surv' = [buffer |-> {}, file |-> surv.file, late |-> {}]
  /\ rewards' = [buffer |-> {}, file |-> rewards.file, late |-> {}]
  /\ UNCHANGED <<layer, pool>>

-----------------------------------------------------------------------------
(* RewardEngine.calculate_reward.                                          *)

\* Mutant: the survival is kept under the name of the alpha, so that the
\* iterations of a template add up.
SubjectIsName(k) == <<k[1], 0>>

\* The alpha_id the survival of a result is kept under.
Subject(k) == k

\* settle_rewards: the age is counted in iterations of whatever template is at
\* work.
Due(rows, k) ==
  rows[k].status = "pending" /\ iteration - k[2] >= SettleAfter

Settled(c, memory) ==
  LET due == {k \in Key : Due(c.rows, k)}
      released == {k \in due : memory[Subject(k)].rounds >= ReleaseRounds}
  IN  [rows |-> [k \in Key |->
                  IF k \in released THEN [c.rows[k] EXCEPT !.status = "released"]
                  ELSE IF k \in due THEN [c.rows[k] EXCEPT !.status = "canceled"]
                  ELSE c.rows[k]],
       injected |-> c.injected + Cardinality(released),
       decayed |-> iteration]

\* settle_rewards saves only what it has changed, and without any row does
\* nothing.
Settle ==
  LET c == Loaded(rewards)
      s == Settled(c, Loaded(surv))
  IN  rewards' = IF s = c \/ \A k \in Key : c.rows[k] = NoReward
                 THEN rewards ELSE Saved(rewards, s)

\* The result of a tracked mutation: the long-term score is computed from the
\* alpha's survival record, if there is one, the adjustment from the
\* reinforcement of the rewards released so far.  The candidate is added after.
CalculateReward ==
  /\ step = "idle" /\ iteration > 0 /\ Id \notin pool
  /\ \E positive \in BOOLEAN, passed \in BOOLEAN, parent \in pool \cup {<<template, 0>>} :
       /\ result' = [tracked |-> TRUE, passed |-> passed, parent |-> parent]
       /\ base' = IF positive THEN Id ELSE Nobody
  /\ layer' = [known |-> Loaded(surv)[Subject(Id)].known,
               injected |-> Settled(Loaded(rewards), Loaded(surv)).injected]
  /\ Settle
  /\ pool' = pool \cup {Id}
  /\ step' = "calculated"
  /\ UNCHANGED <<template, iteration, surv>>

\* A result without a pending mutation (the first, or one after a failure)
\* calculates nothing; the metadata stays that of the last calculation.
Untracked ==
  /\ step = "idle" /\ iteration > 0 /\ Id \notin pool
  /\ \E passed \in BOOLEAN :
       result' = [tracked |-> FALSE, passed |-> passed, parent |-> <<template, 0>>]
  /\ pool' = pool \cup {Id}
  /\ step' = "calculated"
  /\ UNCHANGED <<template, iteration, base, layer, surv, rewards>>

-----------------------------------------------------------------------------
(* RewardEngine.record_evolution_feedback.                                 *)

Known(memory, k) == [memory EXCEPT ![k].known = TRUE]

RegisterAlpha(memory) == Known(memory, Subject(Id))

UpdateSurvival(memory) ==
  LET known == Known(memory, Subject(Id))
  IN  IF result.passed THEN [known EXCEPT ![Subject(Id)].rounds = @ + 1] ELSE known

\* Mutant: a child that passes counts as another round of its parent.
ParentSurvives(memory) ==
  IF result.passed THEN [Known(memory, result.parent) EXCEPT ![result.parent].rounds = @ + 1]
  ELSE memory

\* The parent may be an alpha of a template long ended.  Its record is made if
\* there is none; children_success is left out.
IncrementChildrenSuccess(memory) ==
  IF result.passed THEN Known(memory, result.parent) ELSE memory

\* Three loads and saves; what a worker could take in between is left out.
RecordSurvival ==
  /\ step = "calculated"
  /\ surv' = Saved(surv, IncrementChildrenSuccess(UpdateSurvival(RegisterAlpha(Loaded(surv)))))
  /\ step' = "survived"
  /\ UNCHANGED <<template, iteration, result, base, layer, pool, rewards>>

\* Only a positive amount is registered, over any record of the same name.
RegisterPendingReward ==
  /\ step = "survived"
  /\ LET c == Loaded(rewards)
         record == [status |-> "pending", owner |-> base, tracked |-> result.tracked]
     IN  rewards' = IF base = Nobody THEN rewards
                    ELSE Saved(rewards, [c EXCEPT !.rows[Id] = record])
  /\ step' = "idle" /\ result' = NoResult
  /\ UNCHANGED <<template, iteration, base, layer, pool, surv>>

-----------------------------------------------------------------------------
(* The threads of the stores.                                              *)

Taken(s, t) ==
  /\ s.buffer # {} /\ LateCount < MaxLate
  /\ t = [s EXCEPT !.buffer = {}, !.late = @ \cup s.buffer]

\* A worker writes what it took, or fails to and drops it.
Written(s, t) ==
  \E c \in s.late : \/ t = [s EXCEPT !.file = c, !.late = @ \ {c}]
                    \/ t = [s EXCEPT !.late = @ \ {c}]

Flush ==
  /\ \/ (Taken(surv, surv') \/ Written(surv, surv')) /\ UNCHANGED rewards
     \/ (Taken(rewards, rewards') \/ Written(rewards, rewards')) /\ UNCHANGED surv
  /\ UNCHANGED <<template, iteration, step, result, base, layer, pool>>

Next ==
  \/ Iterate \/ NextTemplate \/ Crash
  \/ CalculateReward \/ Untracked \/ RecordSurvival \/ RegisterPendingReward
  \/ Flush

Spec == Init /\ [][Next]_vars

-----------------------------------------------------------------------------
(* Properties.                                                             *)

Contents(s) == {s.file} \cup s.late \cup s.buffer

\* No reward is ever released: an alpha is recorded once, under the name of
\* its template and iteration, so that it never survives the rounds a release
\* asks for, and the delayed part of every reward is canceled.
NothingIsReleased ==
  \A c \in Contents(rewards) :
    c.injected = 0 /\ \A k \in Key : c.rows[k].status # "released"

\* Hence what the evolution layer adds to a reward is nothing: when the reward
\* of a result is calculated its alpha has no survival record yet, and no
\* released reward has reinforced anything, whatever order the files of
\* earlier templates were written in.
LayerAddsNothing == ~layer.known /\ layer.injected = 0

\* A pending reward comes from the template it is registered for, and that of
\* a tracked mutation from its own result.  An untracked result may inherit
\* the reward of an earlier iteration.
BaseOfThisTemplate ==
  \A c \in Contents(rewards), k \in Key :
    LET r == c.rows[k]
    IN  r.status # "none" =>
          r.owner[1] = k[1] /\ r.owner[2] <= k[2] /\ (r.tracked => r.owner = k)
=============================================================================
