----------------------- MODULE RewardMigrationProofs -----------------------
(***************************************************************************)
(* Proofs about RewardMigration, for every streak, sample limit and set of *)
(* adaptive weights.  The inductive invariant adds to the properties what  *)
(* the snapshot's streak says about the generations that really happened.  *)
(***************************************************************************)
EXTENDS RewardMigration, TLAPS

\* The streak in the state file counts generations that happened, one after
\* another, since the last unhealthy one that was saved and since the last
\* rollback; and SHADOW follows a rollback only after a whole streak.
StreakCounts ==
  /\ ~forgotten => file.healthy <= calm
  /\ file.rollbacks > 0 => file.healthy <= since
  /\ file.rollbacks > 0 /\ file.phase = "shadow" => since >= Advance

IInv ==
  /\ TypeOK /\ StreakCounts
  /\ ReturnIsSlow /\ RecoveryIsGradual /\ FlaggedIsLegacy

-----------------------------------------------------------------------------
(* The weights.                                                            *)

\* A share of two weights is a number of hundredths.
LEMMA ShareBounded ==
  ASSUME NEW l \in Nat, NEW v \in Nat, l + v > 0
  PROVE  (100 * v) \div (l + v) \in 0 .. 100
<1> DEFINE d == l + v
           q == (100 * v) \div d
<1>1. d \in Nat /\ d > 0 /\ v <= d
  OBVIOUS
<1>2. q \in Int /\ d * q <= 100 * v /\ 100 * v < d * (q + 1)
  BY <1>1, Z3
<1>3. q <= 100
  BY <1>1, <1>2, Z3
<1>4. q >= 0
  BY <1>1, <1>2, Z3
<1> QED
  BY <1>2, <1>3, <1>4

\* normalize_weights yields hundredths.
LEMMA NormalizeType ==
  ASSUME NEW l \in Nat, NEW v \in Nat, l + v > 0, NEW phase \in Phase
  PROVE  Normalize(l, v, phase) \in 0 .. 100
BY ShareBounded DEF Normalize, GreatestOf, LeastOf, Phase, Hybrid

\* Two weights that add up to 100 are left as they are in a rollback.
LEMMA NormalizeRollback ==
  ASSUME NEW v \in 0 .. 100
  PROVE  Normalize(100 - v, v, "rollback") = v
BY DEF Normalize

\* transition yields hundredths.
LEMMA TransitionType ==
  ASSUME NEW v \in 0 .. 100, NEW phase \in Phase
  PROVE  TransitionWeight(phase, v) \in 0 .. 100
<1>1. /\ GreatestOf(100 - v, 90) \in Nat /\ GreatestOf(v, 10) \in Nat
      /\ GreatestOf(100 - v, 90) + GreatestOf(v, 10) > 0
  BY DEF GreatestOf
<1>2. /\ LeastOf(GreatestOf(100 - v, 45), 75) \in Nat /\ GreatestOf(v, 25) \in Nat
      /\ LeastOf(GreatestOf(100 - v, 45), 75) + GreatestOf(v, 25) > 0
  BY DEF GreatestOf, LeastOf
<1>3. /\ LeastOf(GreatestOf(100 - v, 15), 45) \in Nat /\ GreatestOf(v, 55) \in Nat
      /\ LeastOf(GreatestOf(100 - v, 15), 45) + GreatestOf(v, 55) > 0
  BY DEF GreatestOf, LeastOf
<1> QED
  BY <1>1, <1>2, <1>3, NormalizeType DEF TransitionWeight

Snapshot == [phase : Phase, v2 : 0 .. 100, healthy : Nat, rollbacks : Nat]

\* What AdaptiveWeightScheduler computes from a snapshot; for a rollback also
\* the number itself.
LEMMA ScheduledType ==
  ASSUME NEW s \in Snapshot, NEW seen
  PROVE  Scheduled(s, seen) \in 0 .. 100
<1> DEFINE v2 == IF Flagged(seen.verdict) THEN GreatestOf(0, Start(s) - 25)
                 ELSE IF seen.verdict = "moderate" THEN GreatestOf(0, Start(s) - 10)
                 ELSE IF Healthy(seen) THEN LeastOf(Cap[s.phase], Start(s) + 5)
                 ELSE Start(s)
<1>1. Start(s) \in 0 .. 100 /\ Cap[s.phase] \in 0 .. 100
  BY DEF Start, Cap, Floor, Snapshot, Phase, Hybrid, GreatestOf, LeastOf
<1>2. v2 \in 0 .. 100
  BY <1>1 DEF GreatestOf, LeastOf
<1>3. 100 - v2 \in Nat /\ v2 \in Nat /\ (100 - v2) + v2 > 0
  BY <1>2
<1> HIDE DEF v2
<1>4. Normalize(100 - v2, v2, s.phase) \in 0 .. 100
  BY <1>3, NormalizeType DEF Snapshot
<1> QED
  BY <1>4 DEF Scheduled, v2

LEMMA ScheduledRollback ==
  ASSUME NEW s \in Snapshot, NEW seen, s.phase = "rollback"
  PROVE  /\ Flagged(seen.verdict) /\ s.v2 <= 100 => Scheduled(s, seen) = 0
         /\ Scheduled(s, seen) <= 10
         /\ Healthy(seen) => Scheduled(s, seen) <= s.v2 + 5
         /\ ~Healthy(seen) => Scheduled(s, seen) <= s.v2
<1> DEFINE v2 == IF Flagged(seen.verdict) THEN GreatestOf(0, Start(s) - 25)
                 ELSE IF seen.verdict = "moderate" THEN GreatestOf(0, Start(s) - 10)
                 ELSE IF Healthy(seen) THEN LeastOf(Cap[s.phase], Start(s) + 5)
                 ELSE Start(s)
<1>1. s.v2 \in 0 .. 100 /\ Cap[s.phase] = 10 /\ Start(s) = LeastOf(s.v2, 10)
  BY DEF Start, Cap, Snapshot
<1>2. /\ v2 \in 0 .. 10
      /\ Flagged(seen.verdict) => v2 = 0
      /\ Healthy(seen) => v2 <= s.v2 + 5
      /\ ~Healthy(seen) => v2 <= s.v2
  BY <1>1 DEF GreatestOf, LeastOf, Healthy, Flagged
<1>3. Scheduled(s, seen) = Normalize(100 - v2, v2, "rollback")
  BY DEF Scheduled
<1> HIDE DEF v2
<1>4. v2 \in 0 .. 100
  BY <1>2
<1>5. Scheduled(s, seen) = v2
  BY <1>3, <1>4, NormalizeRollback
<1> QED
  BY <1>2, <1>5

\* _next_weights yields hundredths.
LEMMA WeightsType ==
  ASSUME NEW s \in Snapshot, NEW seen, NEW w \in Weights(s, seen)
  PROVE  w \in 0 .. 100
<1>1. \A a \in AdaptiveWeights : Normalize(a, 100 - a, s.phase) \in 0 .. 100
  <2> TAKE a \in AdaptiveWeights
  <2>1. a \in Nat /\ 100 - a \in Nat /\ a + (100 - a) > 0
    BY MigrationAssumption
  <2> QED
    BY <2>1, NormalizeType DEF Snapshot
<1> QED
  BY <1>1, ScheduledType DEF Weights, Adapted

-----------------------------------------------------------------------------
(* One generation.                                                         *)

\* The snapshot before the weights: its type, and where a phase comes from.
LEMMA MovedType ==
  ASSUME TypeOK, NEW seen
  PROVE  Moved(seen) \in Snapshot
<1> DEFINE s == WithStreaks(file, seen)
<1>1. s \in Snapshot
  BY DEF WithStreaks, TypeOK, Snapshot
<1>2. RollbackSnapshot(s, seen.verdict = "severe") \in Snapshot
  BY <1>1 DEF RollbackSnapshot, Snapshot, Phase, GreatestOf
<1>3. NextPhase(s, seen) \in Phase
  BY <1>1 DEF NextPhase, Snapshot, Phase, Hybrid
<1>4. TransitionWeight(NextPhase(s, seen), s.v2) \in 0 .. 100
  BY <1>1, <1>3, TransitionType DEF Snapshot
<1>5. Transition(s, NextPhase(s, seen)) \in Snapshot
  BY <1>1, <1>3, <1>4 DEF Transition, Snapshot
<1> QED
  BY <1>1, <1>2, <1>5 DEF Moved

\* A flagged generation ends in ROLLBACK without a streak, and any other keeps
\* the rollbacks and counts the streak on or ends it.
LEMMA MovedFacts ==
  ASSUME TypeOK, NEW seen
  PROVE  LET m == Moved(seen) IN
         /\ Flagged(seen.verdict) => m.phase = "rollback" /\ m.healthy = 0
         /\ ~Flagged(seen.verdict) => m.rollbacks = file.rollbacks
         /\ Healthy(seen) => m.healthy = file.healthy + 1 /\ ~Flagged(seen.verdict)
         /\ ~Healthy(seen) => m.healthy = 0
         /\ ~Flagged(seen.verdict) /\ m.phase = "rollback" => file.phase = "rollback" /\ m.v2 = file.v2
<1> DEFINE s == WithStreaks(file, seen)
<1>1. /\ s.phase = file.phase /\ s.v2 = file.v2 /\ s.rollbacks = file.rollbacks
      /\ Healthy(seen) => s.healthy = file.healthy + 1
      /\ ~Healthy(seen) => s.healthy = 0
  BY DEF WithStreaks, TypeOK
<1>2. Healthy(seen) => ~Flagged(seen.verdict)
  BY DEF Healthy, Flagged
<1>3. NextPhase(s, seen) = "rollback" => s.phase = "rollback"
  BY DEF NextPhase
<1>4. s \in Snapshot
  BY DEF WithStreaks, TypeOK, Snapshot
<1> HIDE DEF s
<1>5. CASE Flagged(seen.verdict)
  BY <1>1, <1>2, <1>4, <1>5 DEF Moved, RollbackSnapshot, s
<1>6. CASE ~Flagged(seen.verdict)
  BY <1>1, <1>3, <1>4, <1>6 DEF Moved, Transition, s, Snapshot
<1> QED
  BY <1>2, <1>5, <1>6

\* A phase further on is reached at the end of its streak, a hybrid one in a
\* healthy generation, and EARLY_HYBRID only from SHADOW.
LEMMA MovedPhase ==
  ASSUME TypeOK, NEW seen, ~Flagged(seen.verdict)
  PROVE  LET m == Moved(seen) IN
         /\ m.phase \in Hybrid /\ m.phase # file.phase =>
              /\ Healthy(seen) /\ file.healthy + 1 >= Need[m.phase]
              /\ file.phase = "shadow" \/ file.phase \in Hybrid
         /\ m.phase = "shadow" /\ file.phase # "shadow" => Healthy(seen) /\ m.healthy >= Advance
<1> DEFINE s == WithStreaks(file, seen)
           p == NextPhase(s, seen)
<1>1. /\ s.phase = file.phase
      /\ Healthy(seen) => s.healthy = file.healthy + 1
      /\ ~Healthy(seen) => s.healthy = 0
  BY DEF WithStreaks, TypeOK
<1>2. s \in Snapshot
  BY DEF WithStreaks, TypeOK, Snapshot
<1>3. Moved(seen).phase = p /\ Moved(seen).healthy = s.healthy
  <2>1. Moved(seen) = IF p = s.phase THEN s ELSE Transition(s, p)
    BY DEF Moved
  <2> QED
    BY <2>1, <1>2 DEF Transition, Snapshot
<1>4. /\ p \in Hybrid /\ p # s.phase =>
           Healthy(seen) /\ s.healthy >= Need[p] /\ (s.phase = "shadow" \/ s.phase \in Hybrid)
      /\ p = "shadow" /\ s.phase # "shadow" => s.healthy >= Advance
  <2>1. s.phase \in Phase
    BY <1>2 DEF Snapshot
  <2> HIDE DEF s
  <2> QED
    BY <2>1, MigrationAssumption DEF NextPhase, Need, Phase, Hybrid
<1>5. s.healthy >= Advance => Healthy(seen)
  BY <1>1, MigrationAssumption
<1> HIDE DEF s, p
<1> QED
  BY <1>1, <1>3, <1>4, <1>5

\* What the saved snapshot is: the moved one with its weight.
LEMMA BlendSnapshot ==
  ASSUME TypeOK, NEW seen, Blend(seen)
  PROVE  /\ file' \in Snapshot
         /\ file'.v2 \in Weights(Moved(seen), seen) /\ last'.v2 = file'.v2
         /\ last' \in [verdict : {seen.verdict}, v2 : 0 .. 100]
         /\ file'.phase = Moved(seen).phase /\ file'.healthy = Moved(seen).healthy
         /\ file'.rollbacks = Moved(seen).rollbacks
<1>1. Moved(seen) \in Snapshot
  BY MovedType
<1>2. PICK w \in Weights(Moved(seen), seen) :
        /\ file' = [Moved(seen) EXCEPT !.v2 = w]
        /\ last' = [verdict |-> seen.verdict, v2 |-> w]
  BY DEF Blend
<1>3. w \in 0 .. 100
  BY <1>1, WeightsType
<1> QED
  BY <1>1, <1>2, <1>3 DEF Snapshot

LEMMA InitIInv == ASSUME Init PROVE IInv
<1>1. file = Default /\ last = [verdict |-> "clean", v2 |-> 0]
  BY DEF Init
<1>2. TypeOK
  <2>1. file \in [phase : Phase, v2 : 0 .. 100, healthy : Nat, rollbacks : Nat]
    BY <1>1 DEF Default, Phase
  <2>2. last \in [verdict : Verdict, v2 : 0 .. 100]
    BY <1>1 DEF Verdict
  <2>3. history \in 0 .. HistoryLimit /\ calm \in Nat /\ since \in Nat
    BY MigrationAssumption DEF Init
  <2>4. adaptive \in BOOLEAN /\ forgotten \in BOOLEAN
    BY DEF Init
  <2> QED
    BY <2>1, <2>2, <2>3, <2>4 DEF TypeOK
<1>3. StreakCounts /\ ReturnIsSlow /\ RecoveryIsGradual /\ FlaggedIsLegacy
  BY <1>1 DEF Init, Default, StreakCounts, ReturnIsSlow, RecoveryIsGradual,
     FlaggedIsLegacy, Flagged, Hybrid
<1> QED
  BY <1>2, <1>3 DEF IInv

\* A generation that is saved keeps the invariant.
LEMMA BlendIInv ==
  ASSUME IInv, NEW seen, seen.verdict \in Verdict, Blend(seen)
  PROVE  IInv'
<1> DEFINE m == Moved(seen)
<1> USE DEF IInv
<1>1. m \in Snapshot /\ file \in Snapshot
  BY MovedType DEF TypeOK, Snapshot
<1>2. /\ file' \in Snapshot
      /\ file'.v2 \in Weights(m, seen) /\ last'.v2 = file'.v2
      /\ last' \in [verdict : {seen.verdict}, v2 : 0 .. 100]
      /\ file'.phase = m.phase /\ file'.healthy = m.healthy /\ file'.rollbacks = m.rollbacks
  BY BlendSnapshot
<1>3. /\ Flagged(seen.verdict) => m.phase = "rollback" /\ m.healthy = 0
      /\ ~Flagged(seen.verdict) => m.rollbacks = file.rollbacks
      /\ Healthy(seen) => m.healthy = file.healthy + 1 /\ ~Flagged(seen.verdict)
      /\ ~Healthy(seen) => m.healthy = 0
      /\ ~Flagged(seen.verdict) /\ m.phase = "rollback" => file.phase = "rollback" /\ m.v2 = file.v2
  BY MovedFacts
<1>4. /\ since' = IF Flagged(seen.verdict) THEN 0 ELSE IF Healthy(seen) THEN since + 1 ELSE since
      /\ calm' = IF Healthy(seen) THEN calm + 1 ELSE 0
      /\ forgotten' = (forgotten /\ Healthy(seen))
      /\ history' \in {history, LeastOf(history + 1, HistoryLimit)}
      /\ adaptive' = adaptive
  BY DEF Blend, Count
<1>5. since \in Nat /\ calm \in Nat /\ file.healthy \in Nat /\ Advance \in Nat /\ Advance > 0
  BY MigrationAssumption DEF TypeOK
<1> HIDE DEF m
<1>6. TypeOK'
  <2>1. file' \in [phase : Phase, v2 : 0 .. 100, healthy : Nat, rollbacks : Nat]
    BY <1>2 DEF Snapshot
  <2>2. history' \in 0 .. HistoryLimit
    BY <1>4, MigrationAssumption DEF TypeOK, LeastOf
  <2>3. last' \in [verdict : Verdict, v2 : 0 .. 100]
    BY <1>2
  <2>4. adaptive' \in BOOLEAN /\ forgotten' \in BOOLEAN
    BY <1>4 DEF TypeOK
  <2>5. calm' \in Nat /\ since' \in Nat
    BY <1>4, <1>5
  <2> QED
    BY <2>1, <2>2, <2>3, <2>4, <2>5 DEF TypeOK
<1>7. StreakCounts'
  <2>1. ASSUME ~forgotten' PROVE file'.healthy <= calm'
    <3>1. CASE Healthy(seen)
      <4>1. ~forgotten
        BY <1>4, <2>1, <3>1
      <4>2. file.healthy <= calm
        BY <4>1 DEF StreakCounts
      <4>3. file'.healthy = file.healthy + 1 /\ calm' = calm + 1
        BY <1>2, <1>3, <1>4, <3>1
      <4> QED
        BY <1>5, <4>2, <4>3
    <3>2. CASE ~Healthy(seen)
      BY <1>2, <1>3, <1>4, <1>5, <3>2
    <3> QED
      BY <3>1, <3>2
  <2>2. file'.rollbacks > 0 => file'.healthy <= since'
    BY <1>2, <1>3, <1>4, <1>5 DEF StreakCounts
  <2>3. ASSUME file'.rollbacks > 0, file'.phase = "shadow" PROVE since' >= Advance
    <3>1. ~Flagged(seen.verdict) /\ file.rollbacks > 0
      BY <1>2, <1>3, <2>3
    <3>2. CASE file.phase = "shadow"
      BY <1>4, <1>5, <3>1, <3>2 DEF StreakCounts
    <3>3. CASE file.phase # "shadow"
      <4>1. m.healthy >= Advance
        BY <1>2, <2>3, <3>1, <3>3, MovedPhase DEF m
      <4> QED
        BY <1>1, <1>2, <1>4, <1>5, <2>2, <2>3, <4>1 DEF Snapshot, TypeOK
    <3> QED
      BY <3>2, <3>3
  <2> QED
    BY <2>1, <2>2, <2>3 DEF StreakCounts
<1>8. ReturnIsSlow'
  <2> SUFFICES ASSUME file'.phase \in Hybrid, file'.rollbacks > 0
               PROVE  since' >= Advance + 1
    BY DEF ReturnIsSlow
  <2>1. ~Flagged(seen.verdict) /\ file.rollbacks > 0
    BY <1>2, <1>3 DEF Hybrid
  <2>2. CASE file.phase \in Hybrid
    BY <1>4, <1>5, <2>1, <2>2 DEF ReturnIsSlow
  <2>3. CASE file.phase \notin Hybrid
    <3>1. Healthy(seen) /\ file.phase = "shadow"
      BY <1>2, <2>1, <2>3, MovedPhase DEF m
    <3> QED
      BY <1>4, <1>5, <2>1, <3>1 DEF StreakCounts
  <2> QED
    BY <2>2, <2>3
<1>9. RecoveryIsGradual' /\ FlaggedIsLegacy'
  <2>1. CASE file'.phase = "rollback"
    <3>1. m.phase = "rollback"
      BY <1>2, <2>1
    <3>2. file'.v2 = Scheduled(m, seen)
      BY <1>2, <3>1 DEF Weights
    <3>3. /\ Flagged(seen.verdict) => Scheduled(m, seen) = 0
          /\ Scheduled(m, seen) <= 10
          /\ Healthy(seen) => Scheduled(m, seen) <= m.v2 + 5
          /\ ~Healthy(seen) => Scheduled(m, seen) <= m.v2
      BY <1>1, <3>1, ScheduledRollback DEF Snapshot
    <3>4. CASE Flagged(seen.verdict)
      BY <1>2, <1>4, <1>5, <3>2, <3>3, <3>4 DEF RecoveryIsGradual, FlaggedIsLegacy
    <3>5. CASE ~Flagged(seen.verdict)
      <4>1. file.phase = "rollback" /\ m.v2 = file.v2
        BY <1>3, <3>1, <3>5
      <4>2. file.v2 <= 5 * since
        BY <4>1 DEF RecoveryIsGradual
      <4>3. file'.v2 <= 5 * since'
        BY <1>1, <1>2, <1>4, <1>5, <3>2, <3>3, <3>5, <4>1, <4>2 DEF Snapshot
      <4>4. ~Flagged(last'.verdict)
        BY <1>2, <3>5
      <4> QED
        BY <3>2, <3>3, <4>3, <4>4 DEF RecoveryIsGradual, FlaggedIsLegacy
    <3> QED
      BY <3>4, <3>5
  <2>2. CASE file'.phase # "rollback"
    <3>1. ~Flagged(seen.verdict)
      BY <1>2, <1>3, <2>2
    <3> QED
      BY <1>2, <2>2, <3>1 DEF RecoveryIsGradual, FlaggedIsLegacy
  <2> QED
    BY <2>1, <2>2
<1> QED
  BY <1>6, <1>7, <1>8, <1>9

\* So does one that is not, and every other step.
LEMMA BlendFailsIInv ==
  ASSUME IInv, NEW seen, seen.verdict \in Verdict, BlendFails(seen)
  PROVE  IInv'
<1> USE DEF IInv
<1>1. /\ last' = [verdict |-> seen.verdict, v2 |-> 0]
      /\ since' = IF Healthy(seen) THEN since + 1 ELSE since
      /\ calm' = IF Healthy(seen) THEN calm + 1 ELSE 0
      /\ forgotten' = (forgotten \/ ~Healthy(seen))
      /\ UNCHANGED <<file, history, adaptive>>
  BY DEF BlendFails, Count
<1>2. since \in Nat /\ calm \in Nat /\ file \in Snapshot /\ Advance \in Nat
  BY MigrationAssumption DEF TypeOK, Snapshot
<1>3. calm' \in Nat /\ since' \in Nat /\ since' >= since
  BY <1>1, <1>2
<1>4. TypeOK'
  BY <1>1, <1>3 DEF TypeOK
<1>5. StreakCounts'
  <2>1. ASSUME ~forgotten' PROVE file'.healthy <= calm'
    <3>1. ~forgotten /\ Healthy(seen)
      BY <1>1, <2>1
    <3>2. file.healthy <= calm
      BY <3>1 DEF StreakCounts
    <3>3. file' = file /\ calm' = calm + 1
      BY <1>1, <3>1
    <3> QED
      BY <1>2, <3>2, <3>3 DEF Snapshot
  <2>2. /\ file'.rollbacks > 0 => file'.healthy <= since'
        /\ file'.rollbacks > 0 /\ file'.phase = "shadow" => since' >= Advance
    BY <1>1, <1>2, <1>3 DEF StreakCounts, Snapshot
  <2> QED
    BY <2>1, <2>2 DEF StreakCounts
<1>6. ReturnIsSlow' /\ RecoveryIsGradual'
  BY <1>1, <1>2, <1>3 DEF ReturnIsSlow, RecoveryIsGradual, Snapshot
<1>7. FlaggedIsLegacy'
  BY <1>1 DEF FlaggedIsLegacy
<1> QED
  BY <1>4, <1>5, <1>6, <1>7

LEMMA NextIInv == ASSUME IInv, [Next]_vars PROVE IInv'
<1>1. CASE Generation
  BY <1>1, BlendIInv, BlendFailsIInv DEF Generation
<1>2. CASE RollbackToLegacy
  <2>1. file \in Snapshot
    BY DEF IInv, TypeOK, Snapshot
  <2>2. /\ file' = [phase |-> "rollback", v2 |-> 0, healthy |-> 0, rollbacks |-> file.rollbacks + 1]
        /\ since' = 0 /\ UNCHANGED <<history, adaptive, last, calm, forgotten>>
    BY <1>2 DEF RollbackToLegacy, RollbackSnapshot
  <2> QED
    BY <2>1, <2>2 DEF IInv, TypeOK, StreakCounts, ReturnIsSlow, RecoveryIsGradual,
       FlaggedIsLegacy, Snapshot, Phase, Hybrid
<1>3. CASE LoseFile
  <2>1. /\ file' = [phase |-> "shadow", v2 |-> 0, healthy |-> 0, rollbacks |-> 0]
        /\ forgotten' = FALSE /\ UNCHANGED <<history, adaptive, last, calm, since>>
    BY <1>3 DEF LoseFile, Default
  <2>2. TypeOK'
    <3>1. file' \in [phase : Phase, v2 : 0 .. 100, healthy : Nat, rollbacks : Nat]
      BY <2>1 DEF Phase
    <3>2. forgotten' \in BOOLEAN
      BY <2>1
    <3> QED
      BY <2>1, <3>1, <3>2 DEF IInv, TypeOK
  <2>3. calm \in Nat
    BY DEF IInv, TypeOK
  <2>4. StreakCounts'
    BY <2>1, <2>3 DEF StreakCounts
  <2>5. ReturnIsSlow' /\ RecoveryIsGradual' /\ FlaggedIsLegacy'
    BY <2>1 DEF IInv, ReturnIsSlow, RecoveryIsGradual, FlaggedIsLegacy, Hybrid
  <2> QED
    BY <2>2, <2>4, <2>5 DEF IInv
<1>4. CASE NewEngine
  BY <1>4 DEF NewEngine, IInv, TypeOK, StreakCounts, ReturnIsSlow,
     RecoveryIsGradual, FlaggedIsLegacy
<1>5. CASE UNCHANGED vars
  BY <1>5 DEF vars, IInv, TypeOK, StreakCounts, ReturnIsSlow,
     RecoveryIsGradual, FlaggedIsLegacy
<1> QED
  BY <1>1, <1>2, <1>3, <1>4, <1>5 DEF Next

LEMMA Invariance == Spec => []IInv
<1>1. Init => IInv
  BY InitIInv
<1>2. IInv /\ [Next]_vars => IInv'
  BY NextIInv
<1> QED
  BY <1>1, <1>2, PTL DEF Spec

-----------------------------------------------------------------------------
(* The theorems.                                                           *)

\* Weights are hundredths and the phase is one of the five, whatever weights
\* are normalised (migration_state.py).
THEOREM TypeCorrect == Spec => []TypeOK
<1>1. IInv => TypeOK
  BY DEF IInv
<1> QED
  BY <1>1, Invariance, PTL

\* A hybrid phase is a whole streak and one generation away from a rollback.
THEOREM ReturnsSlowly == Spec => []ReturnIsSlow
<1>1. IInv => ReturnIsSlow
  BY DEF IInv
<1> QED
  BY <1>1, Invariance, PTL

\* While it is rolled back the V2 weight grows by a twentieth per healthy
\* generation, to a tenth at most.
THEOREM RecoversGradually == Spec => []RecoveryIsGradual
<1>1. IInv => RecoveryIsGradual
  BY DEF IInv
<1> QED
  BY <1>1, Invariance, PTL

\* A generation that asks for a rollback is rewarded by the legacy reward.
THEOREM FlaggedAreLegacy == Spec => []FlaggedIsLegacy
<1>1. IInv => FlaggedIsLegacy
  BY DEF IInv
<1> QED
  BY <1>1, Invariance, PTL

\* The step behind AdvanceEarned: the streak of the snapshot happened.
LEMMA AdvanceStep ==
  ASSUME IInv, [Next]_vars,
         file'.phase \in Hybrid, file'.phase # file.phase, ~forgotten
  PROVE  calm' >= Need[file'.phase]
<1>1. ~RollbackToLegacy /\ ~LoseFile /\ ~NewEngine /\ ~UNCHANGED vars
  BY DEF RollbackToLegacy, RollbackSnapshot, LoseFile, Default, NewEngine, vars, Hybrid
<1>2. PICK seen : Blend(seen)
  BY <1>1 DEF Next, Generation, BlendFails
<1>3. file'.phase = Moved(seen).phase
  BY <1>2, BlendSnapshot DEF IInv
<1>4. ~Flagged(seen.verdict)
  BY <1>3, MovedFacts DEF IInv, Hybrid
<1>5. Healthy(seen) /\ file.healthy + 1 >= Need[file'.phase]
  BY <1>3, <1>4, MovedPhase DEF IInv
<1>6. calm' = calm + 1
  BY <1>2, <1>5 DEF Blend, Count
<1>7. file.healthy <= calm /\ file.healthy \in Nat /\ calm \in Nat
  BY DEF IInv, StreakCounts, TypeOK
<1>8. Need[file'.phase] \in Nat
  BY MigrationAssumption DEF Need, Hybrid
<1> QED
  BY <1>5, <1>6, <1>7, <1>8

\* A phase further on is earned by healthy generations that really followed
\* each other, across rollbacks, restarts and a lost file.
THEOREM AdvancesAreEarned == Spec => AdvanceEarned
<1>1. IInv /\ [Next]_vars =>
        [file'.phase \in Hybrid /\ file'.phase # file.phase /\ ~forgotten
           => calm' >= Need[file'.phase]]_vars
  BY AdvanceStep
<1> QED
  BY <1>1, Invariance, PTL DEF Spec, AdvanceEarned
=============================================================================
