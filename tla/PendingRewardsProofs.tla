------------------------ MODULE PendingRewardsProofs ------------------------
(***************************************************************************)
(* Proofs about PendingRewards, for every number of templates, iterations  *)
(* and rounds.  The inductive invariant says what every content of the two *)
(* stores, in the file, in the buffer or still with a worker, has in       *)
(* common: an alpha that has no result yet is in none of them, and one     *)
(* that has survived at most one round.                                    *)
(***************************************************************************)
EXTENDS PendingRewards, FiniteSetTheorems, TLAPS

Later(k) == k[1] > template \/ (k[1] = template /\ k[2] > iteration)

\* The names nothing has been recorded for.
Unrecorded(k) ==
  /\ k[2] > 0
  /\ Later(k) \/ (k = Id /\ (Id \notin pool \/ step = "calculated"))

PoolOK == \A k \in pool : k[2] > 0 /\ ~Later(k)

ResultOK ==
  step # "idle" =>
    /\ Id \in pool
    /\ result.parent[2] = 0 \/ (result.parent \in pool /\ result.parent # Id)

Lived(c) == \A k \in Key : c[k].rounds <= 1 /\ (Unrecorded(k) => c[k] = Unknown)

BaseOK ==
  /\ base # Nobody => base[1] = template /\ base[2] <= iteration
  /\ step # "idle" /\ result.tracked => base \in {Nobody, Id}

Mine(k, r) ==
  r.status # "none" =>
    r.owner[1] = k[1] /\ r.owner[2] <= k[2] /\ (r.tracked => r.owner = k)

Unreleased(c) ==
  c.injected = 0 /\ \A k \in Key : c.rows[k].status # "released" /\ Mine(k, c.rows[k])

IInv ==
  /\ TypeOK /\ PoolOK /\ ResultOK /\ BaseOK /\ LayerAddsNothing
  /\ \A c \in Contents(surv) : Lived(c)
  /\ \A c \in Contents(rewards) : Unreleased(c)

-----------------------------------------------------------------------------
(* The stores.                                                             *)

\* What is loaded is one of the contents.
LEMMA LoadedIsContent ==
  ASSUME NEW C, NEW s \in Store(C)
  PROVE  Loaded(s) \in Contents(s) /\ Loaded(s) \in C /\ Contents(s) \subseteq C
<1>1. CASE s.buffer = {}
  BY <1>1 DEF Loaded, Contents, Store
<1>2. CASE s.buffer # {}
  <2>1. (CHOOSE c \in s.buffer : TRUE) \in s.buffer
    BY <1>2
  <2> QED
    BY <1>2, <2>1 DEF Loaded, Contents, Store
<1> QED
  BY <1>1, <1>2

\* Saving adds one content and forgets at most the buffered one.
LEMMA SavedContents ==
  ASSUME NEW C, NEW s \in Store(C), NEW c \in C
  PROVE  Saved(s, c) \in Store(C) /\ Contents(Saved(s, c)) \subseteq Contents(s) \cup {c}
BY DEF Saved, Contents, Store

\* The steps of the workers add no content.
LEMMA WorkerContents ==
  ASSUME NEW C, NEW s \in Store(C), NEW t, Taken(s, t) \/ Written(s, t)
  PROVE  t \in Store(C) /\ Contents(t) \subseteq Contents(s)
<1>1. CASE Taken(s, t)
  BY <1>1 DEF Taken, Contents, Store
<1>2. CASE Written(s, t)
  BY <1>2 DEF Written, Contents, Store
<1> QED
  BY <1>1, <1>2

\* Nor does a new engine, in the same process or after a crash.
LEMMA LeftContents ==
  ASSUME NEW C, NEW s \in Store(C)
  PROVE  /\ Left(s) \in Store(C) /\ Contents(Left(s)) \subseteq Contents(s)
         /\ LET t == [buffer |-> {}, file |-> s.file, late |-> {}]
            IN  t \in Store(C) /\ Contents(t) \subseteq Contents(s)
BY DEF Left, Contents, Store

-----------------------------------------------------------------------------
(* The operations.                                                         *)

\* Making a record known changes no round and no other record.
LEMMA KnownMemory ==
  ASSUME NEW m \in Survival, NEW k \in Key
  PROVE  /\ Known(m, k) \in Survival
         /\ \A j \in Key : /\ Known(m, k)[j].rounds = m[j].rounds
                           /\ j # k => Known(m, k)[j] = m[j]
<1> DEFINE x == [m[k] EXCEPT !.known = TRUE]
<1>1. x \in Record /\ x.rounds = m[k].rounds
  BY DEF Survival, Record
<1>2. Known(m, k) = [m EXCEPT ![k] = x]
  BY DEF Known
<1> HIDE DEF x
<1> QED
  BY <1>1, <1>2 DEF Survival

\* Another round for one alpha.
LEMMA RaisedMemory ==
  ASSUME NEW m \in Survival, NEW k \in Key
  PROVE  /\ [m EXCEPT ![k].rounds = @ + 1] \in Survival
         /\ [m EXCEPT ![k].rounds = @ + 1][k].rounds = m[k].rounds + 1
         /\ \A j \in Key : j # k => [m EXCEPT ![k].rounds = @ + 1][j] = m[j]
<1> DEFINE x == [m[k] EXCEPT !.rounds = @ + 1]
<1>1. x \in Record /\ x.rounds = m[k].rounds + 1
  BY DEF Survival, Record
<1>2. [m EXCEPT ![k].rounds = @ + 1] = [m EXCEPT ![k] = x]
  OBVIOUS
<1> HIDE DEF x
<1> QED
  BY <1>1, <1>2 DEF Survival

\* Recording a result gives its alpha at most one more round and touches no
\* other alpha than it and its parent.
LEMMA RecordedMemory ==
  ASSUME NEW m \in Survival, Id \in Key, result.parent \in Key
  PROVE  LET r == IncrementChildrenSuccess(UpdateSurvival(RegisterAlpha(m)))
         IN  /\ r \in Survival
             /\ \A k \in Key : /\ r[k].rounds <= m[k].rounds + (IF k = Id THEN 1 ELSE 0)
                               /\ k \notin {Id, result.parent} => r[k] = m[k]
<1> DEFINE a == Known(m, Id)
           b == Known(a, Id)
           u == IF result.passed THEN [b EXCEPT ![Id].rounds = @ + 1] ELSE b
           r == IF result.passed THEN Known(u, result.parent) ELSE u
<1>1. /\ a \in Survival
      /\ \A j \in Key : a[j].rounds = m[j].rounds /\ (j # Id => a[j] = m[j])
  BY KnownMemory
<1> HIDE DEF a
<1>2. /\ b \in Survival
      /\ \A j \in Key : b[j].rounds = a[j].rounds /\ (j # Id => b[j] = a[j])
  BY <1>1, KnownMemory
<1> HIDE DEF b
<1>3. /\ u \in Survival
      /\ \A j \in Key : /\ j # Id => u[j] = b[j]
                        /\ u[Id].rounds \in {b[Id].rounds, b[Id].rounds + 1}
  BY <1>2, RaisedMemory
<1> HIDE DEF u
<1>4. /\ r \in Survival
      /\ \A j \in Key : r[j].rounds = u[j].rounds /\ (j # result.parent => r[j] = u[j])
  BY <1>3, KnownMemory
<1> HIDE DEF r
<1>5. \A j \in Key : m[j].rounds \in Nat
  BY DEF Survival, Record
<1>6. /\ r \in Survival
      /\ \A k \in Key : /\ r[k].rounds <= m[k].rounds + (IF k = Id THEN 1 ELSE 0)
                        /\ k \notin {Id, result.parent} => r[k] = m[k]
  BY <1>1, <1>2, <1>3, <1>4, <1>5
<1>7. r = IncrementChildrenSuccess(UpdateSurvival(RegisterAlpha(m)))
  BY DEF r, u, b, a, IncrementChildrenSuccess, UpdateSurvival, RegisterAlpha, Subject
<1> QED
  BY <1>6, <1>7

\* Settling releases nothing as long as nobody has survived two rounds.
LEMMA SettledUnreleased ==
  ASSUME RewardAssumption, NEW c \in Rewards, Unreleased(c), NEW m \in Survival,
         \A k \in Key : m[k].rounds <= 1, iteration \in 0 .. MaxIterations
  PROVE  Settled(c, m) \in Rewards /\ Unreleased(Settled(c, m))
<1> DEFINE due == {k \in Key : Due(c.rows, k)}
           released == {k \in due : m[Subject(k)].rounds >= ReleaseRounds}
           rows == [k \in Key |->
                     IF k \in released THEN [c.rows[k] EXCEPT !.status = "released"]
                     ELSE IF k \in due THEN [c.rows[k] EXCEPT !.status = "canceled"]
                     ELSE c.rows[k]]
<1>1. released = {}
  <2>1. ReleaseRounds \in Nat /\ ReleaseRounds >= 2
    BY DEF RewardAssumption
  <2>2. \A k \in Key : m[k].rounds \in Nat /\ m[k].rounds <= 1
    BY DEF Survival, Record
  <2> QED
    BY <2>1, <2>2 DEF Subject
<1>2. Cardinality(released) = 0
  BY <1>1, FS_EmptySet
<1>3. Settled(c, m) = [rows |-> rows, injected |-> c.injected + 0, decayed |-> iteration]
  BY <1>2 DEF Settled
<1>4. \A k \in Key : /\ rows[k] \in Pending /\ rows[k].status # "released"
                     /\ Mine(k, rows[k])
  <2> TAKE k \in Key
  <2>1. c.rows[k] \in Pending /\ c.rows[k].status # "released" /\ Mine(k, c.rows[k])
    BY DEF Unreleased, Rewards
  <2>2. CASE k \in due
    <3>1. rows[k] = [c.rows[k] EXCEPT !.status = "canceled"]
      BY <1>1, <2>2
    <3>2. c.rows[k].status = "pending"
      BY <2>2 DEF Due
    <3> HIDE DEF rows, due, released
    <3> QED
      BY <2>1, <3>1, <3>2 DEF Pending, Mine
  <2>3. CASE k \notin due
    <3>1. rows[k] = c.rows[k]
      BY <1>1, <2>3
    <3> QED
      BY <2>1, <3>1
  <2> QED
    BY <2>2, <2>3
<1>5. c.injected = 0
  BY DEF Unreleased
<1>6. rows \in [Key -> Pending]
  BY <1>4
<1> HIDE DEF rows
<1> QED
  BY <1>3, <1>4, <1>5, <1>6 DEF Rewards, Unreleased

-----------------------------------------------------------------------------
(* The inductive invariant.                                                *)

LEMMA IdIsKey ==
  ASSUME RewardAssumption, TypeOK
  PROVE  Id \in Key /\ Id[1] = template /\ Id[2] = iteration /\ <<template, 0>> \in Key
BY DEF RewardAssumption, TypeOK, Id, Key

LEMMA KeyIsPair ==
  ASSUME RewardAssumption, NEW k \in Key
  PROVE  k[1] \in Nat /\ k[2] \in Nat /\ k = <<k[1], k[2]>>
BY DEF RewardAssumption, Key

LEMMA InitInv ==
  ASSUME RewardAssumption, Init
  PROVE  IInv
<1>1. TypeOK
  BY DEF Init, TypeOK, RewardAssumption, Key, NoResult, Nobody, Store, Survival, Record,
         Unknown, Rewards, Pending, NoReward
<1>2. \A c \in Contents(surv) : Lived(c)
  BY DEF Init, Contents, Lived, Unknown
<1>3. \A c \in Contents(rewards) : Unreleased(c)
  BY DEF Init, Contents, Unreleased, Mine, NoReward
<1> QED
  BY <1>1, <1>2, <1>3 DEF IInv, Init, PoolOK, ResultOK, BaseOK, LayerAddsNothing, NoResult

\* What has no record keeps having none: a step records nothing but its own
\* alpha, and moves on only to names not used before.
LEMMA UnrecordedShrinks ==
  ASSUME RewardAssumption, TypeOK, ResultOK, Next, NEW k \in Key, Unrecorded(k)'
  PROVE  Unrecorded(k) /\ (RecordSurvival => Later(k))
<1> USE KeyIsPair, IdIsKey
<1>1. CASE Iterate
  BY <1>1 DEF Iterate, Unrecorded, Later, Id, TypeOK, RecordSurvival
<1>2. CASE NextTemplate \/ Crash
  BY <1>2 DEF NextTemplate, Crash, Unrecorded, Later, Id, TypeOK, RecordSurvival
<1>3. CASE CalculateReward \/ Untracked
  BY <1>3 DEF CalculateReward, Untracked, Unrecorded, Later, Id, TypeOK, RecordSurvival
<1>4. CASE RecordSurvival
  BY <1>4 DEF RecordSurvival, Unrecorded, Later, Id, TypeOK, ResultOK
<1>5. CASE RegisterPendingReward
  BY <1>5 DEF RegisterPendingReward, Unrecorded, Later, Id, TypeOK, ResultOK, RecordSurvival
<1>6. CASE Flush
  BY <1>6 DEF Flush, Unrecorded, Later, Id, TypeOK, RecordSurvival
<1> QED
  BY <1>1, <1>2, <1>3, <1>4, <1>5, <1>6 DEF Next

\* The survival store.
LEMMA SurvivalStep ==
  ASSUME RewardAssumption, IInv, Next
  PROVE  surv' \in Store(Survival) /\ \A c \in Contents(surv') : Lived(c)'
<1> USE DEF IInv
<1>1. surv \in Store(Survival) /\ rewards \in Store(Rewards)
  BY DEF TypeOK
<1>2. ASSUME surv' \in Store(Survival), Contents(surv') \subseteq Contents(surv)
      PROVE  \A c \in Contents(surv') : Lived(c)'
  BY <1>2, UnrecordedShrinks DEF Lived
<1>3. CASE UNCHANGED surv
  BY <1>1, <1>2, <1>3
<1>4. CASE NextTemplate \/ Crash
  BY <1>1, <1>2, <1>4, LeftContents DEF NextTemplate, Crash
<1>5. CASE RecordSurvival
  <2> DEFINE m == Loaded(surv)
             r == IncrementChildrenSuccess(UpdateSurvival(RegisterAlpha(m)))
  <2>1. m \in Survival /\ Lived(m)
    BY <1>1, LoadedIsContent
  <2>2. Id \in Key /\ result.parent \in Key
    BY IdIsKey DEF TypeOK
  <2> HIDE DEF m
  <2>3. /\ r \in Survival
        /\ \A k \in Key : /\ r[k].rounds <= m[k].rounds + (IF k = Id THEN 1 ELSE 0)
                          /\ k \notin {Id, result.parent} => r[k] = m[k]
    BY <2>1, <2>2, RecordedMemory
  <2> HIDE DEF r
  <2>4. surv' = Saved(surv, r)
    BY <1>5 DEF RecordSurvival, r, m
  <2>5. surv' \in Store(Survival) /\ Contents(surv') \subseteq Contents(surv) \cup {r}
    BY <1>1, <2>3, <2>4, SavedContents
  <2>6. m[Id].rounds = 0 \/ Id[2] = 0
    <3>1. Id[2] # 0 => Unrecorded(Id)
      BY <1>5, IdIsKey DEF RecordSurvival, Unrecorded, TypeOK
    <3> QED
      BY <2>1, <2>2, <3>1 DEF Lived, Unknown
  <2>7. Id[2] # 0
    BY <1>5, IdIsKey DEF RecordSurvival, ResultOK, PoolOK
  <2>8. \A k \in Key : r[k].rounds \in Nat /\ m[k].rounds \in Nat
    BY <2>1, <2>3 DEF Survival, Record
  <2>9. \A k \in Key : r[k].rounds <= 1
    BY <2>1, <2>3, <2>6, <2>7, <2>8 DEF Lived
  <2>10. ASSUME NEW k \in Key, Unrecorded(k)'
         PROVE  r[k] = Unknown
    <3>1. Unrecorded(k) /\ Later(k)
      BY <1>5, <2>10, UnrecordedShrinks
    <3>2. k # Id
      BY <3>1, IdIsKey DEF Later, TypeOK
    <3>3. k # result.parent
      BY <1>5, <3>1 DEF RecordSurvival, ResultOK, PoolOK, Unrecorded, TypeOK
    <3> QED
      BY <2>1, <2>3, <3>1, <3>2, <3>3 DEF Lived
  <2>11. ASSUME NEW c, c = r
         PROVE  Lived(c)'
    BY <2>9, <2>10, <2>11 DEF Lived
  <2>12. \A c \in Contents(surv) : Lived(c)'
    BY <1>1, UnrecordedShrinks DEF Lived
  <2> QED
    BY <2>5, <2>11, <2>12
<1>6. CASE Flush
  BY <1>1, <1>2, <1>6, WorkerContents DEF Flush
<1> QED
  BY <1>3, <1>4, <1>5, <1>6
     DEF Next, Iterate, CalculateReward, Untracked, RegisterPendingReward

\* The store of the pending rewards.
LEMMA RewardsStep ==
  ASSUME RewardAssumption, IInv, Next
  PROVE  rewards' \in Store(Rewards) /\ \A c \in Contents(rewards') : Unreleased(c)
<1> USE DEF IInv
<1>1. surv \in Store(Survival) /\ rewards \in Store(Rewards)
  BY DEF TypeOK
<1>2. CASE UNCHANGED rewards
  BY <1>1, <1>2
<1>3. CASE NextTemplate \/ Crash
  BY <1>1, <1>3, LeftContents DEF NextTemplate, Crash
<1>4. CASE CalculateReward
  <2> DEFINE c == Loaded(rewards)
             m == Loaded(surv)
             s == Settled(c, m)
  <2>1. c \in Rewards /\ Unreleased(c) /\ m \in Survival /\ \A k \in Key : m[k].rounds <= 1
    BY <1>1, LoadedIsContent DEF Lived
  <2>2. rewards' = rewards \/ rewards' = Saved(rewards, s)
    BY <1>4 DEF CalculateReward, Settle
  <2> HIDE DEF c, m
  <2>3. s \in Rewards /\ Unreleased(s)
    BY <2>1, SettledUnreleased DEF TypeOK
  <2> HIDE DEF s
  <2>4. CASE rewards' = Saved(rewards, s)
    BY <1>1, <2>3, <2>4, SavedContents
  <2> QED
    BY <1>2, <2>2, <2>4
<1>5. CASE RegisterPendingReward
  <2> DEFINE c == Loaded(rewards)
             record == [status |-> "pending", owner |-> base, tracked |-> result.tracked]
             d == [c EXCEPT !.rows[Id] = record]
  <2>1. c \in Rewards /\ Unreleased(c)
    BY <1>1, LoadedIsContent
  <2>2. rewards' = rewards \/ (base # Nobody /\ rewards' = Saved(rewards, d))
    BY <1>5 DEF RegisterPendingReward
  <2>3. CASE base # Nobody /\ rewards' = Saved(rewards, d)
    <3>1. record \in Pending
      BY DEF TypeOK, Pending
    <3>2. Mine(Id, record)
      BY <1>5, <2>3, IdIsKey DEF RegisterPendingReward, BaseOK, Mine
    <3>3. record.status # "released"
      OBVIOUS
    <3> HIDE DEF c, record
    <3>4. d = [c EXCEPT !.rows = [c.rows EXCEPT ![Id] = record]]
      OBVIOUS
    <3>5. [c.rows EXCEPT ![Id] = record] \in [Key -> Pending]
      BY <2>1, <3>1 DEF Rewards
    <3>6. d \in Rewards /\ d.injected = c.injected /\ d.rows = [c.rows EXCEPT ![Id] = record]
      BY <2>1, <3>4, <3>5 DEF Rewards
    <3> HIDE DEF d
    <3>7. \A k \in Key : d.rows[k] = IF k = Id THEN record ELSE c.rows[k]
      BY <2>1, <3>6 DEF Rewards
    <3>8. Unreleased(d)
      BY <2>1, <3>2, <3>3, <3>6, <3>7 DEF Unreleased
    <3> QED
      BY <1>1, <2>3, <3>6, <3>8, SavedContents
  <2> QED
    BY <1>2, <2>2, <2>3
<1>6. CASE Flush
  BY <1>1, <1>6, WorkerContents DEF Flush
<1> QED
  BY <1>2, <1>3, <1>4, <1>5, <1>6
     DEF Next, Iterate, Untracked, RecordSurvival

\* The variables of the orchestrator and the engine.
LEMMA ControlStep ==
  ASSUME RewardAssumption, IInv, Next, surv' \in Store(Survival), rewards' \in Store(Rewards)
  PROVE  TypeOK' /\ PoolOK' /\ ResultOK' /\ BaseOK' /\ LayerAddsNothing'
<1> USE IdIsKey DEF IInv
<1>1. CASE Iterate
  <2>1. /\ step = "idle" /\ iteration < MaxIterations /\ iteration' = iteration + 1
        /\ UNCHANGED <<template, step, result, base, layer, pool>>
    BY <1>1 DEF Iterate
  <2>2. TypeOK'
    BY <2>1 DEF TypeOK, RewardAssumption
  <2>3. PoolOK'
    BY <2>1, KeyIsPair DEF TypeOK, PoolOK, Later
  <2>4. BaseOK'
    BY <2>1, KeyIsPair DEF TypeOK, BaseOK, Nobody
  <2> QED
    BY <2>1, <2>2, <2>3, <2>4 DEF ResultOK, LayerAddsNothing
<1>2. CASE NextTemplate \/ Crash
  <2>1. NoResult.parent \in Key
    BY DEF RewardAssumption, NoResult, Key
  <2>2. PoolOK'
    BY <1>2, KeyIsPair DEF NextTemplate, Crash, PoolOK, Later, TypeOK
  <2>3. TypeOK'
    <3>1. /\ template < MaxTemplates /\ template' = template + 1 /\ iteration' = 0
          /\ step' = "idle" /\ result' = NoResult /\ base' = Nobody /\ UNCHANGED <<layer, pool>>
      BY <1>2 DEF NextTemplate, Crash, NewEngine
    <3>2. NoResult \in [tracked : BOOLEAN, passed : BOOLEAN, parent : Key]
      BY <2>1 DEF NoResult
    <3>3. template' \in 1 .. MaxTemplates /\ iteration' \in 0 .. MaxIterations
      BY <3>1 DEF TypeOK, RewardAssumption
    <3> QED
      BY <3>1, <3>2, <3>3 DEF TypeOK
  <2> QED
    BY <1>2, <2>2, <2>3
       DEF NextTemplate, Crash, NewEngine, ResultOK, BaseOK, LayerAddsNothing
<1>3. CASE CalculateReward
  <2> DEFINE c == Loaded(rewards)
             m == Loaded(surv)
  <2>1. c \in Rewards /\ Unreleased(c) /\ m \in Survival /\ Lived(m)
    BY LoadedIsContent DEF TypeOK
  <2>2. layer' = [known |-> m[Id].known, injected |-> Settled(c, m).injected]
    BY <1>3 DEF CalculateReward, Subject
  <2> HIDE DEF c, m
  <2>3. Settled(c, m).injected = 0
    BY <2>1, SettledUnreleased DEF Lived, Unreleased, TypeOK
  <2>4. m[Id] = Unknown
    BY <1>3, <2>1 DEF CalculateReward, Lived, Unrecorded, TypeOK
  <2>5. layer' = [known |-> FALSE, injected |-> 0]
    BY <2>2, <2>3, <2>4 DEF Unknown
  <2>6. /\ pool' = pool \cup {Id} /\ iteration > 0 /\ Id \notin pool /\ step' = "calculated"
        /\ result'.parent \in pool \cup {<<template, 0>>} /\ base' \in {Nobody, Id}
        /\ result' \in [tracked : BOOLEAN, passed : BOOLEAN, parent : Key]
        /\ UNCHANGED <<template, iteration>>
    BY <1>3 DEF CalculateReward, TypeOK
  <2>7. PoolOK'
    BY <2>6 DEF PoolOK, Later, TypeOK
  <2> QED
    BY <2>5, <2>6, <2>7 DEF TypeOK, ResultOK, BaseOK, LayerAddsNothing, Id
<1>4. CASE Untracked
  <2>1. /\ pool' = pool \cup {Id} /\ iteration > 0 /\ Id \notin pool /\ step' = "calculated"
        /\ result'.parent = <<template, 0>> /\ result'.tracked = FALSE
        /\ result' \in [tracked : BOOLEAN, passed : BOOLEAN, parent : Key]
        /\ UNCHANGED <<template, iteration, base, layer>>
    BY <1>4 DEF Untracked, TypeOK
  <2> QED
    BY <2>1 DEF TypeOK, PoolOK, Later, ResultOK, BaseOK, LayerAddsNothing, Id
<1>5. CASE RecordSurvival
  BY <1>5 DEF RecordSurvival, TypeOK, PoolOK, Later, ResultOK, BaseOK, LayerAddsNothing, Id
<1>6. CASE RegisterPendingReward
  <2>1. NoResult \in [tracked : BOOLEAN, passed : BOOLEAN, parent : Key]
    BY DEF RewardAssumption, NoResult, Key
  <2> QED
    BY <1>6, <2>1
       DEF RegisterPendingReward, TypeOK, PoolOK, Later, ResultOK, BaseOK, LayerAddsNothing
<1>7. CASE Flush
  BY <1>7 DEF Flush, TypeOK, PoolOK, Later, ResultOK, BaseOK, LayerAddsNothing, Id
<1> QED
  BY <1>1, <1>2, <1>3, <1>4, <1>5, <1>6, <1>7 DEF Next

LEMMA NextInv ==
  ASSUME RewardAssumption, IInv, [Next]_vars
  PROVE  IInv'
<1>1. CASE Next
  <2>1. surv' \in Store(Survival) /\ \A c \in Contents(surv') : Lived(c)'
    BY <1>1, SurvivalStep
  <2>2. rewards' \in Store(Rewards) /\ \A c \in Contents(rewards') : Unreleased(c)
    BY <1>1, RewardsStep
  <2>3. TypeOK' /\ PoolOK' /\ ResultOK' /\ BaseOK' /\ LayerAddsNothing'
    BY <1>1, <2>1, <2>2, ControlStep
  <2>4. Contents(surv)' = Contents(surv') /\ Contents(rewards)' = Contents(rewards')
    BY DEF Contents
  <2> QED
    BY <2>1, <2>2, <2>3, <2>4 DEF IInv, Unreleased, Mine
<1>2. CASE UNCHANGED vars
  BY <1>2 DEF vars, IInv, TypeOK, PoolOK, ResultOK, BaseOK, LayerAddsNothing, Later, Id,
              Lived, Unrecorded, Contents
<1> QED
  BY <1>1, <1>2

LEMMA Inductive ==
  ASSUME RewardAssumption
  PROVE  Spec => []IInv
BY InitInv, NextInv, PTL DEF Spec

-----------------------------------------------------------------------------
(* The theorems.                                                           *)

\* The delayed part of a reward is never released, whatever the numbers of
\* rounds and of iterations (pending_reward_manager.py, settle_rewards).
THEOREM NothingReleased == Spec => []NothingIsReleased
<1>1. RewardAssumption /\ IInv => NothingIsReleased
  BY DEF IInv, Unreleased, NothingIsReleased
<1> QED
  BY RewardAssumption, Inductive, <1>1, PTL

\* The evolution layer adds nothing to a reward (reward_engine.py,
\* _apply_evolution_layer).
THEOREM LayerIsSilent == Spec => []LayerAddsNothing
<1>1. IInv => LayerAddsNothing
  BY DEF IInv
<1> QED
  BY RewardAssumption, Inductive, <1>1, PTL

\* A pending reward comes from its own template, and of a tracked mutation from
\* its own result (reward_engine.py, record_evolution_feedback).
THEOREM BasesAreOwn == Spec => []BaseOfThisTemplate
<1>1. IInv => BaseOfThisTemplate
  BY DEF IInv, Unreleased, Mine, BaseOfThisTemplate
<1> QED
  BY RewardAssumption, Inductive, <1>1, PTL


\* No alpha survives more than one round, in the file, in the buffer or with a worker
\* that is late: update_survival is called once for a result, and a name has one
\* result.  A release asks for more rounds (survival_memory_manager.py).
SurvivesOnce == \A c \in Contents(surv) : \A k \in Key : c[k].rounds <= 1

\* Every alpha survives at most one round, for any number of iterations and of
\* templates, with late writes and crashes.
THEOREM OneRoundEach == Spec => []SurvivesOnce
<1>1. IInv => SurvivesOnce
  BY DEF IInv, Lived, SurvivesOnce
<1> QED
  BY RewardAssumption, Inductive, <1>1, PTL

\* The types of the stores and of the orchestrator's state.
THEOREM TypeCorrect == Spec => []TypeOK
<1>1. IInv => TypeOK
  BY DEF IInv
<1> QED
  BY RewardAssumption, Inductive, <1>1, PTL

=============================================================================
