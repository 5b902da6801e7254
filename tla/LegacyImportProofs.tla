------------------------ MODULE LegacyImportProofs ------------------------
(***************************************************************************)
(* Proofs about the legacy import, for every set of alphas and sources,    *)
(* every size of a batch and any number of faults and templates.           *)
(*                                                                         *)
(* The invariant follows a record through a run: as long as it is still to *)
(* be written it has been counted at most once per earlier run, and as     *)
(* long as the run has no error a record of the start is still to be       *)
(* written, or counted, in the tables or in what the transaction sees, or  *)
(* every source that had it looked empty.                                  *)
(***************************************************************************)
EXTENDS LegacyImport, TLAPS

Running == pc \in {"batches", "transaction"}
Open    == pc = "transaction"
Waiting == todo \cup batch

ControlOK ==
  /\ ~Open => batch = {}
  /\ todo \cap batch = {}
  /\ Running => ~db.completed
  /\ Open => ~tx.completed

\* A record that waits was counted by earlier runs only, and so was every record
\* as long as this run has imported none.
CountedIn(t) ==
  /\ \A a \in Alpha : t.policy[a] <= 1 + failed
  /\ Running => \A a \in Waiting : t.policy[a] <= failed
  /\ Running /\ ~stats.imported => \A a \in Alpha : t.policy[a] <= failed

CountsOK ==
  /\ CountedIn(db)
  /\ Open => CountedIn(tx)
  /\ ~Running /\ ~db.completed => \A a \in Alpha : db.policy[a] <= failed

\* An edge is counted with the record's mutation, and once by its own backtest.
WholeIn(t) == \A a \in Alpha : t.edge[a] = t.policy[a] + Lives(a)

WholeOK == WholeIn(db) /\ (Open => WholeIn(tx))

\* A run without error loses none of the records of the start that it was told of.
NoneLost(t) == \A a \in legacy \ unread : a \in Waiting \/ t.policy[a] > 0

LossOK ==
  /\ pc = "batches" /\ ~stats.errors => NoneLost(db)
  /\ Open /\ ~stats.errors => NoneLost(tx)

\* Nothing is written by a backtest before the completion unless a run has left the
\* import incomplete.
Untroubled == ~unfinished /\ ~blind

LiveOK == Untroubled => /\ pc \in {"bootstrap", "work"} => db.completed
                        /\ lived # {} => db.completed

IInv == /\ TypeOK /\ ControlOK /\ CountsOK /\ WholeOK /\ LossOK /\ LiveOK
        /\ CompletedIsImported /\ LiveRowsStay

-----------------------------------------------------------------------------
(* What one record's statements do to the tables. *)

LEMMA MemberFacts ==
  ASSUME NEW t \in Tables, NEW a \in Alpha
  PROVE  /\ Member(t, a) \in Tables
         /\ Member(t, a).edge = t.edge /\ Member(t, a).policy = t.policy
         /\ Member(t, a).completed = t.completed
BY DEF Member, Tables, Row

LEMMA EdgeFacts ==
  ASSUME NEW t \in Tables, NEW a \in Alpha
  PROVE  /\ Edge(t, a) \in Tables
         /\ Edge(t, a).edge = [t.edge EXCEPT ![a] = @ + 1]
         /\ Edge(t, a).policy = t.policy /\ Edge(t, a).member = t.member
         /\ Edge(t, a).completed = t.completed
<1> DEFINE e == [t.edge EXCEPT ![a] = @ + 1]
<1>1. e \in [Alpha -> Nat]
  BY DEF Tables
<1>2. Edge(t, a) = [t EXCEPT !.edge = e]
  BY DEF Edge, Tables
<1> HIDE DEF e
<1>3. /\ [t EXCEPT !.edge = e] \in Tables /\ [t EXCEPT !.edge = e].edge = e
      /\ [t EXCEPT !.edge = e].policy = t.policy /\ [t EXCEPT !.edge = e].member = t.member
      /\ [t EXCEPT !.edge = e].completed = t.completed
  BY <1>1 DEF Tables
<1> QED
  BY <1>2, <1>3 DEF e

LEMMA PolicyFacts ==
  ASSUME NEW t \in Tables, NEW a \in Alpha
  PROVE  /\ Policy(t, a) \in Tables
         /\ Policy(t, a).policy = [t.policy EXCEPT ![a] = @ + 1]
         /\ Policy(t, a).edge = t.edge
         /\ Policy(t, a).completed = t.completed
<1> DEFINE e == [t.policy EXCEPT ![a] = @ + 1]
<1>1. e \in [Alpha -> Nat]
  BY DEF Tables
<1>2. Policy(t, a) = [t EXCEPT !.policy = e]
  BY DEF Policy, Tables
<1> HIDE DEF e
<1>3. /\ [t EXCEPT !.policy = e] \in Tables /\ [t EXCEPT !.policy = e].policy = e
      /\ [t EXCEPT !.policy = e].edge = t.edge
      /\ [t EXCEPT !.policy = e].completed = t.completed
  BY <1>1 DEF Tables
<1> QED
  BY <1>2, <1>3 DEF e

LEMMA WrittenFacts ==
  ASSUME NEW t \in Tables, NEW a \in Alpha
  PROVE  /\ Written(t, a) \in Tables
         /\ Written(t, a).policy = [t.policy EXCEPT ![a] = @ + 1]
         /\ Written(t, a).edge = [t.edge EXCEPT ![a] = @ + 1]
         /\ Written(t, a).completed = t.completed
<1>1. Member(t, a) \in Tables
  BY MemberFacts
<1>2. Edge(Member(t, a), a) \in Tables
  BY <1>1, EdgeFacts
<1>3. /\ Member(t, a).edge = t.edge /\ Member(t, a).policy = t.policy
      /\ Member(t, a).completed = t.completed
  BY MemberFacts
<1>4. /\ Edge(Member(t, a), a).edge = [t.edge EXCEPT ![a] = @ + 1]
      /\ Edge(Member(t, a), a).policy = t.policy
      /\ Edge(Member(t, a), a).completed = t.completed
  BY <1>1, <1>3, EdgeFacts
<1> QED
  BY <1>2, <1>4, PolicyFacts DEF Written

LEMMA CompletedFacts ==
  ASSUME NEW t \in Tables, NEW c \in BOOLEAN
  PROVE  /\ [t EXCEPT !.completed = c] \in Tables
         /\ [t EXCEPT !.completed = c].completed = c
         /\ [t EXCEPT !.completed = c].member = t.member
         /\ [t EXCEPT !.completed = c].edge = t.edge
         /\ [t EXCEPT !.completed = c].policy = t.policy
BY DEF Tables

LEMMA RepopulatedFacts ==
  ASSUME NEW S \in SUBSET Alpha, db \in Tables
  PROVE  /\ Repopulated(S) \in Tables
         /\ Repopulated(S).completed = db.completed
         /\ Repopulated(S).edge = db.edge
         /\ Repopulated(S).policy = db.policy
BY DEF Repopulated, Tables, Row

-----------------------------------------------------------------------------
(* The invariant. *)

LEMMA Start == Init => IInv
<1> SUFFICES ASSUME Init PROVE IInv
  OBVIOUS
<1>1. Empty \in Tables
  BY DEF Empty, Tables, Row
<1>2. TypeOK
  BY <1>1, ImportAssumption DEF Init, TypeOK, NoStats
<1> QED
  BY <1>2 DEF Init, IInv, ControlOK, CountsOK, CountedIn, WholeOK, WholeIn, LossOK, NoneLost,
     LiveOK, Untroubled, CompletedIsImported, LiveRowsStay, Running, Open, Waiting, Empty, Lives,
     NoStats

LEMMA ReadKeeps ==
  ASSUME IInv, NEW bad \in SUBSET Source, NEW quiet \in SUBSET bad, Read(bad, quiet),
         faults' \in Nat
  PROVE  IInv'
<1>1. /\ pc = "idle" /\ pc' = "batches" /\ ~db.completed /\ batch' = {}
      /\ unread' = {a \in Alpha : held[a] \subseteq quiet}
      /\ UNCHANGED <<db, tx, held, nameless, legacy, lived, failed, unfinished, unseen, blind>>
  BY DEF Read, ShouldRun, sources, ended
<1>2. /\ Readable(bad) \subseteq todo' /\ todo' \subseteq Alpha
      /\ stats' \in [seen : BOOLEAN, imported : BOOLEAN, errors : BOOLEAN]
      /\ stats'.errors = (bad \ quiet # {})
  BY DEF Read, Readable, Partly
<1>3. TypeOK' /\ ControlOK'
  BY <1>1, <1>2 DEF IInv, TypeOK, ControlOK, Running, Open
<1>4. CountsOK'
  <2>1. \A c \in Alpha : db.policy[c] <= failed
    BY <1>1 DEF IInv, CountsOK, Running
  <2>2. Waiting' \subseteq Alpha /\ CountedIn(db)
    BY <1>1, <1>2 DEF IInv, CountsOK, Waiting
  <2>3. CountedIn(db)'
    BY <1>1, <2>1, <2>2 DEF CountedIn
  <2> QED
    BY <1>1, <2>3 DEF CountsOK, Running, Open
<1>5. WholeOK'
  BY <1>1 DEF IInv, WholeOK, WholeIn, Lives, Open
<1>6. LossOK'
  <2> SUFFICES ASSUME ~stats'.errors PROVE NoneLost(db)'
    BY <1>1 DEF LossOK, Open
  <2>1. bad = quiet
    BY <1>2
  <2>2. legacy \ unread' \subseteq Readable(bad)
    BY <1>1, <2>1, ImportAssumption DEF Readable, IInv, TypeOK
  <2> QED
    BY <1>1, <1>2, <2>2 DEF NoneLost, Waiting
<1>7. LiveOK' /\ CompletedIsImported' /\ LiveRowsStay'
  BY <1>1 DEF IInv, LiveOK, Untroubled, CompletedIsImported, LiveRowsStay
<1> QED
  BY <1>3, <1>4, <1>5, <1>6, <1>7 DEF IInv

\* A file that is renamed away takes records from no run that has read them.
LEMMA DamageKeeps == ASSUME IInv, NEW f \in Silent, Damage(f) PROVE IInv'
<1>1. /\ UNCHANGED <<pc, db, tx, todo, batch, stats, legacy, lived, unread, failed, unfinished,
                     unseen, blind>>
      /\ held' = [a \in Alpha |-> held[a] \ {f}] /\ nameless' = nameless \ {f}
      /\ faults' = faults + 1
  BY DEF Damage, Fault, ended
<1>2. TypeOK'
  BY <1>1 DEF IInv, TypeOK
<1>3. ControlOK' /\ CountsOK' /\ WholeOK' /\ LossOK'
  BY <1>1 DEF IInv, ControlOK, CountsOK, CountedIn, WholeOK, WholeIn, Lives, LossOK, NoneLost,
     Running, Open, Waiting
<1>4. LiveOK' /\ CompletedIsImported' /\ LiveRowsStay'
  BY <1>1 DEF IInv, LiveOK, Untroubled, CompletedIsImported, LiveRowsStay
<1> QED
  BY <1>2, <1>3, <1>4 DEF IInv

LEMMA SkipRunKeeps == ASSUME IInv, SkipRun PROVE IInv'
BY DEF IInv, TypeOK, ControlOK, CountsOK, CountedIn, WholeOK, WholeIn, Lives, LossOK, NoneLost,
   LiveOK, Untroubled, CompletedIsImported, LiveRowsStay, Running, Open, Waiting, SkipRun,
   ShouldRun, sources, ended

LEMMA SkipBootstrapKeeps == ASSUME IInv, SkipBootstrap PROVE IInv'
BY DEF IInv, TypeOK, ControlOK, CountsOK, CountedIn, WholeOK, WholeIn, Lives, LossOK, NoneLost,
   LiveOK, Untroubled, CompletedIsImported, LiveRowsStay, Running, Open, Waiting, SkipBootstrap,
   Fault, sources, ended

LEMMA BeginKeeps == ASSUME IInv, Begin PROVE IInv'
<1>1. PICK b \in SUBSET todo : batch' = b /\ todo' = todo \ b
  BY DEF Begin, Slice
<1>2. Waiting' = Waiting
  BY <1>1 DEF Waiting, Begin, IInv, ControlOK, Open, sources, ended
<1>3. TypeOK' /\ ControlOK'
  BY <1>1 DEF IInv, TypeOK, ControlOK, Begin, Running, Open, sources, ended
<1>4. CountsOK' /\ WholeOK' /\ LossOK'
  BY <1>2 DEF IInv, CountsOK, CountedIn, WholeOK, WholeIn, Lives, LossOK, NoneLost, Begin,
     Running, Open, sources, ended
<1>5. LiveOK' /\ CompletedIsImported' /\ LiveRowsStay'
  BY DEF IInv, LiveOK, Untroubled, CompletedIsImported, LiveRowsStay, Begin, sources, ended
<1> QED
  BY <1>3, <1>4, <1>5 DEF IInv

LEMMA BeginFailsKeeps == ASSUME IInv, BeginFails PROVE IInv'
<1>0. /\ stats' \in [seen : BOOLEAN, imported : BOOLEAN, errors : BOOLEAN]
      /\ stats'.imported = stats.imported
  BY DEF BeginFails, BatchLost, IInv, TypeOK
<1>1. todo' \subseteq todo
  BY DEF BeginFails, Slice
<1>2. Waiting' \subseteq Waiting
  BY <1>1 DEF Waiting, BeginFails
<1>3. TypeOK' /\ ControlOK'
  <2>1. TypeOK'
    BY <1>0, <1>1 DEF IInv, TypeOK, BeginFails, Fault, sources, ended
  <2>2. ControlOK'
    BY <1>1 DEF IInv, ControlOK, BeginFails, Running, Open, sources, ended
  <2> QED
    BY <2>1, <2>2
<1>4. CountsOK' /\ WholeOK'
  BY <1>0, <1>2 DEF IInv, CountsOK, CountedIn, WholeOK, WholeIn, Lives, BeginFails, Running, Open,
     sources, ended
<1>5. LossOK'
  BY DEF IInv, TypeOK, LossOK, BeginFails, BatchLost, Open, sources, ended
<1>6. LiveOK' /\ CompletedIsImported' /\ LiveRowsStay'
  BY DEF IInv, LiveOK, Untroubled, CompletedIsImported, LiveRowsStay, BeginFails, sources, ended
<1> QED
  BY <1>3, <1>4, <1>5, <1>6 DEF IInv

\* Writing a record takes it from those that wait and counts it.
LEMMA WriteKeeps == ASSUME IInv, NEW a \in Alpha, Write(a) PROVE IInv'
<1>1. /\ tx' \in Tables /\ tx'.policy = [tx.policy EXCEPT ![a] = @ + 1]
      /\ tx'.edge = [tx.edge EXCEPT ![a] = @ + 1] /\ tx'.completed = tx.completed
  BY WrittenFacts DEF Write, IInv, TypeOK, sources, ended
<1>2. /\ tx.policy \in [Alpha -> Nat] /\ tx.edge \in [Alpha -> Nat] /\ failed \in Nat
  BY DEF IInv, TypeOK, Tables
<1>3. TypeOK' /\ ControlOK'
  BY <1>1 DEF IInv, TypeOK, ControlOK, Write, Running, Open, sources, ended
<1>4. CountsOK'
  <2>0. stats'.imported
    BY DEF Write, IInv, TypeOK
  <2>1. a \in Waiting /\ Waiting' \subseteq Waiting /\ (\A c \in Waiting : c # a => c \in Waiting')
    BY DEF Write, Waiting
  <2>2. CountedIn(db)'
    BY <2>0, <2>1 DEF IInv, CountsOK, CountedIn, Write, Running, sources, ended
  <2>3. CountedIn(tx)'
    <3>1. tx.policy[a] <= failed /\ CountedIn(tx)
      BY <2>1 DEF IInv, CountsOK, CountedIn, Write, Running, Open, sources, ended
    <3>2. \A c \in Alpha : tx'.policy[c] = IF c = a THEN tx.policy[c] + 1 ELSE tx.policy[c]
      BY <1>1, <1>2
    <3>3. \A c \in Alpha : tx'.policy[c] <= 1 + failed'
      BY <1>2, <3>1, <3>2 DEF CountedIn, Write, ended
    <3>4. \A c \in Waiting' : c = a => tx.policy[c] + 1 <= failed
      <4> SUFFICES ASSUME a \in Waiting' PROVE FALSE
        OBVIOUS
      <4> QED
        BY DEF Write, Waiting, IInv, ControlOK, sources, ended
    <3>5. \A c \in Waiting' : tx'.policy[c] <= failed'
      BY <1>2, <2>1, <3>1, <3>2, <3>4 DEF CountedIn, Write, Running, Waiting, IInv, TypeOK,
         sources, ended
    <3> QED
      BY <2>0, <3>3, <3>5 DEF CountedIn
  <2> QED
    BY <2>2, <2>3 DEF CountsOK, Write, Running
<1>5. WholeOK'
  BY <1>1, <1>2 DEF IInv, WholeOK, WholeIn, Lives, Write, Open, sources, ended
<1>6. LossOK'
  <2> SUFFICES ASSUME ~stats'.errors PROVE NoneLost(tx)'
    BY DEF LossOK, Write, Open
  <2>1. NoneLost(tx)
    BY DEF IInv, TypeOK, LossOK, Write, Open, sources, ended
  <2>2. \A c \in Alpha : /\ tx.policy[c] > 0 \/ c = a => tx'.policy[c] > 0
    BY <1>1, <1>2
  <2>3. \A c \in Waiting : c # a => c \in Waiting'
    BY DEF Write, Waiting
  <2>4. legacy \subseteq Alpha /\ legacy' = legacy /\ unread' = unread
    BY ImportAssumption DEF Write, sources, IInv, TypeOK
  <2> QED
    BY <2>1, <2>2, <2>3, <2>4 DEF NoneLost
<1>7. LiveOK' /\ CompletedIsImported' /\ LiveRowsStay'
  BY DEF IInv, LiveOK, Untroubled, CompletedIsImported, LiveRowsStay, Write, sources, ended
<1> QED
  BY <1>3, <1>4, <1>5, <1>6, <1>7 DEF IInv

LEMMA TransactionFailsKeeps == ASSUME IInv, TransactionFails PROVE IInv'
<1>1. /\ stats' \in [seen : BOOLEAN, imported : BOOLEAN, errors : BOOLEAN] /\ stats'.errors
      /\ stats.imported => stats'.imported
  BY DEF TransactionFails, BatchLost, IInv, TypeOK, sources, ended
<1>2. Waiting' \subseteq Waiting
  BY DEF TransactionFails, Waiting
<1>3. TypeOK' /\ ControlOK'
  BY <1>1 DEF IInv, TypeOK, ControlOK, TransactionFails, Fault, Running, Open, sources, ended
<1>4. CountsOK' /\ WholeOK' /\ LossOK'
  BY <1>1, <1>2 DEF IInv, CountsOK, CountedIn, WholeOK, WholeIn, Lives, LossOK,
     TransactionFails, Running, Open, sources, ended
<1>5. LiveOK' /\ CompletedIsImported' /\ LiveRowsStay'
  BY DEF IInv, LiveOK, Untroubled, CompletedIsImported, LiveRowsStay, TransactionFails, sources,
     ended
<1> QED
  BY <1>3, <1>4, <1>5 DEF IInv

LEMMA CommitKeeps == ASSUME IInv, Commit PROVE IInv'
<1>1. TypeOK' /\ ControlOK'
  <2>1. db' = tx /\ ~tx.completed
    BY DEF Commit, IInv, ControlOK, Open, sources, ended
  <2> QED
    BY <2>1 DEF IInv, TypeOK, ControlOK, Commit, Running, Open, sources, ended
<1>2. CountsOK' /\ WholeOK' /\ LossOK'
  BY DEF IInv, CountsOK, CountedIn, WholeOK, WholeIn, Lives, LossOK, NoneLost, Commit, Running,
     Open, Waiting, sources, ended
<1>3. LiveOK' /\ CompletedIsImported' /\ LiveRowsStay'
  <2>1. ~db'.completed /\ ~db.completed
    BY DEF Commit, IInv, ControlOK, Open, Running, sources, ended
  <2>2. Untroubled => lived = {}
    BY <2>1 DEF IInv, LiveOK
  <2>3. LiveOK' /\ CompletedIsImported'
    BY <2>1, <2>2 DEF LiveOK, Untroubled, CompletedIsImported, Commit, ended
  <2>4. LiveRowsStay'
    BY <2>2 DEF LiveRowsStay, Untroubled, Commit, IInv, TypeOK, sources, ended
  <2> QED
    BY <2>3, <2>4
<1> QED
  BY <1>1, <1>2, <1>3 DEF IInv

\* Both conclusions leave the counts and rows alone.
LEMMA ConcludeKeeps ==
  ASSUME IInv, Conclude, NEW c \in BOOLEAN, db' = [db EXCEPT !.completed = c],
         c => Complete, pc' \in {"bootstrap", "idle"},
         \/ failed' = failed + 1 /\ unfinished' = TRUE
         \/ /\ failed' = failed /\ (c \/ ~stats.imported) /\ pc' = "bootstrap"
            /\ unfinished' = (unfinished \/ ~c),
         faults' \in Nat
  PROVE  IInv'
<1>1. /\ db' \in Tables /\ db'.completed = c /\ db'.member = db.member
      /\ db'.edge = db.edge /\ db'.policy = db.policy
  BY CompletedFacts DEF IInv, TypeOK
<1>2. /\ failed \in Nat /\ db.policy \in [Alpha -> Nat]
  BY DEF IInv, TypeOK, Tables
<1>3. todo = {} /\ batch = {} /\ pc = "batches"
  BY DEF IInv, ControlOK, Conclude, Open, sources, ended
<1>4. TypeOK' /\ ControlOK'
  <2>1. failed' \in Nat
    BY <1>2
  <2>2. unfinished' \in BOOLEAN
    <3>1. unfinished' = TRUE \/ unfinished' = (unfinished \/ ~c)
      OBVIOUS
    <3> QED
      BY <3>1, Zenon
  <2>3. unseen' \in BOOLEAN
    <3>1. unseen' = (unseen \/ ~stats.seen)
      BY DEF Conclude
    <3> QED
      BY <3>1, Zenon
  <2> QED
    BY <1>1, <2>1, <2>2, <2>3 DEF IInv, TypeOK, ControlOK, Conclude, Running, Open, sources, ended
<1>5. CountsOK'
  <2>1. \A a \in Alpha : /\ db.policy[a] <= 1 + failed
                         /\ ~stats.imported => db.policy[a] <= failed
    BY <1>3 DEF IInv, CountsOK, CountedIn, Running
  <2>2. \A a \in Alpha : db'.policy[a] <= 1 + failed' /\ (~c => db'.policy[a] <= failed')
    BY <1>1, <1>2, <2>1
  <2> QED
    BY <1>1, <2>2 DEF CountsOK, CountedIn, Running, Open
<1>6. WholeOK' /\ LossOK'
  BY <1>1 DEF IInv, WholeOK, WholeIn, Lives, LossOK, Open, Conclude, sources, ended
<1>7. CompletedIsImported'
  <2> SUFFICES ASSUME c, stats.seen PROVE \A a \in legacy \ unread : db'.policy[a] > 0
    BY <1>1 DEF CompletedIsImported, Conclude, IInv, TypeOK, sources, ended
  <2>1. ~stats.errors
    BY DEF Complete, IInv, TypeOK
  <2>2. NoneLost(db)
    BY <1>3, <2>1 DEF IInv, LossOK
  <2> QED
    BY <1>1, <1>3, <2>2 DEF NoneLost, Waiting
<1>8. LiveOK' /\ LiveRowsStay'
  BY <1>1, <1>2 DEF IInv, LiveOK, Untroubled, LiveRowsStay, Conclude, sources, ended
<1> QED
  BY <1>4, <1>5, <1>6, <1>7, <1>8 DEF IInv

\* The row of an alpha's own result makes the population not empty.
LEMMA BootstrapKeeps ==
  ASSUME IInv, pc = "bootstrap", pc' = "work", NEW S \in SUBSET Alpha, NEW sighted \in BOOLEAN,
         db' = IF BootstrapDue(sighted) THEN Repopulated(S) ELSE db,
         blind' = (blind \/ ~sighted), faults' \in Nat,
         UNCHANGED <<tx, todo, batch, stats, sources, lived, unread, ended, unseen>>
  PROVE  IInv'
<1>1. /\ db' \in Tables /\ db'.completed = db.completed
      /\ db'.edge = db.edge /\ db'.policy = db.policy
  BY RepopulatedFacts DEF IInv, TypeOK
<1>2. TypeOK' /\ ControlOK'
  BY <1>1 DEF IInv, TypeOK, ControlOK, Running, Open, sources, ended
<1>3. CountsOK' /\ WholeOK' /\ LossOK' /\ CompletedIsImported'
  BY <1>1 DEF IInv, CountsOK, CountedIn, WholeOK, WholeIn, Lives, LossOK, NoneLost, Running, Open,
     Waiting, CompletedIsImported, sources, ended
<1>4. LiveOK'
  BY <1>1 DEF IInv, LiveOK, Untroubled, ended
<1>5. LiveRowsStay'
  <2> SUFFICES ASSUME Untroubled', NEW a \in lived PROVE db'.member[a] = "live"
    BY DEF LiveRowsStay, Untroubled, IInv, TypeOK, ended
  <2>1. Untroubled /\ sighted
    BY DEF Untroubled, ended
  <2>2. db.completed /\ db.member[a] = "live" /\ a \in Alpha
    BY <2>1 DEF IInv, TypeOK, LiveOK, LiveRowsStay, Untroubled
  <2>3. ~BootstrapDue(sighted)
    BY <2>1, <2>2 DEF BootstrapDue, Populated
  <2> QED
    BY <2>2, <2>3
<1> QED
  BY <1>2, <1>3, <1>4, <1>5 DEF IInv

LEMMA AfterBacktestKeeps == ASSUME IInv, NEW a \in Alpha, AfterBacktest(a) PROVE IInv'
<1> DEFINE e == Edge(db, a)
           f == [db.member EXCEPT ![a] = "live"]
<1>1. e \in Tables /\ e.policy = db.policy /\ e.completed = db.completed
      /\ e.edge = [db.edge EXCEPT ![a] = @ + 1]
  BY EdgeFacts DEF IInv, TypeOK
<1>2. f \in [Alpha -> Row] /\ f[a] = "live" /\ \A c \in Alpha : c # a => f[c] = db.member[c]
  BY DEF IInv, TypeOK, Tables, Row
<1>3. db' = [e EXCEPT !.member = f]
  BY DEF AfterBacktest
<1>4. db.policy \in [Alpha -> Nat] /\ db.edge \in [Alpha -> Nat]
  BY DEF IInv, TypeOK, Tables
<1> HIDE DEF e, f
<1>5. /\ db' \in Tables /\ db'.policy = db.policy /\ db'.completed = db.completed
      /\ db'.edge = [db.edge EXCEPT ![a] = @ + 1] /\ db'.member = f
  BY <1>1, <1>2, <1>3 DEF Tables
<1>6. a \notin lived /\ lived' = lived \cup {a} /\ pc = "work" /\ pc' = "work"
  BY DEF AfterBacktest, IInv, TypeOK, sources, ended
<1>7. TypeOK' /\ ControlOK'
  <2>1. held' \in [Alpha -> SUBSET Source] /\ nameless' \subseteq Source
    BY ImportAssumption DEF AfterBacktest, IInv, TypeOK
  <2> QED
    BY <1>5, <2>1 DEF IInv, TypeOK, ControlOK, AfterBacktest, Running, Open, sources, ended
<1>8. CountsOK' /\ LossOK' /\ CompletedIsImported'
  BY <1>5 DEF IInv, CountsOK, CountedIn, LossOK, NoneLost, Running, Open, Waiting,
     CompletedIsImported, AfterBacktest, sources, ended
<1>9. WholeOK'
  <2>1. \A c \in Alpha : Lives(c)' = IF c = a THEN 1 ELSE Lives(c)
    BY <1>6 DEF Lives
  <2>2. Lives(a) = 0
    BY <1>6 DEF Lives
  <2>3. \A c \in Alpha : db'.edge[c] = db'.policy[c] + Lives(c)'
    BY <1>4, <1>5, <2>1, <2>2 DEF IInv, WholeOK, WholeIn
  <2> QED
    BY <1>6, <2>3 DEF WholeOK, WholeIn, Open
<1>10. LiveOK' /\ LiveRowsStay'
  BY <1>2, <1>5, <1>6 DEF IInv, TypeOK, LiveOK, LiveRowsStay, Untroubled, AfterBacktest,
     sources, ended
<1> QED
  BY <1>7, <1>8, <1>9, <1>10 DEF IInv

LEMMA EndTemplateKeeps == ASSUME IInv, EndTemplate PROVE IInv'
BY DEF IInv, TypeOK, ControlOK, CountsOK, CountedIn, WholeOK, WholeIn, Lives, LossOK, NoneLost,
   LiveOK, Untroubled, CompletedIsImported, LiveRowsStay, Running, Open, Waiting, EndTemplate,
   sources, ended

LEMMA CrashKeeps == ASSUME IInv, Crash PROVE IInv'
<1>1. failed \in Nat /\ db.policy \in [Alpha -> Nat]
  BY DEF IInv, TypeOK, Tables
<1>2. TypeOK' /\ ControlOK'
  <2>1. failed' \in Nat
    BY <1>1 DEF Crash, ended
  <2>2. unfinished' \in BOOLEAN
    <3>1. unfinished' = TRUE \/ unfinished' = unfinished
      BY DEF Crash, ended
    <3>2. unfinished \in BOOLEAN
      BY DEF IInv, TypeOK
    <3> QED
      BY <3>1, <3>2, Zenon
  <2> QED
    BY <2>1, <2>2 DEF IInv, TypeOK, ControlOK, Crash, Fault, Running, Open, sources
<1>3. failed' \in Nat /\ failed <= failed' /\ (Running => failed' = failed + 1)
  BY <1>1 DEF Crash, Running, ended
<1>4. CountsOK'
  <2>1. \A a \in Alpha : /\ db.policy[a] <= 1 + failed
                         /\ ~Running /\ ~db.completed => db.policy[a] <= failed
    BY DEF IInv, CountsOK, CountedIn
  <2>2. \A a \in Alpha : db.policy[a] <= 1 + failed' /\ (~db.completed => db.policy[a] <= failed')
    BY <1>1, <1>3, <2>1
  <2> QED
    BY <2>2 DEF CountsOK, CountedIn, Crash, Running, Open
<1>5. WholeOK' /\ LossOK' /\ CompletedIsImported'
  BY DEF IInv, WholeOK, WholeIn, Lives, LossOK, CompletedIsImported, Crash, Open, sources, ended
<1>6. LiveOK' /\ LiveRowsStay'
  BY <1>1, <1>3 DEF IInv, LiveOK, LiveRowsStay, Untroubled, Crash, sources, ended
<1> QED
  BY <1>2, <1>4, <1>5, <1>6 DEF IInv

LEMMA Inductive == IInv /\ [Next]_vars => IInv'
<1> SUFFICES ASSUME IInv, [Next]_vars PROVE IInv'
  OBVIOUS
<1>1. faults \in Nat /\ (Fault => faults' \in Nat)
  BY DEF IInv, TypeOK, Fault
<1>2. CASE ReadAll
  BY <1>1, <1>2, ReadKeeps DEF ReadAll
<1>3. CASE ReadSome
  BY <1>1, <1>3, ReadKeeps DEF ReadSome
<1>4. CASE SkipRun \/ SkipBootstrap \/ Begin \/ BeginFails \/ TransactionFails \/ Commit
        \/ EndTemplate \/ Crash \/ \E f \in Silent : Damage(f)
  BY <1>4, SkipRunKeeps, SkipBootstrapKeeps, BeginKeeps, BeginFailsKeeps, TransactionFailsKeeps,
     CommitKeeps, EndTemplateKeeps, CrashKeeps, DamageKeeps
<1>5. CASE \E a \in Alpha : Write(a) \/ AfterBacktest(a)
  BY <1>5, WriteKeeps, AfterBacktestKeeps
<1>6. Complete \in BOOLEAN /\ db.completed \in BOOLEAN
  BY DEF IInv, TypeOK, Tables, Complete
<1>7. CASE Finalize
  BY <1>1, <1>6, <1>7, ConcludeKeeps DEF Finalize
<1>8. CASE FinalizeFails
  <2>1. ~db.completed
    BY <1>8 DEF FinalizeFails, Conclude, IInv, ControlOK, Running, sources, ended
  <2>2. PICK c \in {db.completed, Complete, FALSE} : db' = [db EXCEPT !.completed = c]
    BY <1>8 DEF FinalizeFails
  <2>3. c \in BOOLEAN /\ (c => Complete)
    <3>1. CASE c = db.completed
      BY <1>6, <2>1, <3>1, Zenon
    <3>2. CASE c = Complete
      BY <1>6, <3>2, Zenon
    <3>3. CASE c = FALSE
      BY <3>3
    <3> QED
      BY <2>2, <3>1, <3>2, <3>3
  <2> QED
    BY <1>1, <1>8, <2>2, <2>3, ConcludeKeeps DEF FinalizeFails
<1>9. CASE Bootstrap
  <2>1. blind' = (blind \/ ~TRUE) /\ recorded \in SUBSET Alpha
    BY <1>9 DEF Bootstrap, recorded, IInv, TypeOK
  <2> QED
    BY <1>1, <1>9, <2>1, BootstrapKeeps DEF Bootstrap
<1>10. CASE BootstrapBlind
  <2>1. SUBSET recorded \subseteq SUBSET Alpha
    BY DEF recorded
  <2> QED
    BY <1>1, <1>10, <2>1, BootstrapKeeps DEF BootstrapBlind
<1>11. CASE UNCHANGED vars
  BY <1>11 DEF vars, sources, ended, IInv, TypeOK, ControlOK, CountsOK, CountedIn, WholeOK,
     WholeIn, Lives, LossOK, NoneLost, LiveOK, Untroubled, CompletedIsImported, LiveRowsStay,
     Running, Open, Waiting
<1> QED
  BY <1>2, <1>3, <1>4, <1>5, <1>7, <1>8, <1>9, <1>10, <1>11 DEF Next, Step, Faulty

LEMMA Invariant == Spec => []IInv
BY Start, Inductive, PTL DEF Spec

-----------------------------------------------------------------------------
\* A record is counted once, and once more for every run that failed.
THEOREM CountsAreBounded == Spec => []CountedOncePerRun
<1>1. IInv => CountedOncePerRun
  <2> SUFFICES ASSUME IInv, NEW a \in Alpha
               PROVE  db.policy[a] <= 1 + failed /\ db.edge[a] <= 1 + failed + Lives(a)
    BY DEF CountedOncePerRun
  <2>1. db.policy[a] <= 1 + failed /\ db.edge[a] = db.policy[a] + Lives(a)
    BY DEF IInv, CountsOK, CountedIn, WholeOK, WholeIn
  <2>2. db.policy[a] \in Nat /\ failed \in Nat /\ Lives(a) \in Nat
    BY DEF IInv, TypeOK, Tables, Lives
  <2> QED
    BY <2>1, <2>2
<1> QED
  BY Invariant, <1>1, PTL

\* The variables keep their types.
THEOREM TypeCorrect == Spec => []TypeOK
<1>1. IInv => TypeOK
  BY DEF IInv
<1> QED
  BY Invariant, <1>1, PTL

\* The completion is written only when the records of the start are imported whose
\* sources did not all look empty, or when a run saw no row.
THEOREM CompletionIsTrue == Spec => []CompletedIsImported
<1>1. IInv => CompletedIsImported
  BY DEF IInv
<1> QED
  BY Invariant, <1>1, PTL

\* Without an incomplete run or a failed read no live row is overwritten.
THEOREM LiveRowsAreKept == Spec => []LiveRowsStay
<1>1. IInv => LiveRowsStay
  BY DEF IInv
<1> QED
  BY Invariant, <1>1, PTL

=============================================================================
