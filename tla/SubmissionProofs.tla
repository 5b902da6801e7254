-------------------------- MODULE SubmissionProofs --------------------------
(***************************************************************************)
(* Proofs about the way of a template's code to the platform: the backtest *)
(* attempt, for any number of sessions and browser restarts, the waiting   *)
(* for its result inside the attempt, and the template loop that calls it. *)
(* Each property has its part of the inductive invariant and a lemma that  *)
(* a step keeps that part.                                                 *)
(***************************************************************************)
EXTENDS BacktestAttempt, WaitResult, TemplateLoop, TLAPS

\* The facts of the policy table the proofs need.
LEMMA Policies ==
  ASSUME NEW s \in STATE_ORDER
  PROVE  /\ MaxRetry(s) \in Nat
         /\ Level(s) \in {1, 3, 4}
         /\ Level(s) = 1 <=> s \in {WRITE_CODE, WRITE_NAME, CLICK_RUN}
         /\ s = CLICK_RUN => MaxRetry(s) = 1
BY DEF STATE_ORDER, MaxRetry, Level, INIT, AUTH_CHECK, OPEN_SIMULATE, EDITOR_READY,
       WRITE_CODE, WRITE_NAME, CLICK_RUN, WAIT_QUEUE, WAIT_RESULT, PARSE_RESULT,
       QUALITY_CHECK, ADD_FAVORITE, FINISHED

LEMMA InitState == MaxRetry(INIT) = 0 /\ INIT \in STATE_ORDER /\ INIT < WRITE_CODE
BY DEF STATE_ORDER, MaxRetry, INIT, AUTH_CHECK, OPEN_SIMULATE, EDITOR_READY,
       WRITE_CODE, WRITE_NAME, CLICK_RUN, WAIT_QUEUE, WAIT_RESULT, PARSE_RESULT,
       QUALITY_CHECK, ADD_FAVORITE, FINISHED

-----------------------------------------------------------------------------
(* Type correctness.                                                       *)

\* A request that is not over has recoveries and restarts left.
Room ==
  pc \in {"open", "fsm", "decide"} => recoveries <= MaxRecovery /\ restarts <= MaxRestart

TypeInv == TypeOK /\ Room

\* An exception of a handler either has the page restored for a retry of one of
\* the three editor states or ends the task.
LEMMA RaiseEffect ==
  ASSUME TypeOK, HandlerRaises
  PROVE  \/ /\ state \in {WRITE_CODE, WRITE_NAME, CLICK_RUN}
            /\ retry < MaxRetry(state) /\ retry' = retry + 1 /\ step' = "enter"
            /\ page' = Restored(state)
            /\ UNCHANGED <<alpha, state, quality>>
         \/ /\ alpha' \in {"fatal", "unhandled"}
            /\ UNCHANGED <<state, retry, step, page, quality>>
<1>1. state \in STATE_ORDER
  BY DEF TypeOK
<1>. QED
  BY <1>1, Policies DEF HandlerRaises, Recover

\* The actions of the alpha task leave the driver and the browser alone.
LEMMA AlphaFrame ==
  ASSUME AlphaStep \/ AlphaTimeout
  PROVE  Running /\ UNCHANGED <<driverVars, browser, unhealthy>>
BY DEF AlphaStep, AlphaTimeout, WriteCode, WriteName, ClickRun, ParseResult,
       AddFavorite, StateExit, StateRaises, LibraryAppendRaises, StateRejects,
       Handling, Acted, Running

\* The actions of the driver, the browser and the watchdog leave the task and
\* what is outside alone, but for a session that is opened.
LEMMA OtherFrame ==
  ASSUME DriverStep \/ BrowserDies \/ BrowserUnhealthy \/ UNCHANGED vars
  PROVE  UNCHANGED outsideVars /\ (OpenSession \/ UNCHANGED fsmVars)
BY DEF DriverStep, OpenRaises, OpenSession, Resume, ReturnResult, RetrySession,
       RestartBrowser, BrowserDies, BrowserUnhealthy, vars

\* How the driver counts: a session is opened after a recovery or a restart.
LEMMA DriverFrame ==
  ASSUME TypeInv, DriverStep \/ BrowserDies \/ BrowserUnhealthy \/ UNCHANGED vars
  PROVE  \/ UNCHANGED <<pc, recoveries, restarts>>
         \/ pc = "open" /\ pc' = "fsm" /\ OpenSession /\ UNCHANGED <<recoveries, restarts>>
         \/ pc = "fsm" /\ pc' = "decide" /\ UNCHANGED <<recoveries, restarts>>
         \/ pc' \in {"returned", "raised"}
         \/ /\ pc = "decide" /\ pc' = "open"
            /\ recoveries' + restarts' = recoveries + restarts + 1
<1> USE LimitsAssumption DEF TypeInv, TypeOK
<1>1. CASE OpenSession \/ OpenRaises \/ Resume
  BY <1>1 DEF OpenSession, OpenRaises, Resume
<1>2. CASE ReturnResult
  BY <1>2 DEF ReturnResult
<1>3. CASE RetrySession
  BY <1>3 DEF RetrySession
<1>4. CASE RestartBrowser
  BY <1>4 DEF RestartBrowser
<1>5. CASE BrowserDies \/ BrowserUnhealthy \/ UNCHANGED vars
  BY <1>5 DEF BrowserDies, BrowserUnhealthy, vars, driverVars
<1>. QED
  BY <1>1, <1>2, <1>3, <1>4, <1>5 DEF DriverStep

LEMMA InitTypeInv == ASSUME Init PROVE TypeInv
<1>1. state \in STATE_ORDER /\ retry \in 0 .. MaxRetry(state)
  BY InitState DEF Init
<1>2. page \in [code : BOOLEAN, name : BOOLEAN]
  BY DEF Init, Blank
<1>3. recoveries \in 0 .. MaxRecovery + 1 /\ restarts \in 0 .. MaxRestart + 1 /\ Room
  BY LimitsAssumption DEF Init, Room
<1>4. /\ pc \in {"open", "fsm", "decide", "returned", "raised"}
      /\ result \in Ended \cup {"none", "watchdog"} /\ alpha \in Ended \cup {"running"}
      /\ browser \in {"up", "down"} /\ unhealthy \in BOOLEAN
  BY DEF Init
<1>5. /\ step \in {"enter", "acted"} /\ quality \in {"none", "passed", "failed"}
      /\ launched \in SUBSET [code : BOOLEAN, name : BOOLEAN]
      /\ runs \in Nat /\ favLog \in Nat /\ library \in Nat
  BY DEF Init
<1>. QED
  BY <1>1, <1>2, <1>3, <1>4, <1>5 DEF TypeInv, TypeOK

LEMMA AlphaTypeInv ==
  ASSUME TypeInv, AlphaStep \/ AlphaTimeout PROVE TypeInv'
<1>1. UNCHANGED <<pc, recoveries, restarts, result, browser, unhealthy>>
  BY AlphaFrame DEF driverVars
<1> DEFINE Typed ==
      /\ alpha' \in Ended \cup {"running"}
               /\ state' \in STATE_ORDER
               /\ retry' \in 0 .. MaxRetry(state')
               /\ step' \in {"enter", "acted"}
               /\ page' \in [code : BOOLEAN, name : BOOLEAN]
               /\ quality' \in {"none", "passed", "failed"}
               /\ launched' \in SUBSET [code : BOOLEAN, name : BOOLEAN]
               /\ runs' \in Nat /\ favLog' \in Nat /\ library' \in Nat
<1>2. SUFFICES Typed
  BY <1>1 DEF TypeInv, TypeOK, Room
<1> USE DEF TypeInv, TypeOK
<1>3. CASE WriteCode \/ WriteName \/ ClickRun \/ ParseResult \/ AddFavorite
  <2>1. UNCHANGED <<alpha, state, retry>> /\ step' \in {"enter", "acted"}
    BY <1>3 DEF WriteCode, WriteName, ClickRun, ParseResult, AddFavorite, Acted
  <2>2. page' \in [code : BOOLEAN, name : BOOLEAN]
    BY <1>3 DEF WriteCode, WriteName, ClickRun, ParseResult, AddFavorite
  <2>3. launched' \in SUBSET [code : BOOLEAN, name : BOOLEAN]
    BY <1>3 DEF WriteCode, WriteName, ClickRun, ParseResult, AddFavorite, outsideVars
  <2>4. /\ quality' \in {"none", "passed", "failed"}
        /\ runs' \in Nat /\ favLog' \in Nat /\ library' \in Nat
    BY <1>3 DEF WriteCode, WriteName, ClickRun, ParseResult, AddFavorite, outsideVars
  <2>. QED
    BY <2>1, <2>2, <2>3, <2>4
<1>4. CASE StateExit
  <2>1. CASE state = FINISHED
    BY <1>4, <2>1 DEF StateExit, outsideVars, Ended
  <2>2. CASE state # FINISHED
    <3>1. state + 1 \in STATE_ORDER
      BY <2>2 DEF STATE_ORDER, INIT, FINISHED
    <3>2. MaxRetry(state + 1) \in Nat
      BY <3>1, Policies
    <3>. QED
      BY <1>4, <2>2, <3>1, <3>2 DEF StateExit, outsideVars
  <2>. QED
    BY <2>1, <2>2
<1>5. ASSUME HandlerRaises
      PROVE  /\ alpha' \in Ended \cup {"running"} /\ state' = state
             /\ retry' \in 0 .. MaxRetry(state)
             /\ step' \in {"enter", "acted"}
             /\ page' \in [code : BOOLEAN, name : BOOLEAN]
             /\ quality' = quality
  <2>1. MaxRetry(state) \in Nat
    BY Policies
  <2>2. Restored(state) \in [code : BOOLEAN, name : BOOLEAN]
    BY DEF Restored
  <2>. QED
    BY <1>5, <2>1, <2>2, RaiseEffect DEF Ended
<1>6. CASE StateRaises
  BY <1>5, <1>6 DEF StateRaises, outsideVars
<1>7. CASE LibraryAppendRaises
  BY <1>5, <1>7 DEF LibraryAppendRaises
<1>8. CASE StateRejects
  BY <1>8 DEF StateRejects, outsideVars, Ended
<1>9. CASE AlphaTimeout
  BY <1>9 DEF AlphaTimeout, outsideVars, Ended
<1>. QED
  BY <1>3, <1>4, <1>6, <1>7, <1>8, <1>9 DEF AlphaStep

LEMMA OtherTypeInv ==
  ASSUME TypeInv, DriverStep \/ BrowserDies \/ BrowserUnhealthy \/ UNCHANGED vars
  PROVE  TypeInv'
<1> USE LimitsAssumption DEF TypeInv, TypeOK, Room
<1>1. CASE OpenSession
  <2>1. state' \in STATE_ORDER /\ retry' \in 0 .. MaxRetry(state')
    BY <1>1, InitState DEF OpenSession
  <2>2. page' \in [code : BOOLEAN, name : BOOLEAN]
    BY <1>1 DEF OpenSession, Blank
  <2>3. /\ pc' = "fsm" /\ alpha' = "running" /\ step' = "enter" /\ quality' = "none"
        /\ browser' = "up" /\ unhealthy' = FALSE
        /\ UNCHANGED <<recoveries, restarts, result, launched, runs, favLog, library>>
        /\ pc = "open"
    BY <1>1 DEF OpenSession, outsideVars
  <2>. QED
    BY <2>1, <2>2, <2>3
<1>2. CASE OpenRaises \/ ReturnResult
  BY <1>2 DEF OpenRaises, ReturnResult, fsmVars, outsideVars
<1>3. CASE Resume
  BY <1>3 DEF Resume, FsmResult, fsmVars, outsideVars, Ended
<1>4. CASE RetrySession
  BY <1>4 DEF RetrySession, fsmVars, outsideVars
<1>5. CASE RestartBrowser
  BY <1>5 DEF RestartBrowser, fsmVars, outsideVars
<1>6. CASE BrowserDies \/ BrowserUnhealthy \/ UNCHANGED vars
  BY <1>6 DEF BrowserDies, BrowserUnhealthy, vars, driverVars, fsmVars, outsideVars
<1>. QED
  BY <1>1, <1>2, <1>3, <1>4, <1>5, <1>6 DEF DriverStep

\* Every step is one of the alpha task or one of the others.
LEMMA StepCases ==
  ASSUME [Next]_vars
  PROVE  \/ AlphaStep \/ AlphaTimeout
         \/ DriverStep \/ BrowserDies \/ BrowserUnhealthy \/ UNCHANGED vars
BY DEF Next

LEMMA NextTypeInv == ASSUME TypeInv, [Next]_vars PROVE TypeInv'
BY StepCases, AlphaTypeInv, OtherTypeInv

LEMMA TypeInvariance == Spec => []TypeInv
<1>1. Init => TypeInv
  BY InitTypeInv
<1>2. TypeInv /\ [Next]_vars => TypeInv'
  BY NextTypeInv
<1>. QED
  BY <1>1, <1>2, PTL DEF Spec

\* The variables of the attempt stay in their sets: no state uses more retries
\* than its policy has (workflow_state.py), the driver counts no further than
\* one past its limits (simulate.py).
THEOREM TypeCorrect == Spec => []TypeOK
<1>1. TypeInv => TypeOK
  BY DEF TypeInv
<1>. QED
  BY <1>1, TypeInvariance, PTL

-----------------------------------------------------------------------------
(* A click on Run submits this alpha.                                      *)

\* What the page holds by the time each state of the editor is left.
PageReady ==
  /\ state = WRITE_CODE /\ step = "acted" => page.code
  /\ state = WRITE_NAME => page.code /\ (step = "acted" => page.name)
  /\ state >= CLICK_RUN => page.code /\ page.name

CarriesInv == RunCarriesAlpha /\ PageReady

LEMMA CarriesNext ==
  ASSUME TypeInv, CarriesInv, [Next]_vars PROVE CarriesInv'
<1> USE DEF INIT, AUTH_CHECK, OPEN_SIMULATE, EDITOR_READY, WRITE_CODE, WRITE_NAME,
            CLICK_RUN, WAIT_QUEUE, WAIT_RESULT, PARSE_RESULT, QUALITY_CHECK,
            ADD_FAVORITE, FINISHED
<1>1. state \in 1 .. 13 /\ page \in [code : BOOLEAN, name : BOOLEAN]
  BY DEF TypeInv, TypeOK, STATE_ORDER
<1>2. CASE WriteCode \/ WriteName
  BY <1>1, <1>2 DEF WriteCode, WriteName, Handling, Acted, outsideVars, CarriesInv,
                    RunCarriesAlpha, PageReady
<1>3. CASE ClickRun
  <2>1. page = [code |-> TRUE, name |-> TRUE]
    BY <1>1, <1>3 DEF ClickRun, Handling, CarriesInv, PageReady
  <2>. QED
    BY <1>3, <2>1 DEF ClickRun, Acted, CarriesInv, RunCarriesAlpha, PageReady
<1>4. CASE ParseResult \/ AddFavorite
  BY <1>4 DEF ParseResult, AddFavorite, Handling, Acted, outsideVars, CarriesInv,
              RunCarriesAlpha, PageReady
<1>5. CASE StateExit
  BY <1>1, <1>5 DEF StateExit, HandlerReturns, outsideVars, CarriesInv,
                    RunCarriesAlpha, PageReady
<1>6. ASSUME HandlerRaises PROVE PageReady'
  BY <1>1, <1>6, RaiseEffect DEF TypeInv, Restored, CarriesInv, PageReady
<1>7. CASE StateRaises \/ LibraryAppendRaises
  BY <1>6, <1>7 DEF StateRaises, LibraryAppendRaises, outsideVars, CarriesInv,
                    RunCarriesAlpha
<1>8. CASE StateRejects \/ AlphaTimeout
  BY <1>8 DEF StateRejects, AlphaTimeout, outsideVars, CarriesInv, RunCarriesAlpha,
              PageReady
<1>9. CASE DriverStep \/ BrowserDies \/ BrowserUnhealthy \/ UNCHANGED vars
  <2>1. RunCarriesAlpha'
    BY <1>9, OtherFrame DEF outsideVars, CarriesInv, RunCarriesAlpha
  <2>2. CASE OpenSession
    BY <2>1, <2>2 DEF OpenSession, CarriesInv, PageReady
  <2>3. CASE UNCHANGED fsmVars
    BY <2>1, <2>3 DEF fsmVars, CarriesInv, PageReady
  <2>. QED
    BY <1>9, <2>2, <2>3, OtherFrame
<1>. QED
  BY <1>2, <1>3, <1>4, <1>5, <1>7, <1>8, <1>9, StepCases DEF AlphaStep

\* Every click on Run carries the code and the name of this alpha, whatever was
\* reloaded before it (restore_page_for_state_retry in simulate.py).
THEOREM RunsCarryTheAlpha == Spec => []RunCarriesAlpha
<1>1. Init => CarriesInv
  BY DEF Init, CarriesInv, RunCarriesAlpha, PageReady, INIT, WRITE_CODE, WRITE_NAME,
         CLICK_RUN
<1>2. TypeInv /\ CarriesInv /\ [Next]_vars => CarriesInv'
  BY CarriesNext
<1>3. CarriesInv => RunCarriesAlpha
  BY DEF CarriesInv
<1>. QED
  BY <1>1, <1>2, <1>3, TypeInvariance, PTL DEF Spec

-----------------------------------------------------------------------------
(* At most two clicks on Run for each session.                             *)

\* Two for each session before this one, and the clicks of this one by the state
\* its FSM has reached.
Clicks(n) ==
  /\ state < CLICK_RUN => runs <= n
  /\ state = CLICK_RUN /\ step = "enter" => runs <= n + retry
  /\ state = CLICK_RUN => runs <= n + retry + 1
  /\ state > CLICK_RUN => runs <= n + 2

Before == 2 * (recoveries + restarts)

ClicksInv ==
  /\ pc = "open" => runs <= Before
  /\ pc \in {"fsm", "decide"} => Clicks(Before)

LEMMA CountersTyped ==
  ASSUME TypeInv
  PROVE  /\ state \in 1 .. 13 /\ retry \in Nat /\ (state = CLICK_RUN => retry <= 1)
         /\ recoveries \in Nat /\ restarts \in Nat /\ runs \in Nat
         /\ favLog \in Nat /\ library \in Nat
<1>1. /\ state \in STATE_ORDER /\ retry \in 0 .. MaxRetry(state)
      /\ recoveries \in Nat /\ restarts \in Nat /\ runs \in Nat
      /\ favLog \in Nat /\ library \in Nat
  BY LimitsAssumption DEF TypeInv, TypeOK
<1>2. MaxRetry(state) \in Nat /\ (state = CLICK_RUN => MaxRetry(state) = 1)
  BY <1>1, Policies
<1>. QED
  BY <1>1, <1>2 DEF STATE_ORDER, INIT, FINISHED

LEMMA ClicksNext ==
  ASSUME TypeInv, ClicksInv, [Next]_vars PROVE ClicksInv'
<1> USE DEF INIT, AUTH_CHECK, OPEN_SIMULATE, EDITOR_READY, WRITE_CODE, WRITE_NAME,
            CLICK_RUN, WAIT_QUEUE, WAIT_RESULT, PARSE_RESULT, QUALITY_CHECK,
            ADD_FAVORITE, FINISHED
<1>1. Before \in Nat /\ Before' = 2 * (recoveries' + restarts')
  BY CountersTyped DEF Before
<1>2. CASE AlphaStep \/ AlphaTimeout
  <2>1. pc = "fsm" /\ pc' = "fsm" /\ Before' = Before
    BY <1>2, AlphaFrame DEF Running, driverVars, Before
  <2>2. SUFFICES Clicks(Before)'
    BY <2>1 DEF ClicksInv
  <2>3. Clicks(Before)
    BY <2>1 DEF ClicksInv
  <2>4. CASE WriteCode \/ WriteName \/ ParseResult \/ AddFavorite
    BY <1>1, <2>1, <2>3, <2>4, CountersTyped
       DEF WriteCode, WriteName, ParseResult, AddFavorite, Handling, Acted,
           outsideVars, Clicks
  <2>5. CASE ClickRun
    BY <1>1, <2>1, <2>3, <2>5, CountersTyped DEF ClickRun, Handling, Acted, Clicks
  <2>6. CASE StateExit
    BY <1>1, <2>1, <2>3, <2>6, CountersTyped
       DEF StateExit, HandlerReturns, outsideVars, Clicks
  <2>7. CASE StateRaises \/ LibraryAppendRaises
    <3>1. runs' = runs /\ HandlerRaises
      BY <2>7 DEF StateRaises, LibraryAppendRaises, outsideVars
    <3>. QED
      BY <1>1, <2>1, <2>3, <3>1, CountersTyped, RaiseEffect DEF TypeInv, TypeOK, Clicks
  <2>8. CASE StateRejects \/ AlphaTimeout
    BY <2>1, <2>3, <2>8 DEF StateRejects, AlphaTimeout, outsideVars, Clicks
  <2>. QED
    BY <1>2, <2>4, <2>5, <2>6, <2>7, <2>8 DEF AlphaStep
<1>3. CASE DriverStep \/ BrowserDies \/ BrowserUnhealthy \/ UNCHANGED vars
  <2>1. runs' = runs
    BY <1>3, OtherFrame DEF outsideVars
  <2>2. CASE OpenSession
    BY <1>1, <2>1, <2>2, CountersTyped DEF OpenSession, ClicksInv, Clicks, Before
  <2>3. CASE UNCHANGED fsmVars
    <3>1. CASE UNCHANGED <<pc, recoveries, restarts>>
      BY <2>1, <2>3, <3>1 DEF ClicksInv, Clicks, Before, fsmVars
    <3>2. CASE pc = "fsm" /\ pc' = "decide" /\ UNCHANGED <<recoveries, restarts>>
      BY <2>1, <2>3, <3>2 DEF ClicksInv, Clicks, Before, fsmVars
    <3>3. CASE pc' \in {"returned", "raised"}
      BY <3>3 DEF ClicksInv
    <3>4. CASE /\ pc = "decide" /\ pc' = "open"
               /\ recoveries' + restarts' = recoveries + restarts + 1
      BY <1>1, <2>1, <3>4, CountersTyped DEF ClicksInv, Clicks, Before
    <3>. QED
      BY <1>3, <2>3, <2>2, <3>1, <3>2, <3>3, <3>4, DriverFrame
  <2>. QED
    BY <1>3, <2>2, <2>3, OtherFrame
<1>. QED
  BY <1>2, <1>3, StepCases

\* One request clicks Run at most twice for each session it opened, although
\* CLICK_RUN is retried after a click that timed out (workflow_state.py 151-166).
THEOREM RunsAreBounded == Spec => []RunsBounded
<1>1. Init => ClicksInv
  BY DEF Init, ClicksInv, Before
<1>2. TypeInv /\ ClicksInv /\ [Next]_vars => ClicksInv'
  BY ClicksNext
<1>3. TypeInv /\ ClicksInv => RunsBounded
  BY CountersTyped DEF ClicksInv, Clicks, Before, RunsBounded, Sessions, CLICK_RUN
<1>. QED
  BY <1>1, <1>2, <1>3, TypeInvariance, PTL DEF Spec

-----------------------------------------------------------------------------
(* The favorites log and the library.                                      *)

\* One row for each session before this one, and that of this session once
\* ADD_FAVORITE has written it or was left by an exception.
Favorites(n) ==
  /\ state < ADD_FAVORITE => favLog <= n
  /\ state = ADD_FAVORITE /\ step = "enter" /\ alpha = "running" => favLog <= n
  /\ favLog <= n + 1

FavoriteInv ==
  /\ pc = "open" => favLog <= recoveries + restarts
  /\ pc \in {"fsm", "decide"} => Favorites(recoveries + restarts)

LEMMA FavoriteNext ==
  ASSUME TypeInv, FavoriteInv, [Next]_vars PROVE FavoriteInv'
<1> USE DEF INIT, AUTH_CHECK, OPEN_SIMULATE, EDITOR_READY, WRITE_CODE, WRITE_NAME,
            CLICK_RUN, WAIT_QUEUE, WAIT_RESULT, PARSE_RESULT, QUALITY_CHECK,
            ADD_FAVORITE, FINISHED
<1> DEFINE n == recoveries + restarts
<1>2. CASE AlphaStep \/ AlphaTimeout
  <2>1. /\ pc = "fsm" /\ pc' = "fsm" /\ alpha = "running"
        /\ UNCHANGED <<recoveries, restarts>>
    BY <1>2, AlphaFrame DEF Running, driverVars
  <2>2. SUFFICES Favorites(n)'
    BY <2>1 DEF FavoriteInv
  <2>3. Favorites(n)
    BY <2>1 DEF FavoriteInv
  <2>4. CASE WriteCode \/ WriteName \/ ClickRun \/ ParseResult
    BY <2>1, <2>3, <2>4 DEF WriteCode, WriteName, ClickRun, ParseResult, Handling,
                            Acted, outsideVars, Favorites
  <2>5. CASE AddFavorite
    BY <2>1, <2>3, <2>5, CountersTyped DEF AddFavorite, Handling, Acted, Favorites
  <2>6. CASE StateExit
    BY <2>1, <2>3, <2>6, CountersTyped DEF StateExit, outsideVars, Favorites
  <2>7. CASE StateRaises
    BY <2>1, <2>3, <2>7, RaiseEffect DEF StateRaises, outsideVars, TypeInv, Favorites
  <2>8. CASE LibraryAppendRaises
    <3>1. alpha' \in {"fatal", "unhandled"} /\ state' = ADD_FAVORITE
      BY <2>8, RaiseEffect DEF LibraryAppendRaises, Handling, TypeInv
    <3>. QED
      BY <2>1, <2>3, <2>8, <3>1, CountersTyped
         DEF LibraryAppendRaises, Handling, Favorites
  <2>9. CASE StateRejects \/ AlphaTimeout
    BY <2>1, <2>3, <2>9 DEF StateRejects, AlphaTimeout, outsideVars, Favorites
  <2>. QED
    BY <1>2, <2>4, <2>5, <2>6, <2>7, <2>8, <2>9 DEF AlphaStep
<1>3. CASE DriverStep \/ BrowserDies \/ BrowserUnhealthy \/ UNCHANGED vars
  <2>1. favLog' = favLog
    BY <1>3, OtherFrame DEF outsideVars
  <2>2. CASE OpenSession
    BY <2>1, <2>2, CountersTyped DEF OpenSession, FavoriteInv, Favorites
  <2>3. CASE UNCHANGED fsmVars
    <3>1. CASE UNCHANGED <<pc, recoveries, restarts>>
      BY <2>1, <2>3, <3>1 DEF FavoriteInv, Favorites, fsmVars
    <3>2. CASE pc = "fsm" /\ pc' = "decide" /\ UNCHANGED <<recoveries, restarts>>
      BY <2>1, <2>3, <3>2 DEF FavoriteInv, Favorites, fsmVars
    <3>3. CASE pc' \in {"returned", "raised"}
      BY <3>3 DEF FavoriteInv
    <3>4. CASE /\ pc = "decide" /\ pc' = "open"
               /\ recoveries' + restarts' = recoveries + restarts + 1
      BY <2>1, <3>4, CountersTyped DEF FavoriteInv, Favorites
    <3>. QED
      BY <1>3, <2>2, <2>3, <3>1, <3>2, <3>3, <3>4, DriverFrame
  <2>. QED
    BY <1>3, <2>2, <2>3, OtherFrame
<1>. QED
  BY <1>2, <1>3, StepCases

\* A session writes at most one row of the favorites log: ADD_FAVORITE, which has
\* a retry, recovers at level 3 and so leaves the session (workflow_state.py 63).
THEOREM OneFavoritePerSession == Spec => []FavoriteOncePerSession
<1>1. Init => FavoriteInv
  BY DEF Init, FavoriteInv
<1>2. TypeInv /\ FavoriteInv /\ [Next]_vars => FavoriteInv'
  BY FavoriteNext
<1>3. TypeInv /\ FavoriteInv => FavoriteOncePerSession
  BY CountersTyped DEF FavoriteInv, Favorites, FavoriteOncePerSession, Sessions
<1>. QED
  BY <1>1, <1>2, <1>3, TypeInvariance, PTL DEF Spec

\* What a row of the library rests on: only AddFavorite writes one, and only
\* while there is none.
LEMMA LibraryStep ==
  ASSUME [Next]_vars
  PROVE  library' = library \/ (library = 0 /\ library' = 1 /\ favLog' = favLog + 1)
<1>1. CASE AlphaStep \/ AlphaTimeout
  BY <1>1 DEF AlphaStep, AlphaTimeout, WriteCode, WriteName, ClickRun, ParseResult,
     AddFavorite, StateExit, StateRaises, LibraryAppendRaises, StateRejects,
     LibraryAdmits, outsideVars
<1>2. CASE DriverStep \/ BrowserDies \/ BrowserUnhealthy \/ UNCHANGED vars
  BY <1>2, OtherFrame DEF outsideVars
<1>. QED
  BY <1>1, <1>2, StepCases

\* However many sessions run one alpha, its code enters the library once: the
\* correlation check of the last moment sees the row (correlation.py 115-118).
THEOREM LibraryHasItOnce == Spec => []LibraryAtMostOnce
<1>1. Init => LibraryAtMostOnce
  BY DEF Init, LibraryAtMostOnce
<1>2. LibraryAtMostOnce /\ [Next]_vars => LibraryAtMostOnce'
  BY LibraryStep DEF LibraryAtMostOnce
<1>. QED
  BY <1>1, <1>2, PTL DEF Spec

-----------------------------------------------------------------------------
(* A result returned as ok has been kept.                                  *)

Kept == favLog >= 1 /\ library >= 1

\* The FSM reaches FINISHED with a passed quality through ADD_FAVORITE only, and
\* only FINISHED makes a result ok.
KeptInv ==
  /\ state = ADD_FAVORITE /\ step = "acted" => Kept
  /\ state = FINISHED /\ quality = "passed" => Kept
  /\ alpha = "ok" => state = FINISHED
  /\ pc \in {"decide", "returned"} /\ result = "ok" => alpha = "ok"

LEMMA KeptNext ==
  ASSUME TypeInv, KeptInv, [Next]_vars PROVE KeptInv'
<1> USE DEF INIT, AUTH_CHECK, OPEN_SIMULATE, EDITOR_READY, WRITE_CODE, WRITE_NAME,
            CLICK_RUN, WAIT_QUEUE, WAIT_RESULT, PARSE_RESULT, QUALITY_CHECK,
            ADD_FAVORITE, FINISHED
<1>1. CASE AlphaStep \/ AlphaTimeout
  <2>1. pc = "fsm" /\ pc' = "fsm" /\ alpha = "running" /\ result' = result
    BY <1>1, AlphaFrame DEF Running, driverVars
  <2>2. CASE WriteCode \/ WriteName \/ ClickRun \/ ParseResult
    BY <2>1, <2>2 DEF WriteCode, WriteName, ClickRun, ParseResult, Handling, Acted,
                      outsideVars, KeptInv, Kept
  <2>3. CASE AddFavorite
    <3>1. favLog' >= 1 /\ library' >= 1
      BY <2>3, CountersTyped DEF AddFavorite
    <3>. QED
      BY <2>1, <2>3, <3>1 DEF AddFavorite, Handling, Acted, KeptInv, Kept
  <2>4. CASE StateExit
    <3>1. CASE state = FINISHED
      BY <2>1, <2>4, <3>1 DEF StateExit, outsideVars, KeptInv, Kept
    <3>2. CASE state = ADD_FAVORITE
      BY <2>1, <2>4, <3>2 DEF StateExit, HandlerReturns, FavoriteSettled, outsideVars,
                              KeptInv, Kept
    <3>3. CASE state \notin {ADD_FAVORITE, FINISHED}
      BY <2>1, <2>4, <3>3, CountersTyped DEF StateExit, outsideVars, KeptInv, Kept
    <3>. QED
      BY <3>1, <3>2, <3>3
  <2>5. CASE StateRaises
    BY <2>1, <2>5, RaiseEffect DEF StateRaises, outsideVars, TypeInv, KeptInv, Kept
  <2>6. CASE LibraryAppendRaises
    BY <2>1, <2>6, RaiseEffect
       DEF LibraryAppendRaises, Handling, TypeInv, KeptInv, Kept
  <2>7. CASE StateRejects \/ AlphaTimeout
    BY <2>1, <2>7 DEF StateRejects, AlphaTimeout, outsideVars, KeptInv, Kept
  <2>. QED
    BY <1>1, <2>2, <2>3, <2>4, <2>5, <2>6, <2>7 DEF AlphaStep
<1>2. CASE OpenSession
  BY <1>2 DEF OpenSession, KeptInv
<1>3. CASE UNCHANGED <<fsmVars, outsideVars>>
           /\ (DriverStep \/ BrowserDies \/ BrowserUnhealthy \/ UNCHANGED vars)
  <2>1. UNCHANGED <<state, step, quality, alpha, favLog, library>>
    BY <1>3 DEF fsmVars, outsideVars
  <2>2. pc' \in {"decide", "returned"} /\ result' = "ok" => alpha = "ok"
    <3>1. CASE OpenSession \/ OpenRaises
      BY <3>1 DEF OpenSession, OpenRaises
    <3>2. CASE Resume
      BY <3>2 DEF Resume, FsmResult
    <3>3. CASE ReturnResult
      BY <3>3 DEF ReturnResult, KeptInv
    <3>4. CASE RetrySession \/ RestartBrowser
      BY <3>4 DEF RetrySession, RestartBrowser, IsAutomation
    <3>5. CASE BrowserDies \/ BrowserUnhealthy \/ UNCHANGED vars
      BY <3>5 DEF BrowserDies, BrowserUnhealthy, vars, driverVars, KeptInv
    <3>. QED
      BY <1>3, <3>1, <3>2, <3>3, <3>4, <3>5 DEF DriverStep
  <2>. QED
    BY <2>1, <2>2 DEF KeptInv, Kept
<1>. QED
  BY <1>1, <1>2, <1>3, StepCases, OtherFrame

\* An ok result with a passed quality is in the favorites log and in the library,
\* whichever session put it there (simulate.py 872-897).
THEOREM PassedIsKept == Spec => []PassedIsFavorited
<1>1. Init => KeptInv
  BY DEF Init, KeptInv, INIT, ADD_FAVORITE, FINISHED
<1>2. TypeInv /\ KeptInv /\ [Next]_vars => KeptInv'
  BY KeptNext
<1>3. KeptInv => PassedIsFavorited
  BY DEF KeptInv, Kept, PassedIsFavorited
<1>. QED
  BY <1>1, <1>2, <1>3, TypeInvariance, PTL DEF Spec


-----------------------------------------------------------------------------
(* A request rejected although its code is in the library.                 *)

OneSession == recoveries + restarts = 0

\* In the first session a row of the library means that ADD_FAVORITE has acted,
\* while the correlation check rejects before it has.
RejectedInv ==
  /\ OneSession /\ library > 0 =>
       /\ pc # "open" /\ state >= ADD_FAVORITE
       /\ state = ADD_FAVORITE => step = "acted"
  /\ alpha = "final_correlation" => state = ADD_FAVORITE /\ step = "enter"
  /\ pc \in {"decide", "returned"} /\ result = "final_correlation"
       => alpha = "final_correlation"

LEMMA RejectedNext ==
  ASSUME TypeInv, RejectedInv, [Next]_vars PROVE RejectedInv'
<1> USE DEF INIT, AUTH_CHECK, OPEN_SIMULATE, EDITOR_READY, WRITE_CODE, WRITE_NAME,
            CLICK_RUN, WAIT_QUEUE, WAIT_RESULT, PARSE_RESULT, QUALITY_CHECK,
            ADD_FAVORITE, FINISHED
<1>1. CASE AlphaStep \/ AlphaTimeout
  <2>1. /\ pc = "fsm" /\ pc' = "fsm" /\ alpha = "running"
        /\ UNCHANGED <<recoveries, restarts, result>>
    BY <1>1, AlphaFrame DEF Running, driverVars
  <2>2. OneSession' <=> OneSession
    BY <2>1 DEF OneSession
  <2>3. CASE WriteCode \/ WriteName \/ ClickRun \/ ParseResult
    BY <2>1, <2>2, <2>3 DEF WriteCode, WriteName, ClickRun, ParseResult, Handling,
                            Acted, outsideVars, RejectedInv
  <2>4. CASE AddFavorite
    BY <2>1, <2>2, <2>4 DEF AddFavorite, Handling, Acted, RejectedInv
  <2>5. CASE StateExit
    BY <2>1, <2>2, <2>5, CountersTyped DEF StateExit, outsideVars, RejectedInv
  <2>6. CASE StateRaises \/ LibraryAppendRaises
    <3>1. library' = library /\ HandlerRaises
      BY <2>6 DEF StateRaises, LibraryAppendRaises, outsideVars
    <3>. QED
      BY <2>1, <2>2, <3>1, RaiseEffect DEF TypeInv, RejectedInv
  <2>7. CASE StateRejects
    BY <2>1, <2>2, <2>7 DEF StateRejects, outsideVars, RejectedInv
  <2>8. CASE AlphaTimeout
    BY <2>1, <2>2, <2>8 DEF AlphaTimeout, outsideVars, RejectedInv
  <2>. QED
    BY <1>1, <2>3, <2>4, <2>5, <2>6, <2>7, <2>8 DEF AlphaStep
<1>2. CASE OpenSession
  BY <1>2 DEF OpenSession, outsideVars, OneSession, RejectedInv
<1>3. CASE UNCHANGED <<fsmVars, outsideVars>>
           /\ (DriverStep \/ BrowserDies \/ BrowserUnhealthy \/ UNCHANGED vars)
  <2>1. UNCHANGED <<state, step, alpha, library>>
    BY <1>3 DEF fsmVars, outsideVars
  <2>2. OneSession' => OneSession /\ (pc' = "open" => pc = "open")
    <3>1. CASE UNCHANGED <<pc, recoveries, restarts>>
      BY <3>1 DEF OneSession
    <3>2. CASE pc \in {"open", "fsm"} /\ pc' \in {"fsm", "decide"}
               /\ UNCHANGED <<recoveries, restarts>>
      BY <3>2 DEF OneSession
    <3>3. CASE OpenRaises \/ ReturnResult
      BY <3>3 DEF OpenRaises, ReturnResult, OneSession
    <3>4. CASE RetrySession \/ RestartBrowser
      BY <3>4, CountersTyped DEF RetrySession, RestartBrowser, OneSession
    <3>5. CASE OpenSession \/ Resume \/ BrowserDies \/ BrowserUnhealthy \/ UNCHANGED vars
      BY <3>5, <3>1, <3>2 DEF OpenSession, Resume, BrowserDies, BrowserUnhealthy, vars,
                              driverVars
    <3>. QED
      BY <1>3, <3>3, <3>4, <3>5 DEF DriverStep
  <2>3. pc' \in {"decide", "returned"} /\ result' = "final_correlation"
          => alpha = "final_correlation"
    <3>1. CASE OpenSession \/ OpenRaises
      BY <3>1 DEF OpenSession, OpenRaises
    <3>2. CASE Resume
      BY <3>2 DEF Resume, FsmResult
    <3>3. CASE ReturnResult
      BY <3>3 DEF ReturnResult, RejectedInv
    <3>4. CASE RetrySession \/ RestartBrowser
      BY <3>4 DEF RetrySession, RestartBrowser, IsAutomation
    <3>5. CASE BrowserDies \/ BrowserUnhealthy \/ UNCHANGED vars
      BY <3>5 DEF BrowserDies, BrowserUnhealthy, vars, driverVars, RejectedInv
    <3>. QED
      BY <1>3, <3>1, <3>2, <3>3, <3>4, <3>5 DEF DriverStep
  <2>. QED
    BY <2>1, <2>2, <2>3 DEF RejectedInv
<1>. QED
  BY <1>1, <1>2, <1>3, StepCases, OtherFrame

\* An alpha that comes back rejected by the correlation check although its own
\* code is in the library was run in more than one session (favorites.py).
THEOREM RejectionIsExplained == Spec => []RejectedIsExplained
<1>1. Init => RejectedInv
  BY DEF Init, RejectedInv
<1>2. TypeInv /\ RejectedInv /\ [Next]_vars => RejectedInv'
  BY RejectedNext
<1>3. TypeInv /\ RejectedInv => RejectedIsExplained
  <2>1. SUFFICES ASSUME TypeInv, RejectedInv, pc = "returned",
                        result = "final_correlation", library > 0
                 PROVE  Sessions > 1
    BY DEF RejectedIsExplained
  <2>2. ~OneSession
    BY <2>1 DEF RejectedInv
  <2>. QED
    BY <2>1, <2>2, CountersTyped DEF OneSession, Sessions
<1>. QED
  BY <1>1, <1>2, <1>3, TypeInvariance, PTL DEF Spec


-----------------------------------------------------------------------------
(* The template loop: what every step is, and its counters.                *)

LEMMA LoopCases ==
  ASSUME [LoopNext]_loopVars
  PROVE  Check \/ HandleResult \/ FinalRecovery \/ UNCHANGED loopVars
BY DEF LoopNext

\* A skip takes the pending mutation away, and a new one needs a submission, which
\* sets the count back.
SkipInv ==
  /\ skips \in 0 .. 1
  /\ skips = 1 => pending = 0 /\ stage # "waiting"

LEMMA SkipNext ==
  ASSUME SkipInv, [LoopNext]_loopVars PROVE SkipInv'
<1>1. CASE SimulatorSkip
  BY <1>1 DEF SimulatorSkip, Submittable, MaySkip, SkipInv, Turn
<1>2. CASE Submit
  BY <1>2 DEF Submit, SkipInv
<1>3. CASE LocalRepair \/ CorrelationRepair \/ RegenerateSkipped \/ DuplicateRepair
  BY <1>3 DEF LocalRepair, CorrelationRepair, RegenerateSkipped, DuplicateRepair,
              Rewritten, checkVars, SkipInv
<1>4. CASE HandleResult
  <2>1. stage = "waiting" /\ skips' = skips
    BY <1>4 DEF HandleResult, AttemptRaises, AutomationError, PlatformError, Passed,
                QualityFailed, ResultUncertain, Result, checkVars
  <2>. QED
    BY <2>1 DEF SkipInv
<1>5. CASE FinalRecovery \/ UNCHANGED loopVars
  BY <1>5 DEF FinalRecovery, loopVars, checkVars, SkipInv
<1>. QED
  BY <1>1, <1>2, <1>3, <1>4, <1>5, LoopCases DEF Check

LEMMA SkipInvariance == LoopSpec => []SkipInv
<1>1. LoopInit => SkipInv
  BY DEF LoopInit, SkipInv
<1>2. SkipInv /\ [LoopNext]_loopVars => SkipInv'
  BY SkipNext
<1>. QED
  BY <1>1, <1>2, PTL DEF LoopSpec

\* The simulator of the experimental evolution mode never keeps two codes in a row
\* from the platform: should_skip skips pending mutations only, and a skip leaves
\* none (alpha_simulator.py 68-110, orchestrator.py 422-451).
THEOREM NoTwoSkipsInARow == LoopSpec => []SkipsNeverConsecutive
<1>1. SkipInv => SkipsNeverConsecutive
  BY DEF SkipInv, SkipsNeverConsecutive
<1>. QED
  BY <1>1, SkipInvariance, PTL

\* A loop that goes on has not reached any of its limits.
Within ==
  stage \in {"loop", "waiting"} =>
    /\ retries < HardRecovery /\ retryTotal < RetryLimit /\ uncertain < RetryLimit
    /\ syntaxErrors < MaxSyntaxErrors /\ progress.count < NoProgressLimit

LoopTypeInv == LoopTypeOK /\ Within

Progress == [kind : {"none", "local", "platform", "quality"},
             code : Code \cup {None}, count : 0 .. NoProgressLimit]

\* One more of the same trouble is at most the limit, and the limit is noticed.
LEMMA TrackedTyped ==
  ASSUME NEW previous \in Progress, previous.count < NoProgressLimit, code \in Code,
         NEW kind \in {"local", "platform", "quality"}, progress' = Tracked(previous, kind)
  PROVE  progress' \in Progress /\ (~Stuck => progress'.count < NoProgressLimit)
<1>1. NoProgressLimit \in Nat \ {0}
  BY LoopAssumption
<1>2. PICK n \in 1 .. NoProgressLimit : progress' = [kind |-> kind, code |-> code, count |-> n]
  BY <1>1 DEF Tracked, Progress
<1>. QED
  BY <1>1, <1>2 DEF Stuck, Progress

Submission == [code : Code, result : Results]

LEMMA NotEmpty ==
  ASSUME NEW T, NEW s \in Seq(T), s # <<>>
  PROVE  Len(s) \in Nat \ {0}
OBVIOUS

LEMMA SeqAsFunction ==
  ASSUME NEW T, NEW s \in Seq(T)
  PROVE  Len(s) \in Nat /\ s \in [1 .. Len(s) -> T]
OBVIOUS

LEMMA SeqSubset ==
  ASSUME NEW S, NEW T, S \subseteq T, NEW s \in Seq(S)
  PROVE  s \in Seq(T)
<1>1. Len(s) \in Nat /\ s \in [1 .. Len(s) -> S]
  BY SeqAsFunction
<1>2. s \in [1 .. Len(s) -> T]
  BY <1>1
<1>. QED
  BY <1>1, <1>2

\* The result of the last submission is the only thing that changes.
LEMMA SetResult ==
  ASSUME NEW s \in Seq(Submission), NEW r \in Results
  PROVE  LET t == [s EXCEPT ![Len(s)].result = r]
         IN  /\ t \in Seq(Submission) /\ Len(t) = Len(s)
             /\ \A i \in DOMAIN s : t[i].code = s[i].code
             /\ \A i \in DOMAIN s : i < Len(s) => t[i] = s[i]
             /\ s # <<>> => t[Len(s)].result = r
<1> DEFINE t == [s EXCEPT ![Len(s)].result = r]
<1>1. Len(s) \in Nat /\ s \in [1 .. Len(s) -> Submission]
  BY SeqAsFunction
<1>2. t \in [1 .. Len(s) -> Submission]
  BY <1>1 DEF Submission
<1>3. t \in Seq(Submission) /\ Len(t) = Len(s)
  BY <1>1, <1>2
<1>4. \A i \in DOMAIN s : t[i].code = s[i].code
  BY <1>1 DEF Submission
<1>5. \A i \in DOMAIN s : i < Len(s) => t[i] = s[i]
  BY <1>1
<1>6. s # <<>> => t[Len(s)].result = r
  BY <1>1 DEF Submission
<1>. QED
  BY <1>3, <1>4, <1>5, <1>6

LEMMA LoopTypeNext ==
  ASSUME LoopTypeInv, SkipInv, [LoopNext]_loopVars PROVE LoopTypeInv'
<1> DEFINE Texts == /\ iteration' \in 0 .. MaxIterations /\ code' \in Code
                    /\ lastSubmitted' \in Code \cup {None} /\ skipped' \subseteq Code
                    /\ pending' \in 0 .. MaxIterations
                    /\ credited' \in Seq(1 .. MaxIterations)
                    /\ submissions' \in Seq([code : Code, result : Results])
           Counts == /\ retries' \in 0 .. HardRecovery /\ retryTotal' \in 0 .. RetryLimit
                     /\ uncertain' \in 0 .. RetryLimit
                     /\ syntaxErrors' \in 0 .. MaxSyntaxErrors
                     /\ progress' \in Progress /\ Within'
                     /\ stage' \in {"loop", "waiting", "success", "failed", "raised"}
           Checks == skips' \in 0 .. SkipLimit /\ skipDisabled' \in BOOLEAN
<1>0. /\ Code \cap {None} = {} /\ Invalid \subseteq Code
      /\ MaxIterations \in Nat \ {0} /\ RetryLimit \in Nat \ {0} /\ HardRecovery \in Nat \ {0}
      /\ NoProgressLimit \in Nat \ {0} /\ SkipLimit \in Nat \ {0}
  BY LoopAssumption
<1>1. /\ iteration \in 0 .. MaxIterations /\ code \in Code
      /\ lastSubmitted \in Code \cup {None} /\ skipped \subseteq Code
      /\ pending \in 0 .. MaxIterations /\ credited \in Seq(1 .. MaxIterations)
      /\ submissions \in Seq([code : Code, result : Results])
      /\ skipDisabled \in BOOLEAN
  BY DEF LoopTypeInv, LoopTypeOK
<1>2. /\ retries \in 0 .. HardRecovery /\ retryTotal \in 0 .. RetryLimit
      /\ uncertain \in 0 .. RetryLimit /\ syntaxErrors \in 0 .. MaxSyntaxErrors
      /\ progress \in Progress /\ Within
      /\ stage \in {"loop", "waiting", "success", "failed", "raised"}
  BY DEF LoopTypeInv, LoopTypeOK, Progress
<1>3. NoProgress \in Progress /\ NoProgress.count = 0
  BY <1>0 DEF NoProgress, Progress
<1>4. Checks
  <2>1. skips' \in 0 .. SkipLimit
    BY <1>0, SkipNext DEF SkipInv
  <2>2. UNCHANGED skipDisabled \/ skipDisabled' = (skips' >= SkipLimit)
    BY LoopCases DEF Check, HandleResult, LocalRepair, CorrelationRepair,
       RegenerateSkipped, DuplicateRepair, SimulatorSkip, Submit, AttemptRaises,
       AutomationError, PlatformError, Passed, QualityFailed, ResultUncertain,
       FinalRecovery, checkVars, loopVars
  <2>3. (skips' >= SkipLimit) \in BOOLEAN
    OBVIOUS
  <2>4. skipDisabled' \in BOOLEAN
    BY <1>1, <2>2, <2>3
  <2>. QED
    BY <2>1, <2>4
<1>5. ASSUME stage = "waiting", NEW r \in Results, Result(r)
      PROVE  submissions' \in Seq([code : Code, result : Results])
  BY <1>1, <1>5, SetResult DEF Result, Submission
<1>6. ASSUME Credit PROVE credited' \in Seq(1 .. MaxIterations)
  <2>1. CASE pending = 0
    BY <1>1, <1>6, <2>1 DEF Credit
  <2>2. CASE pending # 0
    <3>1. pending \in 1 .. MaxIterations
      BY <1>0, <1>1, <2>2
    <3>. QED
      BY <1>1, <1>6, <2>2, <3>1 DEF Credit
  <2>. QED
    BY <2>1, <2>2
<1>7. Texts
  <2>1. CASE Check
    <3>1. iteration < MaxIterations /\ iteration' = iteration + 1
      BY <2>1 DEF Check, LocalRepair, CorrelationRepair, RegenerateSkipped,
                  DuplicateRepair, SimulatorSkip, Submit, Turn
    <3>2. CASE LocalRepair \/ CorrelationRepair \/ RegenerateSkipped \/ DuplicateRepair
      BY <1>0, <1>1, <3>1, <3>2
         DEF LocalRepair, CorrelationRepair, RegenerateSkipped, DuplicateRepair,
             Rewritten, checkVars, historyVars
    <3>3. CASE SimulatorSkip
      BY <1>0, <1>1, <3>1, <3>3 DEF SimulatorSkip, historyVars
    <3>4. CASE Submit
      <4>1. [code |-> code, result |-> "waiting"] \in [code : Code, result : Results]
        BY <1>1 DEF Results
      <4>2. submissions' \in Seq([code : Code, result : Results])
        BY <1>1, <3>4, <4>1 DEF Submit
      <4>. QED
        BY <1>0, <1>1, <3>1, <3>4, <4>2 DEF Submit
    <3>. QED
      BY <2>1, <3>2, <3>3, <3>4 DEF Check
  <2>2. CASE AttemptRaises \/ FinalRecovery \/ UNCHANGED loopVars
    BY <1>1, <2>2 DEF AttemptRaises, FinalRecovery, loopVars, checkVars, historyVars
  <2>3. CASE AutomationError \/ \E ok \in BOOLEAN : ResultUncertain(ok)
    <3>1. submissions' \in Seq([code : Code, result : Results])
      BY <2>3, <1>5 DEF AutomationError, ResultUncertain, Result, Results
    <3>. QED
      BY <1>1, <2>3, <3>1 DEF AutomationError, ResultUncertain, checkVars
  <2>4. CASE PlatformError
    <3>1. submissions' \in Seq([code : Code, result : Results])
      BY <2>4, <1>5 DEF PlatformError, Result, Results
    <3>2. credited' \in Seq(1 .. MaxIterations) /\ pending' \in 0 .. MaxIterations
      BY <1>0, <1>1, <1>6, <2>4 DEF PlatformError, PendingAfterFailure
    <3>. QED
      BY <1>1, <2>4, <3>1, <3>2 DEF PlatformError, checkVars, Rewritten
  <2>5. CASE Passed \/ QualityFailed
    <3>1. submissions' \in Seq([code : Code, result : Results])
      BY <2>5, <1>5 DEF Passed, QualityFailed, Result, Results
    <3>2. credited' \in Seq(1 .. MaxIterations)
      BY <1>6, <2>5 DEF Passed, QualityFailed, Feedback
    <3>3. pending' \in 0 .. MaxIterations
      BY <1>0, <1>1, <2>5 DEF Passed, QualityFailed
    <3>. QED
      BY <1>1, <2>5, <3>1, <3>2, <3>3 DEF Passed, QualityFailed, Feedback, checkVars,
                                          Rewritten
  <2>. QED
    BY <2>1, <2>2, <2>3, <2>4, <2>5, LoopCases DEF HandleResult
<1>8. Counts
  <2>1. CASE LocalRepair
    <3>1. progress' \in Progress /\ (~Stuck => progress'.count < NoProgressLimit)
      BY <1>1, <1>2, <2>1, TrackedTyped DEF LocalRepair, Turn, Within
    <3>2. syntaxErrors < MaxSyntaxErrors /\ UNCHANGED <<retries, retryTotal, uncertain>>
      BY <1>2, <2>1 DEF LocalRepair, Turn, retryVars, Within
    <3>3. syntaxErrors' \in 0 .. MaxSyntaxErrors
      BY <1>0, <1>2, <2>1, <3>2 DEF LocalRepair, MaxSyntaxErrors
    <3>4. stage' \in {"loop", "failed", "raised"}
      BY <2>1 DEF LocalRepair, Rewritten
    <3>5. stage' = "loop" => ~Stuck /\ ~(syntaxErrors' >= MaxSyntaxErrors)
      BY <2>1 DEF LocalRepair
    <3>6. Within'
      BY <1>0, <1>2, <2>1, <3>1, <3>2, <3>3, <3>4, <3>5
         DEF LocalRepair, Turn, Within, MaxSyntaxErrors
    <3>. QED
      BY <1>2, <3>1, <3>2, <3>3, <3>4, <3>6
  <2>2. CASE CorrelationRepair \/ RegenerateSkipped \/ DuplicateRepair \/ SimulatorSkip
             \/ Submit \/ AttemptRaises \/ FinalRecovery \/ UNCHANGED loopVars
    <3>1. UNCHANGED <<retries, retryTotal, uncertain, syntaxErrors, progress>>
      BY <2>2 DEF CorrelationRepair, RegenerateSkipped, DuplicateRepair, SimulatorSkip,
         Submit, AttemptRaises, FinalRecovery, loopVars, retryVars
    <3>2. /\ stage' \in {"loop", "waiting", "success", "failed", "raised"}
          /\ stage' \in {"loop", "waiting"} => stage \in {"loop", "waiting"}
      BY <1>2, <2>2 DEF CorrelationRepair, RegenerateSkipped, DuplicateRepair,
         SimulatorSkip, Submit, AttemptRaises, FinalRecovery, loopVars, Turn, Rewritten
    <3>. QED
      BY <1>2, <3>1, <3>2 DEF Within, MaxSyntaxErrors
  <2>3. CASE AutomationError
    <3>1. UNCHANGED <<uncertain, syntaxErrors, progress>> /\ stage = "waiting"
      BY <2>3 DEF AutomationError, Result
    <3>2. /\ retryTotal' \in 0 .. RetryLimit /\ retries' \in 0 .. HardRecovery
          /\ stage' \in {"loop", "failed", "raised"}
          /\ stage' = "loop" => retryTotal' < RetryLimit /\ retries' < HardRecovery
      BY <1>0, <1>2, <2>3, <3>1 DEF AutomationError, Within
    <3>. QED
      BY <1>2, <3>1, <3>2 DEF Within, MaxSyntaxErrors
  <2>4. ASSUME NEW ok \in BOOLEAN, ResultUncertain(ok) PROVE Counts
    <3>1. /\ stage = "waiting" /\ uncertain' = uncertain + 1
          /\ stage' \in {"loop", "failed"} /\ (stage' = "loop" => ~(uncertain' >= RetryLimit))
      BY <2>4 DEF ResultUncertain, Result
    <3>2. uncertain' \in 0 .. RetryLimit /\ (stage' = "loop" => uncertain' < RetryLimit)
      BY <1>0, <1>2, <3>1 DEF Within
    <3>3. \/ retries' = 0 /\ retryTotal' = 0 /\ progress' = NoProgress /\ syntaxErrors' = 0
          \/ UNCHANGED <<retries, retryTotal, progress, syntaxErrors>>
      BY <2>4 DEF ResultUncertain
    <3>. QED
      BY <1>0, <1>2, <1>3, <3>1, <3>2, <3>3 DEF Within, MaxSyntaxErrors
  <2>5. CASE PlatformError
    <3>1. stage = "waiting" /\ retries' = 0 /\ UNCHANGED <<retryTotal, uncertain>>
      BY <2>5 DEF PlatformError, Result
    <3>2. syntaxErrors' = syntaxErrors \/ syntaxErrors' = syntaxErrors + 1
      BY <2>5 DEF PlatformError
    <3>3. syntaxErrors' \in 0 .. MaxSyntaxErrors
      BY <1>0, <1>2, <3>1, <3>2 DEF Within, MaxSyntaxErrors
    <3>4. CASE syntaxErrors' > syntaxErrors /\ syntaxErrors' >= MaxSyntaxErrors
      <4>1. stage' = "failed" /\ UNCHANGED progress
        BY <2>5, <3>4 DEF PlatformError
      <4>. QED
        BY <1>0, <1>2, <3>1, <3>3, <4>1 DEF Within, MaxSyntaxErrors
    <3>5. CASE ~(syntaxErrors' > syntaxErrors /\ syntaxErrors' >= MaxSyntaxErrors)
      <4>1. /\ progress' = Tracked(progress, "platform")
            /\ stage' \in {"loop", "failed", "raised"} /\ (stage' = "loop" => ~Stuck)
        BY <2>5, <3>5 DEF PlatformError, Rewritten
      <4>2. progress' \in Progress /\ (~Stuck => progress'.count < NoProgressLimit)
        BY <1>1, <1>2, <3>1, <4>1, TrackedTyped DEF Within
      <4>3. syntaxErrors' < MaxSyntaxErrors
        BY <1>0, <1>2, <3>1, <3>2, <3>5 DEF Within, MaxSyntaxErrors
      <4>. QED
        BY <1>0, <1>2, <3>1, <3>3, <4>1, <4>2, <4>3 DEF Within, MaxSyntaxErrors
    <3>. QED
      BY <3>4, <3>5
  <2>6. CASE Passed \/ QualityFailed
    <3>1. retries' = 0 /\ retryTotal' = 0 /\ uncertain' = 0 /\ syntaxErrors' = 0
      BY <2>6 DEF Passed, QualityFailed, Feedback
    <3>2. CASE Passed
      BY <1>0, <1>3, <3>1, <3>2 DEF Passed, Within, MaxSyntaxErrors
    <3>3. CASE QualityFailed
      <4>1. /\ progress' = Tracked(NoProgress, "quality")
            /\ stage' \in {"loop", "failed", "raised"} /\ (stage' = "loop" => ~Stuck)
        BY <3>3 DEF QualityFailed, Rewritten
      <4>2. progress' \in Progress /\ (~Stuck => progress'.count < NoProgressLimit)
        BY <1>0, <1>1, <1>3, <4>1, TrackedTyped
      <4>. QED
        BY <1>0, <3>1, <4>1, <4>2 DEF Within, MaxSyntaxErrors
    <3>. QED
      BY <2>6, <3>2, <3>3
  <2>. QED
    BY <2>1, <2>2, <2>3, <2>4, <2>5, <2>6, LoopCases DEF Check, HandleResult
<1>. QED
  BY <1>4, <1>7, <1>8 DEF LoopTypeInv, LoopTypeOK, Progress

LEMMA LoopTypeInvariance == LoopSpec => []LoopTypeInv
<1>1. LoopInit => LoopTypeInv
  <2>1. /\ MaxIterations \in Nat \ {0} /\ RetryLimit \in Nat \ {0}
        /\ HardRecovery \in Nat \ {0} /\ NoProgressLimit \in Nat \ {0}
        /\ SkipLimit \in Nat \ {0}
    BY LoopAssumption
  <2>2. LoopInit => Within
    BY <2>1 DEF LoopInit, Within, NoProgress, MaxSyntaxErrors
  <2>3. LoopInit => progress \in Progress
    BY <2>1 DEF LoopInit, NoProgress, Progress
  <2>4. ASSUME LoopInit PROVE LoopTypeOK
    <3>1. /\ 0 \in 0 .. MaxIterations /\ 0 \in 0 .. RetryLimit /\ 0 \in 0 .. HardRecovery
          /\ 0 \in 0 .. SkipLimit
      BY <2>1
    <3>2. submissions \in Seq([code : Code, result : Results])
          /\ credited \in Seq(1 .. MaxIterations)
      BY <2>4 DEF LoopInit
    <3>. QED
      BY <2>3, <2>4, <3>1, <3>2 DEF LoopInit, LoopTypeOK, MaxSyntaxErrors, Progress
  <2>. QED
    BY <2>2, <2>4 DEF LoopTypeInv
<1>2. LoopTypeInv /\ SkipInv /\ [LoopNext]_loopVars => LoopTypeInv'
  BY LoopTypeNext
<1>. QED
  BY <1>1, <1>2, SkipInvariance, PTL DEF LoopSpec

\* The loop stays within every limit of the configuration: retries, uncertain
\* results, syntax errors, turns without progress (orchestrator.py 221-275).
THEOREM LoopTypeCorrect == LoopSpec => []LoopTypeOK
<1>1. LoopTypeInv => LoopTypeOK
  BY DEF LoopTypeInv
<1>. QED
  BY <1>1, LoopTypeInvariance, PTL


-----------------------------------------------------------------------------
(* A mutation is rewarded once.                                            *)

Rising(s) == \A i, j \in DOMAIN s : i < j => s[i] < s[j]
Below(s, n) == \A i \in DOMAIN s : s[i] < n

LEMMA RisingAppend ==
  ASSUME NEW s \in Seq(Nat), Rising(s), NEW n \in Nat, Below(s, n)
  PROVE  Rising(Append(s, n)) /\ Below(Append(s, n), n + 1)
<1> DEFINE t == Append(s, n)
<1>1. /\ Len(s) \in Nat /\ s \in [1 .. Len(s) -> Nat] /\ DOMAIN s = 1 .. Len(s)
      /\ DOMAIN t = 1 .. Len(s) + 1 /\ t[Len(s) + 1] = n
      /\ \A i \in 1 .. Len(s) : t[i] = s[i]
  BY SeqAsFunction
<1>. QED
  BY <1>1 DEF Rising, Below

LEMMA BelowMore ==
  ASSUME NEW s \in Seq(Nat), NEW m \in Nat, NEW n \in Nat, Below(s, m), m <= n
  PROVE  Below(s, n)
<1>1. Len(s) \in Nat /\ s \in [1 .. Len(s) -> Nat]
  BY SeqAsFunction
<1>. QED
  BY <1>1 DEF Below

\* The rewards follow the turns, and a pending mutation is of a later turn than
\* all of them; while a result is awaited, this turn has not made one yet.
CreditInv ==
  /\ Rising(credited) /\ Below(credited, iteration + 1)
  /\ pending <= iteration
  /\ pending # 0 => Below(credited, pending)
  /\ stage = "waiting" => pending < iteration /\ Below(credited, iteration)

LEMMA CreditTyped ==
  ASSUME LoopTypeInv
  PROVE  credited \in Seq(Nat) /\ iteration \in Nat /\ pending \in Nat
<1>1. MaxIterations \in Nat
  BY LoopAssumption
<1>2. 1 .. MaxIterations \subseteq Nat
  BY <1>1
<1>3. \A s \in Seq(1 .. MaxIterations) : s \in Seq(Nat)
  BY <1>2, SeqSubset
<1>4. /\ credited \in Seq(1 .. MaxIterations)
      /\ iteration \in 0 .. MaxIterations /\ pending \in 0 .. MaxIterations
  BY DEF LoopTypeInv, LoopTypeOK
<1>. QED
  BY <1>1, <1>3, <1>4

\* The reward of a result goes to the pending mutation, if there is one.
LEMMA CreditEffect ==
  ASSUME LoopTypeInv, CreditInv, stage = "waiting", Credit
  PROVE  Rising(credited') /\ Below(credited', iteration)
<1>1. credited \in Seq(Nat) /\ iteration \in Nat /\ pending \in Nat
  BY CreditTyped
<1>2. CASE pending = 0
  BY <1>2 DEF Credit, CreditInv
<1>3. CASE pending # 0
  <2>1. Rising(credited) /\ Below(credited, pending) /\ pending + 1 <= iteration
    BY <1>1, <1>3 DEF CreditInv
  <2>2. \A s \in Seq(Nat), n \in Nat :
          Rising(s) /\ Below(s, n) => Rising(Append(s, n)) /\ Below(Append(s, n), n + 1)
    BY RisingAppend
  <2>3. credited' = Append(credited, pending)
    BY <1>3 DEF Credit
  <2>4. credited' \in Seq(Nat) /\ Rising(credited') /\ Below(credited', pending + 1)
    BY <1>1, <2>1, <2>2, <2>3
  <2>5. Below(credited', iteration)
    BY <1>1, <2>1, <2>4, BelowMore
  <2>. QED
    BY <2>4, <2>5
<1>. QED
  BY <1>2, <1>3

LEMMA CreditNext ==
  ASSUME LoopTypeInv, CreditInv, [LoopNext]_loopVars PROVE CreditInv'
<1>1. credited \in Seq(Nat) /\ iteration \in Nat /\ pending \in Nat
  BY CreditTyped
<1>2. \A s \in Seq(Nat), m, n \in Nat : Below(s, m) /\ m <= n => Below(s, n)
  BY BelowMore
<1>3. CASE Check
  <2>1. /\ iteration' = iteration + 1 /\ credited' = credited
        /\ pending' = pending \/ pending' = 0
    BY <1>3 DEF Check, LocalRepair, CorrelationRepair, RegenerateSkipped,
       DuplicateRepair, SimulatorSkip, Submit, Turn, historyVars
  <2>2. Below(credited, iteration + 2)
    BY <1>1, <1>2 DEF CreditInv
  <2>3. Below(credited', iteration') /\ Below(credited', iteration' + 1)
    BY <1>1, <2>1, <2>2 DEF CreditInv
  <2>4. pending' < iteration'
    BY <1>1, <2>1 DEF CreditInv
  <2>. QED
    BY <1>1, <2>1, <2>3, <2>4 DEF CreditInv
<1>4. CASE AttemptRaises \/ AutomationError \/ (\E ok \in BOOLEAN : ResultUncertain(ok))
           \/ FinalRecovery \/ UNCHANGED loopVars
  <2>1. /\ UNCHANGED <<iteration, pending, credited>>
        /\ stage' # "waiting" \/ UNCHANGED stage
    BY <1>4 DEF AttemptRaises, AutomationError, ResultUncertain, FinalRecovery, loopVars,
                historyVars
  <2>. QED
    BY <2>1 DEF CreditInv
<1>5. CASE PlatformError
  <2>1. /\ stage = "waiting" /\ stage' # "waiting" /\ iteration' = iteration
        /\ UNCHANGED <<pending, credited>> \/ (pending' = 0 /\ Credit)
    BY <1>5 DEF PlatformError, Result, PendingAfterFailure, Rewritten
  <2>2. CASE UNCHANGED <<pending, credited>>
    BY <2>1, <2>2 DEF CreditInv
  <2>3. CASE pending' = 0 /\ Credit
    <3>1. Rising(credited') /\ Below(credited', iteration) /\ credited' \in Seq(Nat)
      BY <1>1, <2>1, <2>3, CreditEffect DEF Credit
    <3>. QED
      BY <1>1, <1>2, <2>1, <2>3, <3>1 DEF CreditInv
  <2>. QED
    BY <2>1, <2>2, <2>3
<1>6. CASE Passed \/ QualityFailed
  <2>1. /\ stage = "waiting" /\ stage' # "waiting" /\ iteration' = iteration
        /\ pending' \in {0, iteration} /\ Credit
    BY <1>6 DEF Passed, QualityFailed, Feedback, Result, Rewritten
  <2>2. Rising(credited') /\ Below(credited', iteration) /\ credited' \in Seq(Nat)
    BY <1>1, <2>1, CreditEffect DEF Credit
  <2>. QED
    BY <1>1, <1>2, <2>1, <2>2 DEF CreditInv
<1>. QED
  BY <1>3, <1>4, <1>5, <1>6, LoopCases DEF HandleResult

\* A mutation is rewarded at most once, however often its code is retried, repaired
\* or refused before a result is dependable (orchestrator.py 602-621 and 832-1000).
THEOREM MutationIsCreditedOnce == LoopSpec => []CreditedOnce
<1>1. LoopInit => CreditInv
  BY DEF LoopInit, CreditInv, Rising, Below
<1>2. LoopTypeInv /\ CreditInv /\ [LoopNext]_loopVars => CreditInv'
  BY CreditNext
<1>3. CreditInv => CreditedOnce
  BY DEF CreditInv, Rising, CreditedOnce
<1>. QED
  BY <1>1, <1>2, <1>3, LoopTypeInvariance, PTL DEF LoopSpec

-----------------------------------------------------------------------------
(* The same code is not submitted twice in a row.                          *)

LastOf(s) == s[Len(s)]
Repeated(s, i) == /\ i < Len(s) /\ s[i].result \in Dependable
                  /\ s[i].code = s[i + 1].code

\* The submission that waits is the last one and of this code.
WaitsInv ==
  stage = "waiting" =>
    /\ submissions # <<>>
    /\ LastOf(submissions).code = code /\ LastOf(submissions).result = "waiting"

\* Before any skip, last_submitted_fingerprint is the code of the last submission
\* once that had a dependable result.
RepeatInv ==
  skipped = {} =>
    /\ \A i \in DOMAIN submissions : ~Repeated(submissions, i)
    /\ submissions # <<>> /\ LastOf(submissions).result \in Dependable
         => lastSubmitted = LastOf(submissions).code

LEMMA AppendNoRepeat ==
  ASSUME NEW s \in Seq(Submission), NEW x \in Submission,
         \A i \in DOMAIN s : ~Repeated(s, i),
         s # <<>> /\ LastOf(s).result \in Dependable => LastOf(s).code # x.code
  PROVE  /\ \A i \in DOMAIN Append(s, x) : ~Repeated(Append(s, x), i)
         /\ Append(s, x) # <<>> /\ LastOf(Append(s, x)) = x
<1> DEFINE t == Append(s, x)
<1>1. /\ Len(s) \in Nat /\ DOMAIN s = 1 .. Len(s) /\ Len(t) = Len(s) + 1
      /\ DOMAIN t = 1 .. Len(s) + 1 /\ t[Len(s) + 1] = x
      /\ \A i \in 1 .. Len(s) : t[i] = s[i]
  BY SeqAsFunction
<1>2. ASSUME NEW i \in 1 .. Len(s) + 1, Repeated(t, i) PROVE FALSE
  <2>1. i \in 1 .. Len(s)
    BY <1>1, <1>2 DEF Repeated
  <2>2. CASE i = Len(s)
    <3>1. s # <<>> /\ LastOf(s) = t[i] /\ t[i + 1] = x
      BY <1>1, <2>1, <2>2 DEF LastOf
    <3>. QED
      BY <1>2, <3>1 DEF Repeated
  <2>3. CASE i < Len(s)
    <3>1. i + 1 \in 1 .. Len(s)
      BY <1>1, <2>1, <2>3
    <3>. QED
      BY <1>1, <1>2, <2>1, <2>3, <3>1 DEF Repeated
  <2>4. i <= Len(s) /\ i \in Nat /\ Len(s) \in Nat
    BY <1>1, <2>1
  <2>. QED
    BY <2>2, <2>3, <2>4
<1>3. t # <<>>
  OBVIOUS
<1>4. LastOf(t) = x
  BY <1>1 DEF LastOf
<1>. QED
  BY <1>1, <1>2, <1>3, <1>4

LEMMA SetNoRepeat ==
  ASSUME NEW s \in Seq(Submission), s # <<>>, NEW r \in Results
  PROVE  LET t == [s EXCEPT ![Len(s)].result = r]
         IN  /\ (\A i \in DOMAIN s : ~Repeated(s, i)) => \A i \in DOMAIN t : ~Repeated(t, i)
             /\ t # <<>> /\ LastOf(t).code = LastOf(s).code /\ LastOf(t).result = r
<1> DEFINE t == [s EXCEPT ![Len(s)].result = r]
<1>1. /\ t \in Seq(Submission) /\ Len(t) = Len(s)
      /\ \A i \in DOMAIN s : t[i].code = s[i].code
      /\ \A i \in DOMAIN s : i < Len(s) => t[i] = s[i]
      /\ t[Len(s)].result = r
  BY SetResult
<1>2. /\ Len(s) \in Nat \ {0} /\ s \in [1 .. Len(s) -> Submission]
      /\ t \in [1 .. Len(t) -> Submission] /\ t # <<>>
  <2>1. Len(s) \in Nat \ {0}
    BY NotEmpty
  <2>2. Len(t) # Len(<<>>)
    BY <1>1, <2>1
  <2>. QED
    BY <1>1, <2>1, <2>2, SeqAsFunction
<1>3. ASSUME NEW i \in 1 .. Len(s), Repeated(t, i) PROVE Repeated(s, i)
  <2>1. i < Len(s) /\ i + 1 \in 1 .. Len(s)
    BY <1>1, <1>2, <1>3 DEF Repeated
  <2>. QED
    BY <1>1, <1>2, <1>3, <2>1 DEF Repeated
<1>. QED
  BY <1>1, <1>2, <1>3 DEF LastOf

LEMMA RepeatNext ==
  ASSUME LoopTypeInv, WaitsInv, RepeatInv, [LoopNext]_loopVars
  PROVE  WaitsInv' /\ RepeatInv'
<1>1. /\ submissions \in Seq(Submission) /\ code \in Code /\ skipped \subseteq Code
  BY DEF LoopTypeInv, LoopTypeOK, Submission
<1>2. CASE Submit
  <2>1. /\ code # lastSubmitted /\ stage' = "waiting"
        /\ UNCHANGED <<code, lastSubmitted, skipped>>
        /\ submissions' = Append(submissions, [code |-> code, result |-> "waiting"])
    BY <1>2 DEF Submit, Submittable
  <2>2. PICK x \in Submission : x = [code |-> code, result |-> "waiting"]
    BY <1>1 DEF Submission, Results
  <2>3. submissions' = Append(submissions, x) /\ x.code = code /\ x.result = "waiting"
    BY <2>1, <2>2
  <2>4. submissions' # <<>> /\ LastOf(submissions') = x
    <3>1. /\ Len(submissions) \in Nat /\ Len(submissions') = Len(submissions) + 1
          /\ submissions'[Len(submissions) + 1] = x /\ submissions' \in Seq(Submission)
      BY <1>1, <2>3, SeqAsFunction
    <3>. QED
      BY <3>1 DEF LastOf
  <2>5. skipped = {} => \A i \in DOMAIN submissions' : ~Repeated(submissions', i)
    BY <1>1, <2>1, <2>3, AppendNoRepeat DEF RepeatInv
  <2>. QED
    BY <2>1, <2>3, <2>4, <2>5 DEF WaitsInv, RepeatInv, Dependable
<1>3. CASE SimulatorSkip
  <2>1. skipped' # {} /\ stage' # "waiting"
    BY <1>3 DEF SimulatorSkip, Turn
  <2>. QED
    BY <2>1 DEF WaitsInv, RepeatInv
<1>4. CASE LocalRepair \/ CorrelationRepair \/ RegenerateSkipped \/ DuplicateRepair
           \/ AttemptRaises \/ FinalRecovery \/ UNCHANGED loopVars
  <2>1. /\ UNCHANGED <<submissions, lastSubmitted, skipped>>
        /\ stage' # "waiting" \/ UNCHANGED <<stage, code>>
    BY <1>4 DEF LocalRepair, CorrelationRepair, RegenerateSkipped, DuplicateRepair,
       Rewritten, AttemptRaises, FinalRecovery, loopVars, checkVars, historyVars
  <2>. QED
    BY <2>1 DEF WaitsInv, RepeatInv
<1>5. ASSUME NEW r \in Results, Result(r), stage' # "waiting", UNCHANGED skipped,
             r \in Dependable => lastSubmitted' = code
      PROVE  WaitsInv' /\ RepeatInv'
  <2>1. /\ submissions # <<>> /\ LastOf(submissions).code = code
        /\ submissions' = [submissions EXCEPT ![Len(submissions)].result = r]
    BY <1>5 DEF Result, WaitsInv
  <2>2. /\ (\A i \in DOMAIN submissions : ~Repeated(submissions, i))
             => \A i \in DOMAIN submissions' : ~Repeated(submissions', i)
        /\ LastOf(submissions').code = code /\ LastOf(submissions').result = r
    BY <1>1, <2>1, SetNoRepeat
  <2>. QED
    BY <1>5, <2>2 DEF WaitsInv, RepeatInv
<1>6. CASE AutomationError
  BY <1>5, <1>6 DEF AutomationError, Results, Dependable, checkVars
<1>7. CASE \E ok \in BOOLEAN : ResultUncertain(ok)
  BY <1>5, <1>7 DEF ResultUncertain, Results, Dependable, checkVars
<1>8. CASE PlatformError
  BY <1>5, <1>8 DEF PlatformError, Results, Rewritten, checkVars
<1>9. CASE Passed \/ QualityFailed
  BY <1>5, <1>9 DEF Passed, QualityFailed, Feedback, Results, Rewritten, checkVars
<1>. QED
  BY <1>2, <1>3, <1>4, <1>6, <1>7, <1>8, <1>9, LoopCases DEF Check, HandleResult

\* Unless the simulator has skipped a code before, two submissions in a row are of
\* different codes or the first had no dependable result: the loop has every
\* duplicate of last_submitted_fingerprint repaired (orchestrator.py 407-412).
THEOREM RepeatNeedsSkip == LoopSpec => []RepeatsOnlyAfterSkip
<1>1. LoopInit => WaitsInv /\ RepeatInv
  BY DEF LoopInit, WaitsInv, RepeatInv
<1>2. LoopTypeInv /\ (WaitsInv /\ RepeatInv) /\ [LoopNext]_loopVars
        => WaitsInv' /\ RepeatInv'
  BY RepeatNext
<1>3. RepeatInv => RepeatsOnlyAfterSkip
  BY DEF RepeatInv, Repeated, RepeatedAfter, RepeatsOnlyAfterSkip
<1>. QED
  BY <1>1, <1>2, <1>3, LoopTypeInvariance, PTL DEF LoopSpec


-----------------------------------------------------------------------------
(* The wait for a result: what every step is, and its types.               *)

LEMMA WaitCases ==
  ASSUME [WaitNext]_waitVars
  PROVE  \/ ReadProgress \/ Accept \/ Reread \/ KeepCounting \/ OldResult \/ NotYet
         \/ LookRaises \/ Sleep \/ Deadline \/ FinalSleep \/ FinalLook \/ Cancelled
         \/ (\E fresh \in BOOLEAN : Validate(fresh)) \/ PageMoves
         \/ UNCHANGED waitVars
BY DEF WaitNext

LEMMA WaitLimits ==
  /\ StableReads \in Nat \ {0} /\ MaxPoll \in Nat \ {0} /\ StateTimeout \in Nat \ {0}
  /\ Window \in Nat /\ ReadyAfter \in Nat /\ OldAfter \in Nat /\ ActiveFor \in Nat
  /\ MaxWait \in Nat /\ FinalDelay \in Nat /\ MaxWait <= StateTimeout
BY CountsAssumption, TimesAssumption, DeadlineAssumption

LEMMA MaxOfTwo ==
  ASSUME NEW a \in Int, NEW b \in Int
  PROVE  Max({a, b}) = IF a <= b THEN b ELSE a
<1> DEFINE m == IF a <= b THEN b ELSE a
<1>1. m \in {a, b} /\ \A y \in {a, b} : m >= y
  OBVIOUS
<1>2. \A x \in {a, b} : (\A y \in {a, b} : x >= y) => x = m
  OBVIOUS
<1>. QED
  BY <1>1, <1>2 DEF Max

LEMMA RankOrder ==
  /\ Rank["old"] = 0 /\ Rank["blank"] = 1 /\ Rank["partial"] = 2 /\ Rank["final"] = 3
  /\ \A s \in Panel : Rank[s] \in 0 .. 3
  /\ \A s, t \in Panel : Rank[s] = Rank[t] => s = t
BY DEF Rank, Panel

PageTyped ==
  /\ shown \in Panel /\ hidden \in BOOLEAN /\ stamped \in BOOLEAN
  /\ bar \in Bars /\ known \in BOOLEAN /\ same \in BOOLEAN

Doings == {"poll", "look", "reread", "sleep", "final", "recover", "parse", "ended"}

\* Each turn takes time, so that the equal readings are never more than the units
\* of time since the first; a turn begins before the deadline.
LoopTyped ==
  /\ doing \in Doings
  /\ elapsed \in Times /\ lastChange \in Times /\ since \in Times
  /\ shownAt \in Times /\ steadyAt \in Times
  /\ seen \in Bars /\ maxProgress \in Bars /\ lastBar \in Bars
  /\ lastReading \in {Nothing, "old", "partial", "final"} /\ count \in Nat

Paced ==
  /\ doing \in {"look", "sleep", "reread"} => elapsed < MaxWait
  /\ doing \in {"final", "recover"} => elapsed >= MaxWait
  /\ doing \in {"poll", "look"} => since + count <= elapsed
  /\ doing = "sleep" => since + count <= elapsed + 1
  /\ count <= MaxWait /\ since <= elapsed

EndTyped ==
  /\ text \in Panel \cup {Nothing}
  /\ tries \in 0 .. 3 /\ (doing # "ended" => tries < 3)
  /\ outcome \in {Nothing, "accepted", "stale", "old", "timeout", "raised", "cancelled"}
  /\ doing # "ended" => outcome = Nothing

WaitTypeInv == PageTyped /\ LoopTyped /\ Paced /\ EndTyped

LEMMA PageTypedNext ==
  ASSUME PageTyped, [WaitNext]_waitVars PROVE PageTyped'
<1>1. CASE UNCHANGED <<pageVars, known, same>>
  BY <1>1 DEF pageVars, PageTyped
<1>2. CASE PageMoves
  <2>1. shown' \in Panel /\ bar' \in Bars /\ known' = known /\ same' = same
    BY <1>2 DEF PageMoves, PanelMoves, PageTyped
  <2>2. (hidden' = hidden \/ hidden' = ~hidden) /\ (stamped' = stamped \/ stamped' = TRUE)
    BY <1>2 DEF PageMoves, PanelMoves
  <2>. QED
    BY <2>1, <2>2 DEF PageTyped
<1>. QED
  BY <1>1, <1>2, WaitCases
     DEF ReadProgress, Accept, Reread, KeepCounting, OldResult, NotYet, LookRaises, Sleep,
         Deadline, FinalSleep, FinalLook, Cancelled, Validate, waitVars

\* What a reading of the panel is.
LEMMA ReadingTyped ==
  ASSUME PageTyped
  PROVE  /\ Reading \in Panel
         /\ Concrete => Reading = shown /\ ~hidden /\ Reading \in {"old", "partial", "final"}
         /\ Concrete => Fingerprint \in {"old", "partial", "final"}
         /\ Concrete => \/ Fingerprint = shown /\ ~(same /\ shown = "final")
                        \/ Fingerprint = "old" /\ same /\ shown = "final"
BY DEF PageTyped, Reading, Concrete, Panel, Fingerprint

\* How a look at the page leaves the counters of equal readings.
LEMMA CountEffect ==
  ASSUME WaitTypeInv, doing = "look", (Candidate /\ Concrete /\ Counted) \/ NotCounting,
         UNCHANGED elapsed
  PROVE  /\ count' \in Nat /\ since' \in Times /\ since' <= elapsed
         /\ lastReading' \in {Nothing, "old", "partial", "final"}
         /\ since' + count' <= elapsed + 1 /\ count' <= MaxWait
         /\ \/ Counted /\ Concrete /\ Candidate
            \/ count' = 0 /\ lastReading' = Nothing /\ since' = 0
            \/ ~Candidate /\ UNCHANGED stable
<1>1. /\ count \in Nat /\ since \in Nat /\ elapsed \in Nat /\ elapsed <= StateTimeout
      /\ since + count <= elapsed /\ elapsed < MaxWait /\ since <= elapsed
      /\ lastReading \in {Nothing, "old", "partial", "final"} /\ count <= MaxWait
      /\ MaxWait \in Nat /\ StateTimeout \in Nat
  BY WaitLimits DEF WaitTypeInv, LoopTyped, Paced, Times
<1>2. CASE Counted /\ Concrete /\ Candidate
  <2>1. lastReading' \in {"old", "partial", "final"}
    BY <1>2, ReadingTyped DEF WaitTypeInv, Counted
  <2>2. \/ count' = count + 1 /\ since' = since
        \/ count' = 1 /\ since' = elapsed
    BY <1>2 DEF Counted
  <2>. QED
    BY <1>1, <1>2, <2>1, <2>2 DEF Times
<1>3. CASE count' = 0 /\ lastReading' = Nothing /\ since' = 0
  BY <1>1, <1>3 DEF Times
<1>4. CASE ~Candidate /\ UNCHANGED stable
  BY <1>1, <1>4 DEF stable, Times
<1>. QED
  BY <1>2, <1>3, <1>4 DEF NotCounting

LEMMA WaitTypeNext ==
  ASSUME WaitTypeInv, [WaitNext]_waitVars PROVE WaitTypeInv'
<1> USE WaitLimits
<1>0. PageTyped'
  BY PageTypedNext DEF WaitTypeInv
<1>1. Reading \in Panel
  BY ReadingTyped DEF WaitTypeInv
<1>2. CASE ReadProgress
  <2>1. Max({maxProgress, bar}) \in Bars
    <3>1. maxProgress \in Bars /\ bar \in Bars /\ maxProgress \in Int /\ bar \in Int
      BY DEF WaitTypeInv, LoopTyped, PageTyped, Bars, NoBar
    <3>. QED
      BY <3>1, MaxOfTwo
  <2>2. LoopTyped'
    BY <1>2, <2>1 DEF WaitTypeInv, LoopTyped, PageTyped, ReadProgress, stable, past, Doings
  <2>3. Paced' /\ EndTyped'
    BY <1>2 DEF WaitTypeInv, Paced, EndTyped, ReadProgress, stable
  <2>. QED
    BY <1>0, <2>2, <2>3 DEF WaitTypeInv
<1>3. CASE Accept \/ KeepCounting \/ NotYet
  <2>1. /\ doing = "look" /\ doing' \in {"reread", "sleep"}
        /\ (Candidate /\ Concrete /\ Counted) \/ NotCounting
        /\ UNCHANGED <<elapsed, reading, text, tries, outcome, past>>
    BY <1>3 DEF Accept, KeepCounting, NotYet
  <2>2. /\ count' \in Nat /\ since' \in Times /\ since' <= elapsed /\ count' <= MaxWait
        /\ lastReading' \in {Nothing, "old", "partial", "final"}
        /\ since' + count' <= elapsed + 1
    BY <2>1, CountEffect
  <2>3. LoopTyped'
    BY <2>1, <2>2 DEF WaitTypeInv, LoopTyped, reading, past, Doings
  <2>4. Paced' /\ EndTyped'
    BY <2>1, <2>2 DEF WaitTypeInv, Paced, EndTyped
  <2>. QED
    BY <1>0, <2>3, <2>4 DEF WaitTypeInv
<1>4. CASE OldResult
  <2>1. /\ doing = "look" /\ NotCounting /\ doing' = "ended" /\ outcome' = "old"
        /\ UNCHANGED <<elapsed, reading, text, tries, past>>
    BY <1>4 DEF OldResult, End
  <2>2. /\ count' \in Nat /\ since' \in Times /\ since' <= elapsed /\ count' <= MaxWait
        /\ lastReading' \in {Nothing, "old", "partial", "final"}
    BY <2>1, CountEffect
  <2>3. LoopTyped'
    BY <2>1, <2>2 DEF WaitTypeInv, LoopTyped, reading, past, Doings
  <2>4. Paced' /\ EndTyped'
    BY <2>1, <2>2 DEF WaitTypeInv, Paced, EndTyped
  <2>. QED
    BY <1>0, <2>3, <2>4 DEF WaitTypeInv
<1>5. CASE Sleep \/ FinalSleep
  <2>1. /\ UNCHANGED <<reading, stable, text, tries, outcome, past>>
        /\ \/ doing = "sleep" /\ doing' = "poll" /\ \E d \in 1 .. MaxPoll : TimePasses(d)
           \/ doing = "final" /\ doing' = "recover" /\ TimePasses(FinalDelay)
    BY <1>5 DEF Sleep, FinalSleep
  <2>2. /\ elapsed' \in Times /\ elapsed <= elapsed'
        /\ doing = "sleep" => elapsed + 1 <= elapsed'
    BY <2>1 DEF TimePasses, WaitTypeInv, LoopTyped, Times
  <2>3. LoopTyped'
    BY <2>1, <2>2 DEF WaitTypeInv, LoopTyped, reading, stable, past, Doings
  <2>4. Paced'
    <3>1. /\ elapsed \in Nat /\ elapsed' \in Nat /\ since \in Nat /\ count \in Nat
          /\ since' = since /\ count' = count
      BY <2>1, <2>2 DEF WaitTypeInv, LoopTyped, Times, stable
    <3>2. /\ doing = "sleep" => since + count <= elapsed + 1
          /\ doing = "final" => elapsed >= MaxWait
          /\ count <= MaxWait /\ since <= elapsed
      BY DEF WaitTypeInv, Paced
    <3>3. /\ doing = "sleep" => since' + count' <= elapsed'
          /\ doing = "final" => elapsed' >= MaxWait
          /\ count' <= MaxWait /\ since' <= elapsed'
      BY <2>2, <3>1, <3>2
    <3>4. \/ doing = "sleep" /\ doing' = "poll"
          \/ doing = "final" /\ doing' = "recover"
      BY <2>1
    <3>. QED
      BY <3>3, <3>4 DEF Paced
  <2>5. EndTyped'
    BY <2>1 DEF WaitTypeInv, EndTyped
  <2>. QED
    BY <1>0, <2>3, <2>4, <2>5 DEF WaitTypeInv
<1>6. CASE Reread \/ LookRaises \/ Deadline \/ FinalLook \/ Cancelled
           \/ \E fresh \in BOOLEAN : Validate(fresh)
  <2>1. /\ UNCHANGED <<elapsed, reading, stable, past>>
        /\ text' \in {text, Reading} /\ doing' \in Doings
    BY <1>6 DEF Reread, LookRaises, Deadline, FinalLook, Cancelled, Validate, End, Doings
  <2>2. /\ doing' \notin {"poll", "look", "sleep", "reread", "recover"}
        /\ doing' = "final" => elapsed >= MaxWait
    BY <1>6 DEF Reread, LookRaises, Deadline, FinalLook, Cancelled, Validate, End,
                WaitTypeInv, LoopTyped
  <2>3. LoopTyped'
    BY <2>1 DEF WaitTypeInv, LoopTyped, reading, stable, past
  <2>4. Paced'
    BY <2>1, <2>2 DEF WaitTypeInv, Paced, stable
  <2>5. EndTyped'
    <3>1. text' \in Panel \cup {Nothing}
      BY <1>1, <2>1 DEF WaitTypeInv, EndTyped
    <3>2. tries' \in 0 .. 3 /\ (doing' # "ended" => tries' < 3)
      BY <1>6 DEF Reread, LookRaises, Deadline, FinalLook, Cancelled, Validate, End,
                  WaitTypeInv, EndTyped
    <3>3. /\ outcome' \in {Nothing, "accepted", "stale", "old", "timeout", "raised",
                           "cancelled"}
          /\ doing' # "ended" => outcome' = Nothing
      BY <1>6 DEF Reread, LookRaises, Deadline, FinalLook, Cancelled, Validate, End,
                  WaitTypeInv, EndTyped
    <3>. QED
      BY <3>1, <3>2, <3>3 DEF EndTyped
  <2>. QED
    BY <1>0, <2>3, <2>4, <2>5 DEF WaitTypeInv
<1>7. CASE PageMoves
  <2>1. /\ UNCHANGED <<doing, elapsed, reading, stable, text, tries, outcome>>
        /\ steadyAt' = elapsed /\ shownAt' \in {elapsed, shownAt}
    BY <1>7 DEF PageMoves, PanelMoves
  <2>. QED
    BY <1>0, <2>1 DEF WaitTypeInv, LoopTyped, Paced, EndTyped, reading, stable
<1>8. CASE UNCHANGED waitVars
  BY <1>0, <1>8 DEF waitVars, WaitTypeInv, LoopTyped, Paced, EndTyped, reading, stable, past
<1>. QED
  BY <1>2, <1>3, <1>4, <1>5, <1>6, <1>7, <1>8, WaitCases

LEMMA WaitTypeInvariance == WaitSpec => []WaitTypeInv
<1>1. ASSUME WaitInit PROVE WaitTypeInv
  <2>1. 0 \in Times
    BY WaitLimits DEF Times
  <2>2. PageTyped
    BY <1>1 DEF WaitInit, PageTyped, Panel
  <2>3. LoopTyped
    BY <1>1, <2>1 DEF WaitInit, LoopTyped, Doings, Bars
  <2>4. Paced /\ EndTyped
    BY <1>1, WaitLimits DEF WaitInit, Paced, EndTyped
  <2>. QED
    BY <2>2, <2>3, <2>4 DEF WaitTypeInv
<1>2. WaitTypeInv /\ [WaitNext]_waitVars => WaitTypeInv'
  BY WaitTypeNext
<1>. QED
  BY <1>1, <1>2, PTL DEF WaitSpec

\* The wait never outlives the timeout of its state, counts no more readings than
\* it had turns, and the parse makes at most three attempts.
THEOREM WaitTypeCorrect == WaitSpec => []WaitTypeOK
<1>1. ASSUME WaitTypeInv PROVE WaitTypeOK
  <2>1. {"old", "partial", "final"} \subseteq Panel
    BY DEF Panel
  <2>2. count \in Times
    BY <1>1, WaitLimits DEF WaitTypeInv, LoopTyped, Paced, Times
  <2>3. /\ shown \in Panel /\ hidden \in BOOLEAN /\ stamped \in BOOLEAN
        /\ bar \in Bars /\ known \in BOOLEAN /\ same \in BOOLEAN
    BY <1>1 DEF WaitTypeInv, PageTyped
  <2>4. /\ doing \in {"poll", "look", "reread", "sleep", "final", "recover", "parse", "ended"}
        /\ {elapsed, lastChange, since, shownAt, steadyAt} \subseteq Times
        /\ {seen, maxProgress, lastBar} \subseteq Bars
        /\ lastReading \in Panel \cup {Nothing}
    BY <1>1, <2>1 DEF WaitTypeInv, LoopTyped, Doings
  <2>. QED
    BY <1>1, <2>2, <2>3, <2>4 DEF WaitTypeOK, WaitTypeInv, EndTyped
<1>. QED
  BY <1>1, WaitTypeInvariance, PTL


-----------------------------------------------------------------------------
(* A result that is accepted though it is old.                              *)

Explained == IF known THEN stamped ELSE maxProgress >= 15

\* What may be accepted next, or has been, is explained when it is old.
StaleInv ==
  /\ doing \in {"reread", "parse"} /\ shown = "old" => Explained
  /\ doing = "parse" /\ text = "old" => Explained
  /\ outcome = "accepted" => doing = "ended"
  /\ outcome = "accepted" /\ text = "old" => Explained

\* The page never goes back to an old result, and what explains it stays.
LEMMA ExplainedStays ==
  ASSUME WaitTypeInv, [WaitNext]_waitVars
  PROVE  /\ shown' = "old" => shown = "old"
         /\ Explained => Explained'
<1>1. maxProgress \in Nat /\ bar \in Nat /\ shown \in Panel
  BY DEF WaitTypeInv, LoopTyped, PageTyped, Bars, NoBar
<1>2. CASE ReadProgress
  <2>1. maxProgress' = IF maxProgress <= bar THEN bar ELSE maxProgress
    BY <1>1, <1>2, MaxOfTwo DEF ReadProgress
  <2>2. shown' = shown /\ known' = known /\ stamped' = stamped
    BY <1>2 DEF ReadProgress, pageVars
  <2>. QED
    BY <1>1, <2>1, <2>2 DEF Explained
<1>3. CASE PageMoves
  <2>1. shown' = shown \/ (shown' \in Panel /\ Rank[shown'] > Rank[shown])
    BY <1>3 DEF PageMoves, PanelMoves
  <2>2. shown' = "old" => shown = "old"
    BY <1>1, <2>1, RankOrder
  <2>3. known' = known /\ maxProgress' = maxProgress /\ (stamped' = stamped \/ stamped')
    BY <1>3 DEF PageMoves, PanelMoves, reading
  <2>. QED
    BY <2>2, <2>3 DEF Explained
<1>4. CASE UNCHANGED <<pageVars, known, maxProgress>>
  BY <1>4 DEF pageVars, Explained
<1>. QED
  BY <1>2, <1>3, <1>4, WaitCases
     DEF Accept, Reread, KeepCounting, OldResult, NotYet, LookRaises, Sleep, Deadline,
         FinalSleep, FinalLook, Cancelled, Validate, reading, waitVars

\* An old result that passes for this run's is explained.
LEMMA ReadyIsExplained ==
  ASSUME WaitTypeInv, Ready, shown = "old" PROVE Explained /\ Concrete
<1>1. Reading = "old" /\ Concrete
  BY ReadingTyped DEF WaitTypeInv, Ready
<1>. QED
  BY <1>1 DEF Ready, DiffersFromBaseline, Explained, Fingerprint

LEMMA StaleNext ==
  ASSUME WaitTypeInv, StaleInv, [WaitNext]_waitVars PROVE StaleInv'
<1>1. (shown' = "old" => shown = "old") /\ (Explained => Explained')
  BY ExplainedStays
<1>2. Reading \in Panel /\ (Reading = "old" => shown = "old")
  BY ReadingTyped DEF WaitTypeInv, Reading
<1>3. outcome = Nothing \/ doing = "ended"
  BY DEF WaitTypeInv, EndTyped
<1>4. CASE Accept
  <2>1. doing' = "reread" /\ outcome' = outcome /\ Ready /\ shown' = shown /\ doing = "look"
    BY <1>4 DEF Accept, pageVars
  <2>. QED
    BY <1>1, <1>3, <2>1, ReadyIsExplained DEF StaleInv, Nothing
<1>5. CASE Reread
  <2>1. /\ doing = "reread" /\ doing' = "parse" /\ outcome' = outcome
        /\ text' = Reading
    BY <1>5 DEF Reread
  <2>. QED
    BY <1>1, <1>2, <1>3, <2>1 DEF StaleInv, Nothing
<1>6. CASE FinalLook
  <2>1. CASE Ready /\ text' = Reading /\ doing' = "parse" /\ UNCHANGED outcome
    BY <1>1, <1>2, <1>3, <1>6, <2>1, ReadyIsExplained DEF StaleInv, Nothing, FinalLook
  <2>2. CASE UNCHANGED text /\ End("timeout")
    BY <2>2 DEF StaleInv, End
  <2>. QED
    BY <1>6, <2>1, <2>2 DEF FinalLook
<1>7. CASE \E fresh \in BOOLEAN : Validate(fresh)
  <2>1. /\ doing = "parse"
        /\ \/ text' = Reading /\ doing' = "ended" /\ outcome' = "accepted"
           \/ doing' = "ended" /\ outcome' = "stale"
           \/ UNCHANGED <<text, doing, outcome>>
    BY <1>7 DEF Validate, End
  <2>. QED
    BY <1>1, <1>2, <1>3, <2>1 DEF StaleInv, Nothing
<1>8. CASE OldResult \/ LookRaises \/ Cancelled
  <2>1. doing' = "ended" /\ outcome' \in {"old", "raised", "cancelled"}
    BY <1>8 DEF OldResult, LookRaises, Cancelled, End
  <2>. QED
    BY <2>1 DEF StaleInv
<1>9. CASE ReadProgress \/ KeepCounting \/ NotYet \/ Sleep \/ Deadline \/ FinalSleep
  <2>1. /\ doing # "ended" /\ doing' \notin {"reread", "parse", "ended"}
        /\ outcome' = outcome
    BY <1>9 DEF ReadProgress, KeepCounting, NotYet, Sleep, Deadline, FinalSleep
  <2>. QED
    BY <1>3, <2>1 DEF StaleInv, Nothing
<1>10. CASE PageMoves \/ UNCHANGED waitVars
  <2>1. doing' = doing /\ outcome' = outcome /\ text' = text
    BY <1>10 DEF PageMoves, waitVars
  <2>. QED
    BY <1>1, <2>1 DEF StaleInv
<1>. QED
  BY <1>4, <1>5, <1>6, <1>7, <1>8, <1>9, <1>10, WaitCases

\* The result of an earlier run is accepted only where the fingerprint cannot tell
\* (result_ready_for_current_run, simulate.py 2747-2773): what the wait returns and
\* what the parse takes instead was checked before, and the page does not go back.
THEOREM StaleHasAReason == WaitSpec => []StaleIsExplained
<1>1. WaitInit => StaleInv
  BY DEF WaitInit, StaleInv, Nothing
<1>2. WaitTypeInv /\ StaleInv /\ [WaitNext]_waitVars => StaleInv'
  BY StaleNext
<1>3. StaleInv => StaleIsExplained
  BY DEF StaleInv, StaleIsExplained, Explained
<1>. QED
  BY <1>1, <1>2, <1>3, WaitTypeInvariance, PTL DEF WaitSpec


-----------------------------------------------------------------------------
(* Equal readings mean that the panel has not changed between them.         *)

\* The panel was read no later than it is shown, and since the first of the equal
\* readings it has not changed: what it showed before never comes back.
ReadInv ==
  /\ shownAt <= elapsed /\ steadyAt <= elapsed
  /\ lastReading # Nothing =>
       /\ Rank[lastReading] <= Rank[shown]
       /\ lastReading = shown => shownAt <= since

LEMMA ReadNext ==
  ASSUME WaitTypeInv, ReadInv, [WaitNext]_waitVars PROVE ReadInv'
<1>1. /\ elapsed \in Nat /\ since \in Nat /\ shownAt \in Nat /\ steadyAt \in Nat
      /\ shown \in Panel /\ lastReading \in {Nothing, "old", "partial", "final"}
      /\ since <= elapsed
  BY WaitLimits DEF WaitTypeInv, LoopTyped, PageTyped, Paced, Times
<1>2. CASE Accept \/ KeepCounting \/ OldResult \/ NotYet
  <2>1. /\ doing = "look" /\ UNCHANGED <<elapsed, shown, past>>
        /\ \/ Candidate /\ Concrete /\ Counted
           \/ NotCounting
    BY <1>2 DEF Accept, KeepCounting, OldResult, NotYet, pageVars
  <2>2. \/ Counted /\ Concrete
        \/ lastReading' = Nothing
        \/ UNCHANGED stable
    BY <2>1, CountEffect
  <2>3. CASE Counted /\ Concrete
    <3>1. lastReading' = Fingerprint /\ (since' = elapsed \/ (Fingerprint = lastReading /\ since' = since))
      BY <2>3 DEF Counted
    <3>2. Rank[shown] \in Nat /\ Rank["old"] <= Rank[shown]
      BY <1>1, RankOrder
    <3>3. Fingerprint = shown \/ (Fingerprint = "old" /\ shown = "final")
      BY <2>3, ReadingTyped DEF WaitTypeInv
    <3>4. CASE Fingerprint = shown
      BY <1>1, <2>1, <3>1, <3>2, <3>4 DEF ReadInv, past
    <3>5. CASE Fingerprint = "old" /\ shown = "final"
      BY <1>1, <2>1, <3>1, <3>2, <3>5 DEF ReadInv, past
    <3>. QED
      BY <3>3, <3>4, <3>5
  <2>. QED
    BY <2>1, <2>2, <2>3 DEF ReadInv, past, stable
<1>3. CASE Sleep \/ FinalSleep
  <2>1. /\ elapsed' \in Nat /\ elapsed <= elapsed'
        /\ UNCHANGED <<shown, stable, past>>
    BY <1>1, <1>3, WaitLimits DEF Sleep, FinalSleep, TimePasses, pageVars
  <2>. QED
    BY <1>1, <2>1 DEF ReadInv, stable, past
<1>4. CASE PageMoves
  <2>1. UNCHANGED <<elapsed, stable>> /\ steadyAt' = elapsed
    BY <1>4 DEF PageMoves
  <2>2. CASE PanelMoves
    <3>1. /\ shown' \in Panel /\ Rank[shown'] > Rank[shown] /\ shownAt' = elapsed
      BY <2>2 DEF PanelMoves
    <3>2. lastReading # Nothing => lastReading \in Panel
      BY <1>1 DEF Panel
    <3>3. lastReading # Nothing =>
            Rank[lastReading] <= Rank[shown'] /\ lastReading # shown'
      BY <1>1, <3>1, <3>2, RankOrder DEF ReadInv
    <3>. QED
      BY <1>1, <2>1, <3>1, <3>3 DEF ReadInv, stable
  <2>3. CASE UNCHANGED <<shown, shownAt>>
    BY <1>1, <2>1, <2>3 DEF ReadInv, stable
  <2>. QED
    BY <1>4, <2>2, <2>3 DEF PageMoves
<1>5. CASE UNCHANGED <<shown, elapsed, stable, past>>
  BY <1>5 DEF ReadInv, stable, past
<1>. QED
  BY <1>2, <1>3, <1>4, <1>5, WaitCases
     DEF ReadProgress, Reread, LookRaises, Deadline, FinalLook, Cancelled, Validate,
         pageVars, waitVars

LEMMA ReadInvariance == WaitSpec => []ReadInv
<1>1. WaitInit => ReadInv
  BY DEF WaitInit, ReadInv
<1>2. WaitTypeInv /\ ReadInv /\ [WaitNext]_waitVars => ReadInv'
  BY ReadNext
<1>. QED
  BY <1>1, <1>2, WaitTypeInvariance, PTL DEF WaitSpec

\* A result that is accepted as stable has stood on the page unchanged for the whole
\* window (simulate.py 2141-2184), although the readings in between saw only samples
\* of the page and a collapsed panel may have hidden it; or it is the final result
\* and repeats the old one.
THEOREM StableIsUnchanged == WaitSpec => StableMeansUnchanged
<1>1. ASSUME WaitTypeInv, ReadInv, [WaitNext]_waitVars
      PROVE  [doing = "look" /\ doing' = "reread"
                => elapsed - shownAt >= Window \/ (same /\ shown = "final")]_waitVars
  <2>1. SUFFICES ASSUME doing = "look", doing' = "reread", ~(same /\ shown = "final")
                 PROVE  elapsed - shownAt >= Window
    OBVIOUS
  <2>2. Accept
    BY <1>1, <2>1, WaitCases
       DEF ReadProgress, Reread, KeepCounting, OldResult, NotYet, LookRaises, Sleep,
           Deadline, FinalSleep, FinalLook, Cancelled, Validate, PageMoves, End, waitVars
  <2>3. /\ elapsed - since' >= Window /\ lastReading' = shown /\ shown' = shown
        /\ shownAt' = shownAt /\ elapsed' = elapsed /\ shown # Nothing
    BY <1>1, <2>1, <2>2, ReadingTyped
       DEF Accept, StableEnough, Counted, WaitTypeInv, pageVars, past, Nothing
  <2>4. shownAt <= since'
    BY <1>1, <2>3, ReadNext DEF ReadInv
  <2>5. elapsed \in Nat /\ shownAt \in Nat /\ Window \in Nat
    BY <1>1, WaitLimits DEF WaitTypeInv, LoopTyped, Times
  <2>6. since' \in Nat
    BY <1>1, WaitTypeNext DEF WaitTypeInv, LoopTyped, Times
  <2>7. \A e, s, a, w \in Nat : e - s >= w /\ a <= s => e - a >= w
    OBVIOUS
  <2>. QED
    BY <2>3, <2>4, <2>5, <2>6, <2>7
<1>. QED
  BY <1>1, WaitTypeInvariance, ReadInvariance, PTL DEF WaitSpec, StableMeansUnchanged


-----------------------------------------------------------------------------
(* A finished result is not given up.                                       *)

\* A final result that is told from the baseline's, fully on the page.
Finished == /\ shown = "final" /\ ~hidden /\ bar = 100
            /\ ~(known /\ same /\ ~stamped)

FinalPrint == IF same THEN "old" ELSE "final"

\* A turn of the loop has begun since anything on the page changed.
Steady == Finished /\ steadyAt < elapsed

Ripe == IF steadyAt <= ReadyFrom THEN ReadyFrom ELSE steadyAt
Late == Ripe + StableReads * MaxPoll
Ends == IF elapsed < MaxWait THEN elapsed ELSE MaxWait

\* While a finished result is on the page the wait goes on for a bounded time: after
\* each look of a steady page the count of equal readings is one higher, and the
\* time since it became steady is at most as many turns.
CountsUp ==
  /\ doing = "look" => seen = 100 /\ maxProgress = 100
  /\ doing \in {"poll", "look"} =>
       \/ elapsed <= steadyAt + MaxPoll
       \/ lastReading = FinalPrint /\ elapsed <= steadyAt + (count * MaxPoll + MaxPoll)
  /\ doing = "sleep" =>
       /\ lastReading = FinalPrint /\ count >= 1
       /\ elapsed <= steadyAt + count * MaxPoll
       /\ elapsed < ReadyFrom \/ count < StableReads

PatientInv ==
  /\ Finished /\ doing \in {"poll", "look", "sleep", "reread"} => elapsed <= Late
  /\ Finished /\ doing \in {"final", "recover"} => MaxWait <= Late
  /\ Finished /\ outcome \in {"old", "timeout", "cancelled"} => Ends <= Late
  /\ Steady => CountsUp

\* Readings are whole turns of the loop.
LEMMA Turns ==
  ASSUME NEW a \in Nat, NEW b \in Nat, NEW m \in Nat
  PROVE  /\ a * m \in Nat
         /\ (a + 1) * m = a * m + m
         /\ a < b => a * m + m <= b * m
         /\ 1 <= a => m <= a * m
<1>1. a * m \in Nat /\ b * m \in Nat /\ (a + 1) * m = a * m + m
  OBVIOUS
<1>2. ASSUME a < b PROVE a * m + m <= b * m
  <2>1. PICK d \in Nat : b = a + 1 + d
    <3>1. b - (a + 1) \in Nat /\ b = a + 1 + (b - (a + 1))
      BY <1>2
    <3>. QED
      BY <3>1
  <2>2. b * m = a * m + m + d * m /\ d * m \in Nat
    BY <2>1
  <2>. QED
    BY <1>1, <2>2
<1>3. ASSUME 1 <= a PROVE m <= a * m
  <2>1. PICK d \in Nat : a = 1 + d
    <3>1. a - 1 \in Nat /\ a = 1 + (a - 1)
      BY <1>3
    <3>. QED
      BY <3>1
  <2>2. a * m = m + d * m /\ d * m \in Nat
    BY <2>1
  <2>. QED
    BY <1>1, <2>2
<1>. QED
  BY <1>1, <1>2, <1>3

LEMMA ReadyFromTyped == ReadyFrom \in Nat
BY WaitLimits DEF ReadyFrom

LEMMA LateBounds ==
  ASSUME WaitTypeInv
  PROVE  /\ steadyAt \in Nat /\ elapsed \in Nat /\ MaxPoll \in Nat /\ StableReads \in Nat
         /\ Late \in Nat /\ StableReads * MaxPoll \in Nat
         /\ steadyAt + StableReads * MaxPoll <= Late
         /\ ReadyFrom + StableReads * MaxPoll <= Late
         /\ MaxPoll <= StableReads * MaxPoll
<1>1. /\ steadyAt \in Nat /\ elapsed \in Nat /\ ReadyFrom \in Nat
      /\ MaxPoll \in Nat /\ StableReads \in Nat /\ 0 < StableReads
  BY WaitLimits, ReadyFromTyped DEF WaitTypeInv, LoopTyped, Times
<1>2. StableReads * MaxPoll \in Nat
  BY <1>1, Turns
<1>3. MaxPoll <= StableReads * MaxPoll
  BY <1>1, Turns
<1>. QED
  BY <1>1, <1>2, <1>3 DEF Late, Ripe

\* A look at a steady page counts one reading more, unless it accepts.
LEMMA SteadyLook ==
  ASSUME Window < StableReads, WaitTypeInv, PatientInv, Steady,
         KeepCounting \/ NotYet
  PROVE  /\ lastReading' = FinalPrint /\ count' \in Nat /\ count' >= 1
         /\ elapsed <= steadyAt + count' * MaxPoll
         /\ elapsed < ReadyFrom \/ count' < StableReads
<1>1. /\ seen = 100 /\ maxProgress = 100 /\ doing = "look" /\ Reading = "final"
      /\ ~(known /\ same /\ ~stamped)
  BY DEF PatientInv, Steady, Finished, CountsUp, KeepCounting, NotYet, Reading
<1>2. Candidate /\ Concrete
  BY <1>1 DEF Candidate, ProgressComplete, Concrete
<1>3. Counted /\ (~StableEnough \/ ~Ready) /\ elapsed' = elapsed
  BY <1>2 DEF KeepCounting, NotYet, NotCounting
<1>4. /\ count' \in Nat /\ since' \in Nat /\ since' + count' <= elapsed + 1
      /\ since' <= elapsed
  BY <1>1, <1>2, <1>3, CountEffect, WaitLimits DEF Times
<1>5. /\ elapsed \in Nat /\ steadyAt \in Nat /\ MaxPoll \in Nat /\ StableReads \in Nat
      /\ Window \in Nat /\ ReadyFrom \in Nat
  BY WaitLimits, ReadyFromTyped DEF WaitTypeInv, LoopTyped, Times
<1>6. count \in Nat
  BY DEF WaitTypeInv, LoopTyped
<1>7. /\ lastReading' = FinalPrint
      /\ \/ lastReading = FinalPrint /\ count' = count + 1
         \/ lastReading # FinalPrint /\ count' = 1
  BY <1>1, <1>3 DEF Counted, Fingerprint, FinalPrint
<1>8. elapsed <= steadyAt + count' * MaxPoll
  <2>1. count' >= 1 /\ count * MaxPoll \in Nat /\ (count + 1) * MaxPoll = count * MaxPoll + MaxPoll
    BY <1>5, <1>6, <1>7, Turns
  <2>2. MaxPoll <= count' * MaxPoll /\ count' * MaxPoll \in Nat
    BY <1>4, <1>5, <2>1, Turns
  <2>3. \/ elapsed <= steadyAt + MaxPoll
        \/ lastReading = FinalPrint /\ elapsed <= steadyAt + (count * MaxPoll + MaxPoll)
    BY <1>1 DEF PatientInv, CountsUp
  <2>4. CASE elapsed <= steadyAt + MaxPoll
    BY <1>5, <2>2, <2>4
  <2>5. CASE lastReading = FinalPrint /\ elapsed <= steadyAt + (count * MaxPoll + MaxPoll)
    <3>1. count' * MaxPoll = count * MaxPoll + MaxPoll
      BY <1>7, <2>1, <2>5
    <3>. QED
      BY <2>5, <3>1
  <2>. QED
    BY <2>3, <2>4, <2>5
<1>9. CASE ~StableEnough
  <2>1. \A c, f, e, w, r \in Nat :
          ~(c >= r /\ e - f >= w) /\ f + c <= e + 1 /\ w < r => c < r
    OBVIOUS
  <2>2. count' < StableReads
    BY <1>4, <1>5, <1>9, <2>1 DEF StableEnough
  <2>. QED
    BY <1>4, <1>6, <1>7, <1>8, <2>2
<1>10. CASE ~Ready
  <2>1. ~(elapsed >= ReadyFrom)
    BY <1>1, <1>2, <1>5, <1>10 DEF Ready, DiffersFromBaseline, Fingerprint, ReadyFrom
  <2>2. elapsed < ReadyFrom
    BY <1>5, <2>1
  <2>3. count' >= 1
    BY <1>6, <1>7
  <2>. QED
    BY <1>4, <1>7, <1>8, <2>2, <2>3
<1>. QED
  BY <1>3, <1>9, <1>10


LEMMA PatientNext ==
  ASSUME Window < StableReads, WaitTypeInv, ReadInv, PatientInv, [WaitNext]_waitVars
  PROVE  PatientInv'
<1>0. /\ steadyAt \in Nat /\ elapsed \in Nat /\ MaxPoll \in Nat /\ StableReads \in Nat
      /\ Late \in Nat /\ StableReads * MaxPoll \in Nat
      /\ steadyAt + StableReads * MaxPoll <= Late
      /\ ReadyFrom + StableReads * MaxPoll <= Late
      /\ MaxPoll <= StableReads * MaxPoll
      /\ MaxWait \in Nat /\ ReadyFrom \in Nat /\ steadyAt <= elapsed
  BY LateBounds, WaitLimits, ReadyFromTyped DEF ReadInv
<1>1. doing # "ended" => outcome = Nothing
  BY DEF WaitTypeInv, EndTyped
<1>2. Ends <= elapsed /\ Ends <= MaxWait
  BY <1>0 DEF Ends
<1>3. CASE PageMoves
  <2>1. /\ steadyAt' = elapsed /\ elapsed' = elapsed /\ doing' = doing /\ outcome' = outcome
        /\ doing \in {"sleep", "look", "reread", "recover", "parse"}
    BY <1>3 DEF PageMoves
  <2>2. ~Steady'
    BY <1>0, <2>1 DEF Steady
  <2>3. Late' \in Nat /\ elapsed <= Late'
    <3>0. ReadyFrom' = ReadyFrom
      BY <1>3 DEF PageMoves, ReadyFrom
    <3>1. Ripe' \in Nat /\ elapsed <= Ripe'
      BY <1>0, <2>1, <3>0 DEF Ripe
    <3>2. \A a, b, e \in Nat : e <= a => a + b \in Nat /\ e <= a + b
      OBVIOUS
    <3>. QED
      BY <1>0, <3>1, <3>2 DEF Late
  <2>4. doing = "recover" => MaxWait <= Late'
    <3>1. doing = "recover" => elapsed >= MaxWait
      BY DEF WaitTypeInv, Paced
    <3>. QED
      BY <1>0, <2>3, <3>1
  <2>. QED
    BY <1>1, <2>1, <2>2, <2>3, <2>4 DEF PatientInv, Nothing
<1>4. ASSUME UNCHANGED <<pageVars, known, same, past, elapsed>>
      PROVE  /\ Finished' = Finished /\ Late' = Late /\ Ends' = Ends /\ Steady' = Steady
             /\ steadyAt' = steadyAt /\ elapsed' = elapsed /\ FinalPrint' = FinalPrint
             /\ ReadyFrom' = ReadyFrom
  BY <1>4 DEF pageVars, past, Finished, Late, Ripe, Ends, Steady, FinalPrint, ReadyFrom
<1>5. CASE ReadProgress
  <2>0. /\ Finished' = Finished /\ Late' = Late /\ Ends' = Ends /\ Steady' = Steady
        /\ steadyAt' = steadyAt /\ elapsed' = elapsed /\ FinalPrint' = FinalPrint
    BY <1>5, <1>4 DEF ReadProgress
  <2>1. /\ doing = "poll" /\ doing' = "look" /\ seen' = bar /\ outcome' = outcome
        /\ maxProgress' = Max({maxProgress, bar})
        /\ lastReading' = lastReading /\ count' = count
    BY <1>5 DEF ReadProgress, stable
  <2>2. Steady => seen' = 100 /\ maxProgress' = 100
    <3>1. maxProgress \in {0, 50, 100} /\ bar \in Int /\ maxProgress \in Int
      BY DEF WaitTypeInv, LoopTyped, PageTyped, Bars, NoBar
    <3>2. maxProgress' = IF maxProgress <= bar THEN bar ELSE maxProgress
      BY <2>1, <3>1, MaxOfTwo
    <3>. QED
      BY <2>1, <3>1, <3>2 DEF Steady, Finished
  <2>3. Steady => \/ elapsed <= steadyAt + MaxPoll
                  \/ lastReading = FinalPrint /\ elapsed <= steadyAt + (count * MaxPoll + MaxPoll)
    BY <2>1 DEF PatientInv, CountsUp
  <2>4. Steady' => CountsUp'
    BY <2>0, <2>1, <2>2, <2>3 DEF CountsUp
  <2>. QED
    BY <1>1, <2>0, <2>1, <2>4 DEF PatientInv, Nothing
<1>6. CASE KeepCounting \/ NotYet
  <2>0. /\ Finished' = Finished /\ Late' = Late /\ Ends' = Ends /\ Steady' = Steady
        /\ steadyAt' = steadyAt /\ elapsed' = elapsed /\ FinalPrint' = FinalPrint
        /\ ReadyFrom' = ReadyFrom
    BY <1>6, <1>4 DEF KeepCounting, NotYet
  <2>1. doing = "look" /\ doing' = "sleep" /\ outcome' = outcome
    BY <1>6 DEF KeepCounting, NotYet
  <2>2. Steady => CountsUp'
    <3>1. SUFFICES ASSUME Steady PROVE CountsUp'
      OBVIOUS
    <3>2. /\ lastReading' = FinalPrint /\ count' >= 1
          /\ elapsed <= steadyAt + count' * MaxPoll
          /\ elapsed < ReadyFrom \/ count' < StableReads
      BY <1>6, <3>1, SteadyLook
    <3>. QED
      BY <2>0, <2>1, <3>2 DEF CountsUp
  <2>. QED
    BY <1>1, <2>0, <2>1, <2>2 DEF PatientInv, Nothing
<1>7. CASE Accept \/ Reread
  <2>0. /\ Finished' = Finished /\ Late' = Late /\ Ends' = Ends /\ Steady' = Steady
        /\ steadyAt' = steadyAt /\ elapsed' = elapsed /\ FinalPrint' = FinalPrint
    BY <1>7, <1>4 DEF Accept, Reread
  <2>1. /\ doing \in {"look", "reread"} /\ doing' \in {"reread", "parse"}
        /\ outcome' = outcome
    BY <1>7 DEF Accept, Reread
  <2>2. CountsUp'
    BY <2>1 DEF CountsUp
  <2>. QED
    BY <1>1, <2>0, <2>1, <2>2 DEF PatientInv, Nothing
<1>8. CASE Deadline
  <2>0. /\ Finished' = Finished /\ Late' = Late /\ Ends' = Ends /\ Steady' = Steady
        /\ steadyAt' = steadyAt /\ elapsed' = elapsed /\ FinalPrint' = FinalPrint
    BY <1>8, <1>4 DEF Deadline
  <2>1. /\ doing = "poll" /\ doing' = "final" /\ outcome' = outcome /\ elapsed >= MaxWait
    BY <1>8 DEF Deadline
  <2>2. Finished => MaxWait <= Late
    BY <1>0, <2>1 DEF PatientInv
  <2>3. CountsUp'
    BY <2>1 DEF CountsUp
  <2>. QED
    BY <1>1, <2>0, <2>1, <2>2, <2>3 DEF PatientInv, Nothing
<1>9. CASE OldResult \/ LookRaises \/ Cancelled
  <2>0. /\ Finished' = Finished /\ Late' = Late /\ Ends' = Ends /\ Steady' = Steady
        /\ steadyAt' = steadyAt /\ elapsed' = elapsed /\ FinalPrint' = FinalPrint
    BY <1>9, <1>4 DEF OldResult, LookRaises, Cancelled
  <2>1. /\ doing \in {"poll", "look", "reread", "sleep", "final", "recover"}
        /\ doing' = "ended"
    BY <1>9 DEF OldResult, LookRaises, Cancelled, End, WaitTypeInv, LoopTyped, Doings
  <2>2. Finished => Ends <= Late
    <3>1. Finished => elapsed <= Late \/ MaxWait <= Late
      BY <2>1 DEF PatientInv
    <3>. QED
      BY <1>0, <1>2, <3>1 DEF Ends
  <2>3. CountsUp'
    BY <2>1 DEF CountsUp
  <2>. QED
    BY <2>0, <2>1, <2>2, <2>3 DEF PatientInv
<1>10. CASE FinalLook
  <2>0. /\ Finished' = Finished /\ Late' = Late /\ Ends' = Ends /\ Steady' = Steady
        /\ steadyAt' = steadyAt /\ elapsed' = elapsed /\ FinalPrint' = FinalPrint
    BY <1>10, <1>4 DEF FinalLook
  <2>1. /\ doing = "recover"
        /\ \/ doing' = "parse" /\ outcome' = outcome
           \/ doing' = "ended" /\ outcome' = "timeout"
    BY <1>10 DEF FinalLook, End
  <2>2. Finished => Ends <= Late
    <3>1. Finished => MaxWait <= Late
      BY <2>1 DEF PatientInv
    <3>. QED
      BY <1>0, <1>2, <3>1 DEF Ends
  <2>3. CountsUp'
    BY <2>1 DEF CountsUp
  <2>. QED
    BY <1>1, <2>0, <2>1, <2>2, <2>3 DEF PatientInv, Nothing
<1>11. CASE \E fresh \in BOOLEAN : Validate(fresh)
  <2>0. /\ Finished' = Finished /\ Late' = Late /\ Ends' = Ends /\ Steady' = Steady
        /\ steadyAt' = steadyAt /\ elapsed' = elapsed /\ FinalPrint' = FinalPrint
    BY <1>11, <1>4 DEF Validate
  <2>1. /\ doing = "parse" /\ doing' \in {"parse", "ended"}
        /\ outcome' \in {outcome, "accepted", "stale"}
    BY <1>11 DEF Validate, End
  <2>2. CountsUp'
    BY <2>1 DEF CountsUp
  <2>. QED
    BY <1>1, <2>0, <2>1, <2>2 DEF PatientInv, Nothing
<1>12. CASE UNCHANGED waitVars
  BY <1>4, <1>12 DEF waitVars, reading, stable, PatientInv, CountsUp
<1>13. CASE Sleep
  <2>1. PICK gap \in 1 .. MaxPoll : elapsed' = elapsed + gap
    BY <1>13 DEF Sleep, TimePasses
  <2>2. /\ doing = "sleep" /\ doing' = "poll" /\ UNCHANGED <<pageVars, known, same, stable, past>>
        /\ outcome' = outcome
    BY <1>13 DEF Sleep
  <2>3. /\ Finished' = Finished /\ Late' = Late /\ steadyAt' = steadyAt
        /\ lastReading' = lastReading /\ count' = count /\ FinalPrint' = FinalPrint
    BY <2>2 DEF pageVars, stable, past, Finished, Late, Ripe, FinalPrint, ReadyFrom
  <2>4. elapsed' \in Nat /\ elapsed' <= elapsed + MaxPoll
    BY <1>0, <2>1
  <2>5. /\ count \in Nat /\ count * MaxPoll \in Nat
        /\ count < StableReads => count * MaxPoll + MaxPoll <= StableReads * MaxPoll
    <3>1. count \in Nat
      BY DEF WaitTypeInv, LoopTyped
    <3>. QED
      BY <1>0, <3>1, Turns
  <2>6. ASSUME Finished
        PROVE  /\ elapsed' <= Late
               /\ \/ elapsed' <= steadyAt + MaxPoll
                  \/ lastReading = FinalPrint
                       /\ elapsed' <= steadyAt + (count * MaxPoll + MaxPoll)
    <3>1. CASE ~Steady
      BY <1>0, <2>4, <2>6, <3>1 DEF Steady
    <3>2. CASE Steady
      <4>1. /\ lastReading = FinalPrint /\ elapsed <= steadyAt + count * MaxPoll
            /\ elapsed < ReadyFrom \/ count < StableReads
        BY <2>2, <3>2 DEF PatientInv, CountsUp
      <4>2. elapsed' <= steadyAt + (count * MaxPoll + MaxPoll)
        <5>1. \A a, b, c, d, e \in Nat : a <= b + d /\ e <= a + c => e <= b + (d + c)
          OBVIOUS
        <5>. QED
          BY <1>0, <2>4, <2>5, <4>1, <5>1
      <4>3. elapsed' <= Late
        <5>1. CASE count < StableReads
          <6>1. \A a, b, c, d, e \in Nat : e <= b + d /\ d <= c /\ b + c <= a => e <= a
            OBVIOUS
          <6>2. count * MaxPoll + MaxPoll \in Nat
            BY <1>0, <2>5
          <6>. QED
            BY <1>0, <2>4, <2>5, <4>2, <5>1, <6>1, <6>2
        <5>2. CASE elapsed < ReadyFrom
          <6>1. \A a, b, c, d, e, f \in Nat :
                  f < b /\ e <= f + d /\ d <= c /\ b + c <= a => e <= a
            OBVIOUS
          <6>. QED
            BY <1>0, <2>4, <5>2, <6>1
        <5>. QED
          BY <4>1, <5>1, <5>2
      <4>. QED
        BY <4>1, <4>2, <4>3
    <3>. QED
      BY <3>1, <3>2
  <2>7. Finished => CountsUp'
    BY <2>2, <2>3, <2>6 DEF CountsUp
  <2>. QED
    BY <1>1, <2>2, <2>3, <2>6, <2>7 DEF PatientInv, Steady, Nothing
<1>14. CASE FinalSleep
  <2>1. /\ doing = "final" /\ doing' = "recover" /\ UNCHANGED <<pageVars, known, same, past>>
        /\ outcome' = outcome
    BY <1>14 DEF FinalSleep
  <2>2. Finished' = Finished /\ Late' = Late
    BY <2>1 DEF pageVars, past, Finished, Late, Ripe, ReadyFrom
  <2>3. CountsUp'
    BY <2>1 DEF CountsUp
  <2>. QED
    BY <1>1, <2>1, <2>2, <2>3 DEF PatientInv, Nothing
<1>. QED
  BY <1>3, <1>5, <1>6, <1>7, <1>8, <1>9, <1>10, <1>11, <1>12, <1>13, <1>14, WaitCases

LEMMA PatientInvariance ==
  ASSUME Window < StableReads PROVE WaitSpec => []PatientInv
<1>1. WaitInit /\ WaitTypeInv => PatientInv
  <2>1. SUFFICES ASSUME WaitInit, WaitTypeInv PROVE PatientInv
    OBVIOUS
  <2>2. elapsed = 0 /\ steadyAt = 0 /\ doing = "poll" /\ outcome = Nothing
    BY <2>1 DEF WaitInit
  <2>3. elapsed <= Late /\ ~Steady
    BY <2>1, <2>2, LateBounds DEF Steady
  <2>. QED
    BY <2>2, <2>3 DEF PatientInv, Nothing
<1>2. WaitTypeInv /\ ReadInv /\ PatientInv /\ [WaitNext]_waitVars => PatientInv'
  BY PatientNext
<1>. QED
  BY <1>1, <1>2, WaitTypeInvariance, ReadInvariance, PTL DEF WaitSpec

\* A page that shows the final result, fully loaded and with its bar at 100, and told
\* from the baseline's by a number, a line or a time stamp, is not given up before
\* the loop has had the turns it needs (simulate.py 2051-2278): as long as the window
\* takes fewer turns than the equal readings it is measured by, which
\* RESULT_STABLE_READS and RESULT_DOM_STABLE_WINDOW_SECONDS (lines 67 and 69) see
\* to, three readings against two turns.
THEOREM FinishedIsNotGivenUp ==
  ASSUME Window < StableReads PROVE WaitSpec => []FinishedIsAccepted
<1>1. ASSUME WaitTypeInv, PatientInv PROVE FinishedIsAccepted
  <2>1. /\ steadyAt \in Int /\ ReadyFrom \in Int
    BY <1>1, LateBounds, WaitLimits, ReadyFromTyped
  <2>2. Max({steadyAt, ReadyFrom}) = Ripe
    BY <2>1, MaxOfTwo DEF Ripe
  <2>. QED
    BY <1>1, <2>2 DEF PatientInv, FinishedIsAccepted, Finished, Late, Ends
<1>. QED
  BY <1>1, WaitTypeInvariance, PatientInvariance, PTL

=============================================================================
