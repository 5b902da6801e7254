-------------------------- MODULE BacktestAttempt --------------------------
(***************************************************************************)
(* One call of run_platform_backtest_attempt (simulate.py): the driver     *)
(* that opens a browser session, races the alpha's finite-state machine    *)
(* (workflow_state.py) against the browser watchdog and the 25-minute      *)
(* alpha timer (run_alpha_fsm), closes the session and, by the recovery    *)
(* level of the result, returns it, opens another session or restarts the  *)
(* browser first.                                                          *)
(*                                                                         *)
(* The actors are the driver, the alpha task, the watchdog task and the    *)
(* browser.  They share one event loop, so an action is what runs between  *)
(* two awaits.  A handler with an outside effect (text typed, Run clicked, *)
(* favorite recorded) is split at that effect: a timeout, an exception or  *)
(* a cancellation may fall on either side of it.                           *)
(***************************************************************************)
EXTENDS Integers

CONSTANTS
  MaxRecovery,  \* sessions rebuilt before an automation error is returned
  MaxRestart    \* browser restarts before a level-4 error is returned

ASSUME LimitsAssumption == MaxRecovery \in Nat /\ MaxRestart \in Nat

-----------------------------------------------------------------------------
(* STATE_ORDER and STATE_POLICIES.  A state is its position in the order.  *)

INIT          == 1
AUTH_CHECK    == 2
OPEN_SIMULATE == 3
EDITOR_READY  == 4
WRITE_CODE    == 5
WRITE_NAME    == 6
CLICK_RUN     == 7
WAIT_QUEUE    == 8
WAIT_RESULT   == 9
PARSE_RESULT  == 10
QUALITY_CHECK == 11
ADD_FAVORITE  == 12
FINISHED      == 13
STATE_ORDER   == INIT .. FINISHED

MaxRetry(s) ==
  CASE s \in {INIT, QUALITY_CHECK, FINISHED} -> 0
    [] s = WAIT_RESULT -> 2
    [] OTHER -> 1

\* RecoveryLevel of a policy: 1 reload the page, 3 rebuild the context,
\* 4 restart the browser.  No policy asks for levels 2 and 5.
Level(s) ==
  CASE s \in {WRITE_CODE, WRITE_NAME, CLICK_RUN} -> 1
    [] s \in {INIT, FINISHED} -> 4
    [] OTHER -> 3

-----------------------------------------------------------------------------
VARIABLES
  pc,          \* the driver: "open", "fsm", "decide", "returned", "raised"
  recoveries,  \* recovery_attempts
  restarts,    \* browser_restart_attempts
  result,      \* the SimulationResult of the last session, by its origin
  browser,     \* "up" or "down"
  unhealthy,   \* the browser_failure future is done
  alpha,       \* the alpha task: "running" or how it ended
  state,       \* the state the FSM is in
  retry,       \* retries used in that state
  step,        \* "enter", or "acted" once the handler has had its effect
  page,        \* does the editor hold this alpha's code, its name?
  quality,     \* ctx.quality: "none", "passed" or "failed"
  launched,    \* what the page held at each click on Run
  runs,        \* clicks on Run
  favLog,      \* rows of this code in the favorites log
  library      \* rows of this code in the local alpha library

driverVars  == <<pc, recoveries, restarts, result>>
fsmVars     == <<alpha, state, retry, step, page, quality>>
outsideVars == <<launched, runs, favLog, library>>
vars == <<driverVars, fsmVars, outsideVars, browser, unhealthy>>

Blank == [code |-> FALSE, name |-> FALSE]
Ended == {"ok", "fatal", "platform_error", "final_correlation", "timeout",
          "unhandled"}

TypeOK ==
  /\ pc \in {"open", "fsm", "decide", "returned", "raised"}
  /\ recoveries \in 0 .. MaxRecovery + 1
  /\ restarts \in 0 .. MaxRestart + 1
  /\ result \in Ended \cup {"none", "watchdog"}
  /\ browser \in {"up", "down"}
  /\ unhealthy \in BOOLEAN
  /\ alpha \in Ended \cup {"running"}
  /\ state \in STATE_ORDER
  /\ retry \in 0 .. MaxRetry(state)
  /\ step \in {"enter", "acted"}
  /\ page \in [code : BOOLEAN, name : BOOLEAN]
  /\ quality \in {"none", "passed", "failed"}
  /\ launched \in SUBSET [code : BOOLEAN, name : BOOLEAN]
  /\ runs \in Nat /\ favLog \in Nat /\ library \in Nat

Init ==
  /\ pc = "open" /\ recoveries = 0 /\ restarts = 0 /\ result = "none"
  /\ browser = "up" /\ unhealthy = FALSE
  /\ alpha = "running" /\ state = INIT /\ retry = 0 /\ step = "enter"
  /\ page = Blank /\ quality = "none"
  /\ launched = {} /\ runs = 0 /\ favLog = 0 /\ library = 0

-----------------------------------------------------------------------------
(* The driver opens a session.                                             *)

\* new_alpha_session: the supervisor launches a browser unless one is
\* connected, then a fresh context and page; the FSM context starts empty.
OpenSession ==
  /\ pc = "open"
  /\ pc' = "fsm"
  /\ browser' = "up" /\ unhealthy' = FALSE
  /\ alpha' = "running" /\ state' = INIT /\ retry' = 0 /\ step' = "enter"
  /\ page' = Blank /\ quality' = "none"
  /\ UNCHANGED <<recoveries, restarts, result, outsideVars>>

\* Launching the browser or creating the context or page raises; nothing
\* above the supervisor catches it.
OpenRaises ==
  /\ pc = "open"
  /\ pc' = "raised"
  /\ UNCHANGED <<recoveries, restarts, result, fsmVars, outsideVars, browser,
                 unhealthy>>

-----------------------------------------------------------------------------
(* The alpha task: handlers with an outside effect.                        *)

Running == pc = "fsm" /\ alpha = "running"

\* The handler of s is at work on a live page and has not had its effect.
Handling(s) == Running /\ state = s /\ step = "enter" /\ browser = "up"

Acted == step' = "acted" /\ UNCHANGED <<driverVars, alpha, state, retry, browser,
                                        unhealthy>>

WriteCode ==
  /\ Handling(WRITE_CODE)
  /\ page' = [page EXCEPT !.code = TRUE]
  /\ Acted
  /\ UNCHANGED <<quality, outsideVars>>

WriteName ==
  /\ Handling(WRITE_NAME)
  /\ page' = [page EXCEPT !.name = TRUE]
  /\ Acted
  /\ UNCHANGED <<quality, outsideVars>>

ClickRun ==
  /\ Handling(CLICK_RUN)
  /\ launched' = launched \cup {page}
  /\ runs' = runs + 1
  /\ Acted
  /\ UNCHANGED <<page, quality, favLog, library>>

\* The validated text is parsed into a quality report.
ParseResult ==
  /\ Handling(PARSE_RESULT)
  /\ quality' \in {"passed", "failed"}
  /\ Acted
  /\ UNCHANGED <<page, outsideVars>>

\* Mutant: the correlation check of the last moment is left out.
NoLibraryCheck == TRUE

\* check_self_correlation: a row of the library with this code's MD5 rejects.
\* Whether another alpha's row rejects is up to the environment.
LibraryAdmits == library = 0

\* Correlation passed, the favorite button is clicked and confirmed; the two
\* files are then appended to without an await between them.
AddFavorite ==
  /\ Handling(ADD_FAVORITE)
  /\ quality = "passed" /\ LibraryAdmits
  /\ favLog' = favLog + 1
  /\ library' = library + 1
  /\ Acted
  /\ UNCHANGED <<page, quality, launched, runs>>

-----------------------------------------------------------------------------
(* The alpha task: leaving a state.                                        *)

\* Mutant: fsm_add_favorite returns whether or not the favorite was added.
AlwaysSettled == TRUE

FavoriteSettled == step = "acted" \/ quality # "passed"

\* The handler has no more to do, and the page it needs answers.
HandlerReturns ==
  \/ /\ state \in {WRITE_CODE, WRITE_NAME, CLICK_RUN, PARSE_RESULT}
     /\ step = "acted" /\ browser = "up"
  \/ state = ADD_FAVORITE /\ FavoriteSettled
  \/ state = QUALITY_CHECK /\ quality # "none"
  \/ /\ state \in {INIT, AUTH_CHECK, OPEN_SIMULATE, EDITOR_READY, WAIT_QUEUE,
                   WAIT_RESULT, FINISHED}
     /\ browser = "up"

StateExit ==
  /\ Running /\ HandlerReturns
  /\ IF state = FINISHED
     THEN alpha' = "ok" /\ UNCHANGED <<state, retry, step>>
     ELSE /\ state' = state + 1 /\ retry' = 0 /\ step' = "enter"
          /\ UNCHANGED alpha
  /\ UNCHANGED <<driverVars, page, quality, outsideVars, browser, unhealthy>>

\* Mutant: the code is not written again before the retry of CLICK_RUN.
RestoredWithoutCode(s) == [code |-> s = WRITE_NAME, name |-> s = CLICK_RUN]

\* What the reloaded page holds after restore_page_for_state_retry.
Restored(s) == [code |-> s \in {WRITE_NAME, CLICK_RUN}, name |-> s = CLICK_RUN]

\* fsm_recover.  Level 1 reloads and restores the page, and may itself fail;
\* every higher level raises.  What it raises leaves _run_state unhandled.
Recover ==
  \/ /\ Level(state) = 1 /\ browser = "up"
     /\ retry' = retry + 1 /\ step' = "enter"
     /\ page' = Restored(state)
     /\ UNCHANGED <<alpha, state, quality>>
  \/ alpha' = "unhandled" /\ UNCHANGED <<state, retry, step, page, quality>>

\* Mutant: the number of retries is not looked at.
RaisesForever == Recover

\* The except clauses of _run_state: a retry while the policy allows one,
\* otherwise _fatal with the level of the policy.
HandlerRaises ==
  IF retry < MaxRetry(state)
  THEN Recover
  ELSE alpha' = "fatal" /\ UNCHANGED <<state, retry, step, page, quality>>

\* QUALITY_CHECK awaits nothing; neither does ADD_FAVORITE when there is no
\* favorite to add, or after its files are written.
MayRaise ==
  /\ state = QUALITY_CHECK => quality = "none"
  /\ state = ADD_FAVORITE => step = "enter" /\ quality = "passed" /\ LibraryAdmits

\* The per-state timeout, or an exception of the handler.
StateRaises ==
  /\ Running /\ MayRaise
  /\ HandlerRaises
  /\ UNCHANGED <<driverVars, outsideVars, browser, unhealthy>>

\* The favorites log was appended to, appending to the library raises.
LibraryAppendRaises ==
  /\ Handling(ADD_FAVORITE)
  /\ quality = "passed" /\ LibraryAdmits
  /\ favLog' = favLog + 1
  /\ HandlerRaises
  /\ UNCHANGED <<driverVars, launched, runs, library, browser, unhealthy>>

\* Mutant: the correlation is checked after the favorite was added.
StateRejectsLate ==
  /\ Running
  /\ \/ /\ state = WAIT_RESULT /\ browser = "up" /\ step = "enter"
        /\ alpha' = "platform_error"
     \/ /\ state = ADD_FAVORITE /\ quality = "passed"
        /\ alpha' = "final_correlation"
  /\ UNCHANGED <<driverVars, state, retry, step, page, quality, outsideVars,
                 browser, unhealthy>>

\* NonRecoverableStateError: the platform shows an error while the result is
\* awaited, or the correlation check rejects the favorite.
StateRejects ==
  /\ Running /\ step = "enter"
  /\ \/ /\ state = WAIT_RESULT /\ browser = "up"
        /\ alpha' = "platform_error"
     \/ /\ state = ADD_FAVORITE /\ quality = "passed"
        /\ alpha' = "final_correlation"
  /\ UNCHANGED <<driverVars, state, retry, step, page, quality, outsideVars,
                 browser, unhealthy>>

AlphaStep ==
  \/ WriteCode \/ WriteName \/ ClickRun \/ ParseResult \/ AddFavorite
  \/ StateExit \/ StateRaises \/ LibraryAppendRaises \/ StateRejects

\* The 25-minute timer cancels the FSM wherever it is.
AlphaTimeout ==
  /\ Running
  /\ alpha' = "timeout"
  /\ UNCHANGED <<driverVars, state, retry, step, page, quality, outsideVars,
                 browser, unhealthy>>

-----------------------------------------------------------------------------
(* The browser and its watchdog.                                           *)

BrowserDies ==
  /\ pc = "fsm" /\ browser = "up"
  /\ browser' = "down"
  /\ UNCHANGED <<driverVars, fsmVars, outsideVars, unhealthy>>

\* A heartbeat fails.  A page too busy to answer in 5 seconds counts as dead,
\* so the browser may be up; the task may have ended in the meantime.
BrowserUnhealthy ==
  /\ pc = "fsm" /\ ~unhealthy
  /\ unhealthy' = TRUE
  /\ UNCHANGED <<driverVars, fsmVars, outsideVars, browser>>

-----------------------------------------------------------------------------
(* The driver decides.                                                     *)

\* asyncio.wait returned.  A browser failure wins over a running or finished
\* task; awaiting a task that failed raises its exception instead.
FsmResult ==
  IF unhealthy /\ alpha \in {"running", "ok"} THEN "watchdog" ELSE alpha

Resume ==
  /\ pc = "fsm"
  /\ unhealthy \/ alpha # "running"
  /\ pc' = "decide"
  /\ result' = FsmResult
  /\ UNCHANGED <<recoveries, restarts, fsmVars, outsideVars, browser, unhealthy>>

RecoveryLevel ==
  CASE result = "watchdog" -> 4
    [] result = "fatal" -> Level(state)
    [] OTHER -> 3

IsAutomation == result \notin {"ok", "platform_error", "final_correlation"}

\* The session is closed on every path out of "decide".
ReturnResult ==
  /\ pc = "decide" /\ ~IsAutomation
  /\ pc' = "returned"
  /\ UNCHANGED <<recoveries, restarts, result, fsmVars, outsideVars, browser,
                 unhealthy>>

\* Mutant: the attempts at recovery are not counted.
RetryWithoutCounting ==
  /\ pc = "decide" /\ IsAutomation /\ RecoveryLevel \in 1 .. 3
  /\ pc' = "open"
  /\ UNCHANGED <<recoveries, restarts, result, fsmVars, outsideVars, browser,
                 unhealthy>>

RetrySession ==
  /\ pc = "decide" /\ IsAutomation /\ RecoveryLevel \in 1 .. 3
  /\ recoveries' = recoveries + 1
  /\ pc' = IF recoveries' > MaxRecovery THEN "returned" ELSE "open"
  /\ UNCHANGED <<restarts, result, fsmVars, outsideVars, browser, unhealthy>>

\* restart_browser closes and launches; a launch that raises is not caught.
RestartBrowser ==
  /\ pc = "decide" /\ IsAutomation /\ RecoveryLevel = 4
  /\ restarts' = restarts + 1
  /\ \/ /\ restarts' > MaxRestart
        /\ pc' = "returned" /\ UNCHANGED browser
     \/ /\ restarts' <= MaxRestart
        /\ \/ pc' = "open" /\ browser' = "up"
           \/ pc' = "raised" /\ browser' = "down"
  /\ UNCHANGED <<recoveries, result, fsmVars, outsideVars, unhealthy>>

DriverStep ==
  \/ OpenSession \/ OpenRaises \/ Resume
  \/ ReturnResult \/ RetrySession \/ RestartBrowser

Next == DriverStep \/ AlphaStep \/ AlphaTimeout \/ BrowserDies \/ BrowserUnhealthy

\* The event loop runs whatever is ready, and every handler is bounded by its
\* timeout.  Nothing makes the browser die or the watchdog fire.
Fairness == WF_vars(DriverStep) /\ WF_vars(AlphaStep)

Spec == Init /\ [][Next]_vars /\ Fairness

-----------------------------------------------------------------------------
(* Properties.                                                             *)

\* Whatever was reloaded, retried or rebuilt before it, a click on Run submits
\* this alpha's code under this alpha's name (restore_page_for_state_retry).
RunCarriesAlpha == launched \subseteq {[code |-> TRUE, name |-> TRUE]}

Sessions == recoveries + restarts + 1

\* A timeout after the click makes CLICK_RUN click again, so one request may
\* cost several backtests: never more than two for each session opened.
RunsBounded == pc \in {"fsm", "decide"} => runs <= 2 * Sessions

\* A session that fails after the favorite was recorded is run again from the
\* start, and still the library never gets this code twice.
LibraryAtMostOnce == library <= 1

\* A session adds at most one row to the favorites log, although ADD_FAVORITE
\* has a retry: recovery at level 3 leaves the session instead of retrying.
FavoriteOncePerSession == pc \in {"fsm", "decide"} => favLog <= Sessions

\* A result returned as ok whose quality passed is in the favorites log and in
\* the library, whichever session put it there.
PassedIsFavorited ==
  pc = "returned" /\ result = "ok" /\ quality = "passed"
    => favLog >= 1 /\ library >= 1

\* The correlation red line forbids a favorite (favorites.py asserts it).  A
\* request that comes back rejected by it although its code is in the library
\* met the row of an earlier session of its own.
RejectedIsExplained ==
  pc = "returned" /\ result = "final_correlation" /\ library > 0 => Sessions > 1

\* Every request comes back, with a result or with an exception.
Terminates == <>(pc \in {"returned", "raised"})
=============================================================================
