------------------------------ MODULE WaitResult ------------------------------
(* Waiting for the result of a run and accepting it: the states WAIT_RESULT and *)
(* PARSE_RESULT of simulate.py (wait_for_backtest_finished,                     *)
(* final_recovery_result_text, collect_and_validate_result_with_stale_downgrade)*)
(* and the scoring of run_validator.py.                                         *)
(*                                                                              *)
(* The page is another actor.  It shows the result of an earlier run, nothing,  *)
(* first numbers and the final result of this run, in this order; its progress  *)
(* bar comes and goes; the panel may be collapsed at any moment.  The waiting   *)
(* loop reads the bar, then the text, decides, and may read the text again.     *)
(*                                                                              *)
(* The loop runs as the shipped configuration has it: consistency validation on *)
(* and the start of the run observed, without which WAIT_QUEUE does not go on.  *)
(* Time is counted in units of one poll interval (two seconds).                 *)
EXTENDS Naturals, FiniteSetsExt

CONSTANTS
  StableReads,   \* equal readings before a result counts as stable
  Window,        \* time between the first and the last of them
  ReadyAfter,    \* age of the wait before a result without baseline is accepted
  OldAfter,      \* age of the wait at which an old result ends it
  ActiveFor,     \* time a change of the bar counts as activity
  MaxWait,       \* wait_result_max_seconds
  FinalDelay,    \* FINAL_RECOVERY_DELAY
  StateTimeout,  \* timeout of the state WAIT_RESULT
  AcceptScore,   \* freshness_accept_score
  MaxPoll        \* BOUND: longest time one turn of the loop takes

ASSUME CountsAssumption == {StableReads, MaxPoll, StateTimeout} \subseteq Nat \ {0}
ASSUME TimesAssumption ==
  {Window, ReadyAfter, OldAfter, ActiveFor, MaxWait, FinalDelay} \subseteq Nat
ASSUME DeadlineAssumption == MaxWait <= StateTimeout /\ AcceptScore \in Nat

NoBar == 0         \* read_progress found no bar; it adds nothing to max_progress
Nothing == "none"  \* no text accepted, no reading yet

VARIABLES
  shown,         \* the result panel: "old", "blank", "partial" or "final"
  hidden,        \* the panel is collapsed
  stamped,       \* a line "Last saved" or "Last Run" differs from the baseline's
  bar,           \* the progress bar, in percent
  known,         \* the baseline has the fingerprint of the result then shown
  same,          \* the final result repeats the old one's numbers and lines, as
                 \* that of a code simulated again does
  doing, elapsed,
  seen,          \* the bar as read in this turn
  maxProgress,   \* max_progress; saw_progress_100 is maxProgress = 100
  lastBar, lastChange,              \* last_progress, last_progress_change_at
  count, lastReading, since,        \* stable_count, fingerprint, started_at
  text,          \* the text accepted last
  tries,         \* attempts at validating it
  outcome,
  shownAt,       \* history: when the panel last changed
  steadyAt       \* history: when anything on the page last changed

pageVars == <<shown, hidden, stamped, bar>>
reading == <<seen, maxProgress, lastBar, lastChange>>
stable == <<count, lastReading, since>>
past == <<shownAt, steadyAt>>
waitVars == <<pageVars, known, same, doing, elapsed, reading, stable, text, tries,
              outcome, past>>

Panel == {"old", "blank", "partial", "final"}
Bars == {NoBar, 50, 100}
Times == 0..StateTimeout

WaitTypeOK ==
  /\ shown \in Panel /\ hidden \in BOOLEAN /\ stamped \in BOOLEAN
  /\ bar \in Bars /\ known \in BOOLEAN /\ same \in BOOLEAN
  /\ doing \in {"poll", "look", "reread", "sleep", "final", "recover", "parse", "ended"}
  /\ {elapsed, lastChange, since, shownAt, steadyAt} \subseteq Times
  /\ {seen, maxProgress, lastBar} \subseteq Bars
  /\ count \in Times
  /\ lastReading \in Panel \cup {Nothing} /\ text \in Panel \cup {Nothing}
  /\ tries \in 0..3
  /\ outcome \in {Nothing, "accepted", "stale", "old", "timeout", "raised", "cancelled"}

\* Run was clicked.  A fingerprint the baseline has is that of an old result; the
\* panel may be emptied by the click, and the baseline may have missed it.
WaitInit ==
  /\ shown \in {"old", "blank"} /\ hidden \in BOOLEAN /\ bar \in Bars
  /\ known \in BOOLEAN
  /\ same \in {b \in BOOLEAN : b => known \/ shown = "old"}
  /\ stamped = FALSE
  /\ doing = "poll" /\ elapsed = 0
  /\ seen = NoBar /\ maxProgress = NoBar /\ lastBar = NoBar /\ lastChange = 0
  /\ count = 0 /\ lastReading = Nothing /\ since = 0
  /\ text = Nothing /\ tries = 0 /\ outcome = Nothing
  /\ shownAt = 0 /\ steadyAt = 0

-------------------------------------------------------------------------------
\* The page

Rank == [old |-> 0, blank |-> 1, partial |-> 2, final |-> 3]

PanelMoves ==
  /\ shown' \in {s \in Panel : Rank[s] > Rank[shown]}
  /\ shownAt' = elapsed
  /\ UNCHANGED <<hidden, stamped, bar>>

PageMoves ==
  /\ doing \in {"sleep", "look", "reread", "recover", "parse"}
  /\ \/ PanelMoves
     \/ bar' \in Bars \ {bar} /\ UNCHANGED <<shown, hidden, stamped, shownAt>>
     \/ hidden' = ~hidden /\ UNCHANGED <<shown, stamped, bar, shownAt>>
     \/ ~stamped /\ stamped' = TRUE /\ UNCHANGED <<shown, hidden, bar, shownAt>>
  /\ steadyAt' = elapsed
  /\ UNCHANGED <<known, same, doing, elapsed, reading, stable, text, tries, outcome>>

\* What the text of the page says; "blank" is a text without concrete metrics.
Reading == IF hidden THEN "blank" ELSE shown
Concrete == Reading # "blank"

\* The fingerprint of what is read, without its time stamps: numbers and lines.
Fingerprint == IF same /\ Reading = "final" THEN "old" ELSE Reading

\* result_fingerprint differs from the baseline's: it holds the time stamps too.
DiffersFromBaseline == Fingerprint # "old" \/ stamped

\* Mutant: any concrete result is taken for this run's.
ReadyWhenConcrete == Concrete

\* result_ready_for_current_run.
Ready ==
  /\ Concrete
  /\ IF known THEN DiffersFromBaseline
              ELSE maxProgress >= 15 /\ elapsed >= ReadyAfter

-------------------------------------------------------------------------------
\* The waiting loop

End(how) == doing' = "ended" /\ outcome' = how

ReadProgress ==
  /\ doing = "poll" /\ elapsed < MaxWait
  /\ seen' = bar
  /\ maxProgress' = Max({maxProgress, bar})
  /\ IF bar # NoBar /\ bar # lastBar
     THEN lastBar' = bar /\ lastChange' = elapsed
     ELSE UNCHANGED <<lastBar, lastChange>>
  /\ doing' = "look"
  /\ UNCHANGED <<pageVars, known, same, elapsed, stable, text, tries, outcome, past>>

ProgressComplete == maxProgress = 100

\* Mutant: only a bar that has gone says that the run is over.
CandidateWithoutBar == seen = NoBar /\ Ready

Candidate == ProgressComplete \/ (seen = NoBar /\ Ready)

RecentlyActive ==
  lastBar # NoBar /\ ~ProgressComplete /\ elapsed - lastChange < ActiveFor

\* Mutant: any concrete reading counts, equal to the one before or not.
CountedAnyReading ==
  /\ lastReading' = Fingerprint
  /\ IF lastReading # Nothing
     THEN count' = count + 1 /\ UNCHANGED since
     ELSE count' = 1 /\ since' = elapsed

\* The stable fingerprint leaves the time stamps out.
Counted ==
  /\ lastReading' = Fingerprint
  /\ IF Fingerprint = lastReading
     THEN count' = count + 1 /\ UNCHANGED since
     ELSE count' = 1 /\ since' = elapsed

StableEnough == count' >= StableReads /\ elapsed - since' >= Window

\* A result that has been stable long enough is accepted if it is this run's ...
Accept ==
  /\ doing = "look" /\ Candidate /\ Concrete
  /\ Counted
  /\ StableEnough /\ Ready
  /\ doing' = "reread"
  /\ UNCHANGED <<pageVars, known, same, elapsed, reading, text, tries, outcome, past>>

\* ... and read once more: that text is what the wait returns.
Reread ==
  /\ doing = "reread"
  /\ text' = Reading
  /\ doing' = "parse"
  /\ UNCHANGED <<pageVars, known, same, elapsed, reading, stable, tries, outcome, past>>

KeepCounting ==
  /\ doing = "look" /\ Candidate /\ Concrete
  /\ Counted
  /\ ~StableEnough
  /\ doing' = "sleep"
  /\ UNCHANGED <<pageVars, known, same, elapsed, reading, text, tries, outcome, past>>

\* Neither accepted nor counting: the counters as this turn leaves them.
NotCounting ==
  \/ Candidate /\ Concrete /\ Counted /\ StableEnough /\ ~Ready
  \/ Candidate /\ ~Concrete /\ count' = 0 /\ lastReading' = Nothing /\ since' = 0
  \/ ~Candidate /\ UNCHANGED stable

\* The two checks for an old result; the first does not look at the fingerprint,
\* and the second is only reached on a page without any activity.
CalledOld(loading) ==
  /\ Concrete /\ elapsed >= OldAfter /\ ~RecentlyActive
  /\ \/ seen < 15
     \/ ProgressComplete /\ seen = 100 /\ ~loading /\ known /\ ~DiffersFromBaseline

OldResult ==
  /\ doing = "look" /\ NotCounting
  /\ \E loading \in BOOLEAN : CalledOld(loading)
  /\ End("old")
  /\ UNCHANGED <<pageVars, known, same, elapsed, reading, text, tries, past>>

NotYet ==
  /\ doing = "look" /\ NotCounting
  /\ \E loading \in BOOLEAN : ~CalledOld(loading)
  /\ doing' = "sleep"
  /\ UNCHANGED <<pageVars, known, same, elapsed, reading, text, tries, outcome, past>>

\* detect_platform_errors found one, or the login was lost.
LookRaises ==
  /\ doing = "look"
  /\ End("raised")
  /\ UNCHANGED <<pageVars, known, same, elapsed, reading, stable, text, tries, past>>

\* The watchdog of the state is as punctual as the clock of the loop.
TimePasses(d) == elapsed + d <= StateTimeout /\ elapsed' = elapsed + d

Sleep ==
  /\ doing = "sleep"
  /\ \E d \in 1..MaxPoll : TimePasses(d)
  /\ doing' = "poll"
  /\ UNCHANGED <<pageVars, known, same, reading, stable, text, tries, outcome, past>>

Deadline ==
  /\ doing = "poll" /\ elapsed >= MaxWait
  /\ doing' = "final"
  /\ UNCHANGED <<pageVars, known, same, elapsed, reading, stable, text, tries, outcome,
                 past>>

FinalSleep ==
  /\ doing = "final"
  /\ TimePasses(FinalDelay)
  /\ doing' = "recover"
  /\ UNCHANGED <<pageVars, known, same, reading, stable, text, tries, outcome, past>>

\* final_recovery_result_text: one more look, without asking for stability; a
\* look that fails counts as no result.
FinalLook ==
  /\ doing = "recover"
  /\ \/ Ready /\ text' = Reading /\ doing' = "parse" /\ UNCHANGED outcome
     \/ UNCHANGED text /\ End("timeout")
  /\ UNCHANGED <<pageVars, known, same, elapsed, reading, stable, tries, past>>

\* WorkflowFSM cancels the handler.
Cancelled ==
  /\ doing \notin {"parse", "ended"} /\ elapsed = StateTimeout
  /\ End("cancelled")
  /\ UNCHANGED <<pageVars, known, same, elapsed, reading, stable, text, tries, past>>

-------------------------------------------------------------------------------
\* PARSE_RESULT

\* validate_result_freshness: fsm_wait_result has set progress_complete, and a
\* wait that returned metrics has set metrics_stable, whatever is read now.
Score(fresh) ==
  40 + (IF Concrete THEN 20 ELSE 0)
     + (IF Concrete /\ text \notin {Nothing, "blank"} THEN 30 ELSE 0)
     + (IF fresh THEN 10 ELSE 0)

\* One of three attempts; the page may move before each.  An exception or the
\* state's timeout ends the state as the third refusal does, and is left out.
Validate(fresh) ==
  /\ doing = "parse"
  /\ tries' = tries + 1
  /\ \/ Score(fresh) >= AcceptScore /\ text' = Reading /\ End("accepted")
     \/ Score(fresh) < AcceptScore /\ tries' = 3 /\ UNCHANGED text /\ End("stale")
     \/ Score(fresh) < AcceptScore /\ tries' < 3 /\ UNCHANGED <<text, doing, outcome>>
  /\ UNCHANGED <<pageVars, known, same, elapsed, reading, stable, past>>

-------------------------------------------------------------------------------
WaitNext ==
  \/ ReadProgress \/ Accept \/ Reread \/ KeepCounting \/ OldResult \/ NotYet
  \/ LookRaises \/ Sleep \/ Deadline \/ FinalSleep \/ FinalLook \/ Cancelled
  \/ \E fresh \in BOOLEAN : Validate(fresh)
  \/ PageMoves

WaitSpec == WaitInit /\ [][WaitNext]_waitVars

-------------------------------------------------------------------------------
\* A result that is accepted as stable has stood on the page unchanged for the
\* whole window, whatever was read or collapsed in between (simulate.py:2141-2184).
\* Only a final result that repeats the old one may be younger: it is not told from
\* the old one read before it, whatever stood between the two.
StableMeansUnchanged ==
  [][doing = "look" /\ doing' = "reread"
       => elapsed - shownAt >= Window \/ (same /\ shown = "final")]_waitVars

\* The result of an earlier run is accepted only where the fingerprint cannot tell:
\* its time stamps changed, or the baseline missed it, and then a bar was seen
\* (simulate.py:2747-2773 and the wait and the parse after it).
StaleIsExplained ==
  outcome = "accepted" /\ text = "old" =>
    IF known THEN stamped ELSE maxProgress >= 15

\* Without a baseline a result is not this run's before that age.
ReadyFrom == IF known THEN 0 ELSE ReadyAfter

\* A page that shows the final result, fully loaded and with its bar at 100, long
\* enough for the reads before the deadline is not given up: neither the checks for
\* an old result nor the deadline nor the state's timeout come first
\* (simulate.py:2051-2278).  The exception: a result that repeats the baseline's
\* numbers under the baseline's time stamps is never ready, and is called old
\* (simulate.py:2258-2262).
FinishedIsAccepted ==
  LET ripe == Max({steadyAt, ReadyFrom})
      end  == IF elapsed < MaxWait THEN elapsed ELSE MaxWait
  IN  /\ outcome \in {"old", "timeout", "cancelled"}
      /\ shown = "final" /\ ~hidden /\ bar = 100
      /\ ~(known /\ same /\ ~stamped)
      => end <= ripe + StableReads * MaxPoll
===============================================================================
