----------------------------- MODULE EventStore -----------------------------
(***************************************************************************)
(* What the storage manager promises of the events appended to it: an      *)
(* accepted event is stored at most once or lost, an event is lost only in *)
(* degraded mode, and degraded mode is never left.  EventQueue implements  *)
(* this with a queue, a writer thread and SQLite transactions.             *)
(***************************************************************************)
EXTENDS Naturals

CONSTANT Event

VARIABLES
  accepted,   \* events whose append was answered with TRUE
  rows,       \* [Event -> Nat], its rows in the database
  lost,       \* events given up
  degraded    \* IO_DEGRADED_MODE

vars == <<accepted, rows, lost, degraded>>

Init ==
  /\ accepted = {} /\ lost = {} /\ degraded = FALSE
  /\ rows = [e \in Event |-> 0]

Pending == {e \in accepted \ lost : rows[e] = 0}

Accept(e) ==
  /\ e \notin accepted
  /\ accepted' = accepted \cup {e}
  /\ UNCHANGED <<rows, lost, degraded>>

\* The events of a batch are committed together.
Commit(S) ==
  /\ S # {} /\ S \subseteq Pending
  /\ rows' = [e \in Event |-> IF e \in S THEN 1 ELSE rows[e]]
  /\ UNCHANGED <<accepted, lost, degraded>>

\* Giving events up, or only reporting a fault, enters degraded mode.
Lose(S) ==
  /\ S \subseteq Pending
  /\ lost' = lost \cup S
  /\ degraded' = TRUE
  /\ UNCHANGED <<accepted, rows>>

Next ==
  \/ \E e \in Event : Accept(e)
  \/ \E S \in SUBSET Event : Commit(S) \/ Lose(S)

Spec == Init /\ [][Next]_vars
=============================================================================
