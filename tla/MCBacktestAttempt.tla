------------------------- MODULE MCBacktestAttempt -------------------------
(* The attempt with the limits of the code: two rebuilt sessions, one      *)
(* browser restart.  Nothing else needs a bound.                           *)
EXTENDS BacktestAttempt
=============================================================================
