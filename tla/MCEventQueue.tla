---------------------------- MODULE MCEventQueue ----------------------------
(* Two producers and two events: one batch of two, or a batch of one beside *)
(* an event that waits; a put into the first queue after the second queue   *)
(* was made; two writer threads at work; a batch given up after the last    *)
(* attempt.  Liveness keeps the events few and forbids symmetry.            *)
EXTENDS EventQueue

CONSTANTS p1, p2
=============================================================================
