--------------------------- MODULE MCPendingRewards ---------------------------
(* Two templates of two iterations; rewards are settled after one iteration  *)
(* and released after two rounds, so that both limits are within reach.      *)
EXTENDS PendingRewards
=============================================================================
