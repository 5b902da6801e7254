------------------------- MODULE MCRewardMigration -------------------------
(* The code's own limits; the history is cut where no threshold is above. *)
EXTENDS RewardMigration

MCPoolSizes == {0, 12}
MCAdaptiveWeights == {15, 50, 85}
=============================================================================
