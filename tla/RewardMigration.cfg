CONSTANTS
  MinSamples = 8
  MinHybrid = 12
  Advance = 3
  HistoryLimit = 12
  PoolSizes <- MCPoolSizes
  AdaptiveWeights <- MCAdaptiveWeights
  MaxHealthy = 10
  MaxRollbacks = 3
SPECIFICATION Spec
INVARIANTS ReturnIsSlow RecoveryIsGradual FlaggedIsLegacy
PROPERTY AdvanceEarned
