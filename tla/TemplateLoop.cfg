SPECIFICATION LoopSpec
CONSTANTS
  alpha = alpha
  beta = beta
  broken = broken
  Code = {alpha, beta, broken}
  Invalid = {broken}
  None = None
  MaxIterations = 5
  RetryLimit = 3
  HardRecovery = 2
  NoProgressLimit = 3
  SkipLimit = 3
INVARIANTS
  CreditedOnce
  SkipsNeverConsecutive
  RepeatsOnlyAfterSkip
CHECK_DEADLOCK FALSE
