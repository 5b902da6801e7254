CONSTANTS
  MaxTemplates = 2
  MaxIterations = 2
  SettleAfter = 1
  ReleaseRounds = 2
  MaxLate = 1
SPECIFICATION Spec
INVARIANTS NothingIsReleased LayerAddsNothing BaseOfThisTemplate
CHECK_DEADLOCK FALSE
