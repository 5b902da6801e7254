SPECIFICATION Spec
CONSTANTS
  MaxRecovery = 2
  MaxRestart = 1
INVARIANTS
  RunCarriesAlpha
  RunsBounded
  LibraryAtMostOnce
  RejectedIsExplained
  PassedIsFavorited
PROPERTY Terminates
CHECK_DEADLOCK FALSE
