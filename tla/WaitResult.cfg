SPECIFICATION WaitSpec
CONSTANTS
  StableReads = 3
  Window = 2
  ReadyAfter = 1
  OldAfter = 3
  ActiveFor = 4
  MaxWait = 7
  FinalDelay = 1
  StateTimeout = 8
  AcceptScore = 70
  MaxPoll = 2
INVARIANTS
  StaleIsExplained
  FinishedIsAccepted
PROPERTIES
  StableMeansUnchanged
CHECK_DEADLOCK FALSE
