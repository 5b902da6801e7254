SPECIFICATION Spec
CONSTANTS
  p1 = p1
  p2 = p2
  Producer = {p1, p2}
  MaxEvents = 2
  Generations = 2
  BatchSize = 2
  Attempts = 2
INVARIANTS
  StoredInOrder
  FlushedIsSettled
  StrandedIsExplained
PROPERTIES StoreSpec EventuallySettled
CHECK_DEADLOCK FALSE
