SPECIFICATION Spec
CONSTANT MaxUpdates = 4
INVARIANT UpdatesAccumulate
CHECK_DEADLOCK FALSE
