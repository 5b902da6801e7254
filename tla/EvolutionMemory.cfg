SPECIFICATION Spec
CONSTANT MaxUpdates = 4
INVARIANTS
  LastSaveKept
PROPERTIES
  FileNeverOlder
  EventuallyOnDisk
CHECK_DEADLOCK FALSE
