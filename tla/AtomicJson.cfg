SPECIFICATION FairSpec
CONSTANTS
  w1 = w1
  w2 = w2
  r1 = r1
  Writers = {w1, w2}
  Readers = {r1}
  Missing = Missing
  Corrupt = Corrupt
  MaxFaults = 1
INVARIANTS
  ExclusionUntilStale
  BackupInStep
PROPERTIES
  WholeStaysWhole
  LockIsFreed
