CONSTANTS
  a1 = a1
  a2 = a2
  a3 = a3
  a4 = a4
  table = table
  pool = pool
  Alpha <- MCAlpha
  Legacy <- MCLegacy
  Source <- MCSource
  Silent <- MCSilent
  SourcesOf <- MCSourcesOf
  BatchSize = 2
  MaxFaults = 2
SPECIFICATION Spec
INVARIANTS CountedOncePerRun  LiveRowsStay
PROPERTY EventuallyCompleted
