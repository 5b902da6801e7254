SPECIFICATION GateSpec
CONSTANTS
  Process = {p1, p2}
  MaxVersion = 2
  MaxOps = 3
  MaxFaults = 1
SYMMETRY Symmetry
INVARIANTS
  DisabledStaysOut
  SeveralActiveIsExplained
  RepairConverges
  RepairLosesOnlyAmbiguous
  GateApprovesTheLoaded
CHECK_DEADLOCK FALSE
