SPECIFICATION Spec
CONSTANTS
  v1 = v1
  v2 = v2
  Flags = {v1}
  InitialConfs = {"none"}
  MaxRuns = 3
  MaxEdits = 0
  FaultKinds = {"cutoff"}
  MaxFaults = 1
INVARIANT RevertedMeansDirect
CHECK_DEADLOCK FALSE
