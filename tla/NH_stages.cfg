SPECIFICATION Spec
CONSTANTS
  v1 = v1
  v2 = v2
  Flags = {v1, v2}
  InitialConfs = {"none", "own"}
  MaxRuns = 5
  MaxEdits = 1
  FaultKinds = {"prepare", "service", "pause"}
  MaxFaults = 3
INVARIANT TypeOK
PROPERTY ImplementsStages
CHECK_DEADLOCK FALSE
