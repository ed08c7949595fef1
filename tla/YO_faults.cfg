SPECIFICATION Spec
CONSTANTS
  m = m
  w = w
  cloud = cloud
  edge = edge
  Nodes = {w}
  ControlPlane = {w}
  Labels = {cloud}
  Specs <- OnlyFull
  MaxGen = 1
  MaxRelabel = 0
  FaultKinds = {"api", "node", "crash"}
  MaxFaults = 1
INVARIANT CompletedIsReal
INVARIANT GoneMeansClean
INVARIANT KubeletHasProxy
PROPERTY ObservedMeansApplied
PROPERTY ReleaseFindsReverted
CHECK_DEADLOCK FALSE
