SPECIFICATION FromApplied
CONSTANTS
  m = m
  w = w
  cloud = cloud
  edge = edge
  Nodes = {w}
  ControlPlane = {}
  Labels = {cloud, edge}
  Specs <- OnlyFull
  MaxGen = 1
  MaxRelabel = 2
  FaultKinds = {}
  MaxFaults = 0
INVARIANT CompletedIsReal
CHECK_DEADLOCK FALSE
