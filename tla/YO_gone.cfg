SPECIFICATION Spec
CONSTANTS
  m = m
  w = w
  cloud = cloud
  edge = edge
  Nodes = {w}
  ControlPlane = {}
  Labels = {edge}
  Specs <- OnlyFull
  MaxGen = 1
  MaxRelabel = 0
  FaultKinds = {}
  MaxFaults = 0
INVARIANT GoneMeansReverted
CHECK_DEADLOCK FALSE
