SPECIFICATION Spec
CONSTANTS
  m = m
  w = w
  cloud = cloud
  edge = edge
  Nodes = {w}
  ControlPlane = {}
  Labels = {edge}
  Specs <- Switching
  MaxGen = 2
  MaxRelabel = 0
  FaultKinds = {}
  MaxFaults = 0
INVARIANT EdgeLabelFollows
CHECK_DEADLOCK FALSE
