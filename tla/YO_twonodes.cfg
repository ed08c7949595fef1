SPECIFICATION FromConverted
CONSTANTS
  m = m
  w = w
  cloud = cloud
  edge = edge
  Nodes = {m, w}
  ControlPlane = {m}
  Labels = {cloud}
  Specs <- OnlyBoth
  MaxGen = 1
  MaxRelabel = 0
  FaultKinds = {}
  MaxFaults = 0
PROPERTY ReleaseFindsReverted
CHECK_DEADLOCK FALSE
