SPECIFICATION FairSpec
CONSTANTS
  m = m
  w = w
  cloud = cloud
  edge = edge
  Nodes = {w}
  ControlPlane = {}
  Labels = {edge}
  Specs <- OnlyFull
  MaxGen = 1
  MaxRelabel = 0
  FaultKinds = {"api", "swallow"}
  MaxFaults = 1
PROPERTY Converges
PROPERTY DeletionCompletes
CHECK_DEADLOCK FALSE
