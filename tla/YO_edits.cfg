SPECIFICATION Spec
CONSTANTS
  m = m
  w = w
  cloud = cloud
  edge = edge
  Nodes = {w}
  ControlPlane = {}
  Labels = {edge}
  Specs <- Editing
  MaxGen = 2
  MaxRelabel = 0
  FaultKinds = {}
  MaxFaults = 0
INVARIANT TypeOK
INVARIANT GenerationsIssued
INVARIANT ApprovedFirst
PROPERTY ObservedMeansApplied
PROPERTY StatusNeverRegresses
PROPERTY ImplementsContract
CHECK_DEADLOCK FALSE
