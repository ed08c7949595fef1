SPECIFICATION FairSpec
CONSTANTS
  Specs <- SomeSpecs
  MaxGen = 2
  MaxMasters = 1
  Touchable <- SomeObjects
  FaultKinds = {"api", "swallow", "count", "crash"}
  MaxEvents = 1
INVARIANT TypeOK
INVARIANT WorkloadHasItsBase
INVARIANT GoneLeavesLittle
PROPERTY ObservedMeansObjects
PROPERTY ImplementsContract
PROPERTY Repairs
CHECK_DEADLOCK FALSE
