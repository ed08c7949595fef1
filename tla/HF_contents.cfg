SPECIFICATION Spec
CONSTANTS
  Units <- SomeUnits
  EnvArgs <- SomeEnvArgs
  Specs <- SomeSpecs
  Written <- SomeManifests
INVARIANT TypeOK
INVARIANT KubeletConnectsAsMeant
INVARIANT UpstreamIsNotItself
INVARIANT FormsAreRight
INVARIANT LifecycleFollows
INVARIANT OthersAreLeftAlone
PROPERTY ReplacedForAReason
