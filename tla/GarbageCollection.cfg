CONSTANTS
  c1 = c1
  i1 = i1
  Containers <- MCContainers
  Images <- MCImages
  ImageOf <- MCImageOf
  ContainerTimeout = 1
  ImageTimeout = 1
  MaxErrors = 1
  MaxCrashes = 2
SPECIFICATION FairSpec
INVARIANTS TypeOK OwnIsForgottenOnlyByFailure
PROPERTIES ForeignIsKept OnlyIdleCollected StoppedIsCollected
