CONSTANTS
  c1 = c1  c2 = c2  web = web
  Containers <- MCTwo
  Names <- MCNames
  NameOf <- MCSameName
  MaxStarts = 1
  MaxObjects = 6
  MaxErrors = 2
SPECIFICATION FairSpec
INVARIANTS KeeperIsReachable AliasesAreKnown
PROPERTIES MapConverges KeepersEnd
CHECK_DEADLOCK FALSE
