SPECIFICATION FairSpec
CONSTANTS
  Pools = 2
  Name <- MCName
  Empty = ""
  FirstWord <- MCFirstWord
  Missing = Missing
  Bootonces <- MCBootonces
  Lines <- MCLines
  LinuxRoots <- MCLinuxRoots
  MaxWrong = 2
INVARIANTS
  TypeOK
  OnceForEachCause
  WalkExact
  RootReachesKernel
PROPERTY EachTried
