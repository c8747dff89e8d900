SPECIFICATION FairSpec
CONSTANTS
  kernel = kernel
  a = a
  b = b
  Name = {kernel, a, b}
  Kernel = kernel
  UsizeMax = 9
  MaxReAdds = 2
  MaxAdds = 3
  FileLists <- MCFileLists
CHECK_DEADLOCK FALSE
INVARIANTS
  TypeOK
  OrderRespectsEdges
  ClosuresExact
  MapsAgree
PROPERTY WalksEnd
